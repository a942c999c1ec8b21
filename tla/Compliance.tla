----------------------------- MODULE Compliance -----------------------------
(***************************************************************************)
(* AML flags and CTR reports on top of Accounts: check_aml_ctr             *)
(* (middleware/aml_checker), which deposit, withdraw and transfer call     *)
(* within their commit, and review_aml_flag (routes/transactions).  Every  *)
(* step is a step of Accounts with the rows it adds, or one of a review,   *)
(* which leaves the accounts alone.                                        *)
(*                                                                         *)
(* A review is two steps of its thread, the query and the commit; who      *)
(* reviews and with which notes is chosen at the commit.                   *)
(***************************************************************************)
EXTENDS Accounts, Sequences

CONSTANTS
  AmlThreshold,   \* AML_THRESHOLD_PAISE
  CtrThreshold,   \* CTR_THRESHOLD_PAISE
  Reviewer,       \* the managers and administrators
  Notes,          \* the notes of reviews; NoNotes is the default, ""
  NoNotes,
  Null,           \* NULL in reviewed_by_user_id and review_notes
  MaxReviews      \* bound: the reviews that arrive

ASSUME ComplianceAssumption ==
  /\ AmlThreshold \in Nat /\ CtrThreshold \in Nat
  /\ NoNotes \in Notes
  /\ Null \notin Reviewer /\ Null \notin Notes
  /\ MaxReviews \in Nat

VARIABLES
  flags,          \* the rows of aml_flags, in the order of their ids
  reports,        \* the rows of ctr_reports, in the order of their ids
  review,         \* review[t]: the number of the flag that t reviews, or 0
  loaded,         \* loaded[t]: that flag as t loaded it
  latest,         \* history: what the latest review of each flag said
  reviewed,       \* the reviews that have arrived
  rereviewed      \* history: reviews of one flag overlapped, and one of them
                  \*   had found it reviewed

cases == <<review, loaded, latest, reviewed, rereviewed>>
allVars == <<vars, flags, reports, cases>>

Movement == {"DEPOSIT", "WITHDRAWAL", "TRANSFER"}

\* The columns of a flag that a review writes; is_reviewed goes with them.
Finding == [by : Reviewer \cup {Null}, notes : Notes \cup {Null}]

Open == [by |-> Null, notes |-> Null]

Flag == [account : Account, txn : Movement, finding : Finding]

Report == [account : Account, txn : Movement]

ComplianceInit ==
  /\ Init
  /\ flags = <<>> /\ reports = <<>>
  /\ review = [t \in Thread |-> 0]
  /\ loaded = [t \in Thread |-> Open]
  /\ latest = <<>>
  /\ reviewed = 0
  /\ rereviewed = FALSE

-----------------------------------------------------------------------------
\* The amount of the transaction that t records on account a.
Amount(a) == IF posted'[a] >= posted[a] THEN posted'[a] - posted[a]
                                        ELSE posted[a] - posted'[a]

\* Mutant of SubjectOf: the flag is raised on the counterpart.
CounterpartOf(t) == into[t]

\* transaction.account_id
SubjectOf(t) == from[t]

\* check_aml_ctr, on the SUCCESS row of a movement (a refusal adds none).
CheckAmlCtr(t, txn, isCash) ==
  LET a == SubjectOf(t)
      m == Amount(from[t])
  IN /\ flags' = IF m > AmlThreshold
                 THEN Append(flags, [account |-> a, txn |-> txn, finding |-> Open])
                 ELSE flags
     /\ latest' = IF m > AmlThreshold THEN Append(latest, Open) ELSE latest
     /\ reports' = IF isCash /\ m > CtrThreshold
                   THEN Append(reports, [account |-> a, txn |-> txn])
                   ELSE reports
     /\ UNCHANGED <<review, loaded, reviewed, rereviewed>>

Move(t) ==
  \/ Deposit(t)  /\ CheckAmlCtr(t, "DEPOSIT", TRUE)
  \/ Withdraw(t) /\ CheckAmlCtr(t, "WITHDRAWAL", TRUE)
  \/ Transfer(t) /\ CheckAmlCtr(t, "TRANSFER", FALSE)

\* The other steps of Accounts; the penalty of a closure and the interest are
\* transactions that nothing checks.
Unchecked(t) ==
  /\ \/ LoadAccount(t) \/ LoadDestination(t) \/ LoadBatch(t)
     \/ WithdrawBlocked(t) \/ WithdrawRefused(t) \/ TransferRefused(t)
     \/ UpdateStatus(t) \/ CloseFd(t) \/ CreditInterest(t)
  /\ UNCHANGED <<flags, reports, cases>>

-----------------------------------------------------------------------------
\* review_aml_flag loads the flag (404 if there is none) ...
LoadFlag(t) ==
  /\ pc[t] = "idle" /\ review[t] = 0 /\ reviewed < MaxReviews
  /\ \E k \in DOMAIN flags :
       /\ review' = [review EXCEPT ![t] = k]
       /\ loaded' = [loaded EXCEPT ![t] = flags[k].finding]
       /\ rereviewed' = (rereviewed \/ \E q \in Thread :
                           review[q] = k /\ {loaded[q], flags[k].finding} # {Open})
  /\ reviewed' = reviewed + 1
  /\ UNCHANGED <<vars, flags, reports, latest>>

\* Mutant of Written: notes that were not given leave the old ones.
NotesIfGiven(cur, old, new) ==
  [by    |-> IF new.by = old.by THEN cur.by ELSE new.by,
   notes |-> IF new.notes \in {old.notes, NoNotes} THEN cur.notes ELSE new.notes]

\* The UPDATE of a flag: the columns that differ from the loaded ones.
Written(cur, old, new) ==
  [by    |-> IF new.by = old.by THEN cur.by ELSE new.by,
   notes |-> IF new.notes = old.notes THEN cur.notes ELSE new.notes]

\* ... and commits the review.
Review(t) ==
  /\ review[t] # 0
  /\ LET k == review[t]
     IN \E u \in Reviewer, n \in Notes :
          LET new == [by |-> u, notes |-> n]
          IN /\ flags' = [flags EXCEPT ![k].finding = Written(@, loaded[t], new)]
             /\ latest' = [latest EXCEPT ![k] = new]
  /\ review' = [review EXCEPT ![t] = 0]
  /\ loaded' = [loaded EXCEPT ![t] = Open]
  /\ UNCHANGED <<vars, reports, reviewed, rereviewed>>

ComplianceNext ==
  \/ (Tick \/ Quiet) /\ UNCHANGED <<flags, reports, cases>>
  \/ \E t \in Thread : review[t] = 0 /\ (Move(t) \/ Unchecked(t))
  \/ \E t \in Thread : LoadFlag(t) \/ Review(t)

ComplianceSpec == ComplianceInit /\ [][ComplianceNext]_allVars

-----------------------------------------------------------------------------
\* Properties.

\* Every variable keeps its type; flags are raised on accounts, and who reviews
\* a flag reviews one that exists.
ComplianceTypeOK ==
  /\ flags \in Seq(Flag)
  /\ reports \in Seq(Report)
  /\ review \in [Thread -> 0 .. Len(flags)]
  /\ loaded \in [Thread -> Finding]
  /\ latest \in Seq(Finding) /\ Len(latest) = Len(flags)
  /\ reviewed \in Nat /\ rereviewed \in BOOLEAN

\* Money that leaves an account is flagged or reported only if the account has
\* no daily limit, or one above the threshold: with DAILY_LIMITS of 50,000 and
\* 2,00,000 rupees and thresholds of 10,00,000 and 50,000, all flags come from
\* deposits and fixed deposits, and no withdrawal from a savings account is ever
\* reported (transaction_service.py:31-35, aml_checker.py:17-18).
LimitsShadowThresholds ==
  /\ \A k \in DOMAIN flags :
       LET limit == DailyLimit[Kind[flags[k].account]]
       IN flags[k].txn # "DEPOSIT" => limit = 0 \/ limit > AmlThreshold
  /\ \A k \in DOMAIN reports :
       LET limit == DailyLimit[Kind[reports[k].account]]
       IN reports[k].txn # "DEPOSIT" => limit = 0 \/ limit > CtrThreshold

\* However reviews of a flag overlap, as long as they found it unreviewed the
\* flag has reviewer and notes of one and the same review, the last one: nobody
\* stands for notes of another (routes/transactions.py:127-130).
ReviewsWhole ==
  ~rereviewed => \A k \in DOMAIN flags : flags[k].finding = latest[k]
=============================================================================
