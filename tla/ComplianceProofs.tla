-------------------------- MODULE ComplianceProofs --------------------------
(***************************************************************************)
(* Theorems about Compliance, for any thresholds, limits, reviewers and    *)
(* number of threads.                                                      *)
(***************************************************************************)
EXTENDS Compliance, AccountsProofs, SequenceTheorems

-----------------------------------------------------------------------------
\* Compliance is Accounts with rows added: what is proved of Accounts holds.

LEMMA InitOfAccounts == ComplianceInit => Init
BY DEF ComplianceInit

LEMMA StepOfAccounts == [ComplianceNext]_allVars => [Next]_vars
<1> SUFFICES ASSUME [ComplianceNext]_allVars PROVE [Next]_vars
  OBVIOUS
<1>1. CASE (Tick \/ Quiet) /\ UNCHANGED <<flags, reports, cases>>
  BY <1>1 DEF Next
<1>2. ASSUME NEW t \in Thread, Move(t) PROVE [Next]_vars
  BY <1>2 DEF Move, Next, Serve
<1>3. ASSUME NEW t \in Thread, Unchecked(t) PROVE [Next]_vars
  BY <1>3 DEF Unchecked, Next, Serve
<1>4. ASSUME NEW t \in Thread, LoadFlag(t) \/ Review(t) PROVE [Next]_vars
  BY <1>4 DEF LoadFlag, Review
<1>5. CASE UNCHANGED allVars
  BY <1>5 DEF allVars
<1> QED BY <1>1, <1>2, <1>3, <1>4, <1>5 DEF ComplianceNext

\* Flags, reports and reviews get in nobody's way: every behaviour with them is
\* one of Accounts.
THEOREM ImplementsAccounts == ComplianceSpec => Spec
<1>1. ComplianceInit => Init
  BY InitOfAccounts
<1>2. [ComplianceNext]_allVars => [Next]_vars
  BY StepOfAccounts
<1> QED BY <1>1, <1>2, PTL DEF ComplianceSpec, Spec

\* In particular no account falls below its floor.
THEOREM FloorsKeptWithCompliance == ComplianceSpec => []FloorsKept
BY ImplementsAccounts, FloorsAlwaysKept, PTL

\* ... and deposits, withdrawals and transfers that are flagged and reported in
\* their commit are postings of the ledger all the same.
THEOREM LedgerWithCompliance == ComplianceSpec => ImplementsLedger
BY ImplementsAccounts, LedgerImplemented, PTL

LEMMA AccountsTyped == ComplianceSpec => []TypeOK
BY ImplementsAccounts, TypeCorrect, PTL

-----------------------------------------------------------------------------
\* Types.

LEMMA OpenIsFinding == Open \in Finding
BY DEF Open, Finding

\* A movement serves an account, so the rows it adds are about one.
LEMMA MoveServes ==
  ASSUME TypeOK, NEW t \in Thread, Move(t)
  PROVE  from[t] \in Account
BY DEF Move, Deposit, Withdraw, Transfer, TypeOK

\* What check_aml_ctr adds: at most a flag with its empty finding, and at most
\* a report.
LEMMA RowsAdded ==
  ASSUME NEW t \in Thread, NEW txn, NEW isCash, CheckAmlCtr(t, txn, isCash)
  PROVE  LET m == Amount(from[t])
         IN /\ \/ UNCHANGED <<flags, latest>>
               \/ /\ m > AmlThreshold
                  /\ flags' = Append(flags, [account |-> from[t], txn |-> txn,
                                             finding |-> Open])
                  /\ latest' = Append(latest, Open)
            /\ \/ UNCHANGED reports
               \/ /\ isCash /\ m > CtrThreshold
                  /\ reports' = Append(reports, [account |-> from[t], txn |-> txn])
BY DEF CheckAmlCtr, SubjectOf

LEMMA CheckType ==
  ASSUME ComplianceTypeOK, NEW t \in Thread, from[t] \in Account,
         NEW txn \in Movement, NEW isCash, CheckAmlCtr(t, txn, isCash)
  PROVE  ComplianceTypeOK'
<1>1. [account |-> from[t], txn |-> txn, finding |-> Open] \in Flag
  BY OpenIsFinding DEF Flag
<1>2. [account |-> from[t], txn |-> txn] \in Report
  BY DEF Report
<1>3. /\ flags' \in Seq(Flag) /\ latest' \in Seq(Finding)
      /\ Len(latest') = Len(flags') /\ Len(flags') >= Len(flags)
  <2>1. CASE UNCHANGED <<flags, latest>>
    BY <2>1 DEF ComplianceTypeOK
  <2>2. CASE /\ flags' = Append(flags, [account |-> from[t], txn |-> txn,
                                        finding |-> Open])
             /\ latest' = Append(latest, Open)
    BY <1>1, <2>2, OpenIsFinding, AppendProperties DEF ComplianceTypeOK
  <2> QED BY <2>1, <2>2, RowsAdded, Zenon
<1>4. reports' \in Seq(Report)
  <2>1. CASE UNCHANGED reports
    BY <2>1 DEF ComplianceTypeOK
  <2>2. CASE reports' = Append(reports, [account |-> from[t], txn |-> txn])
    BY <1>2, <2>2, AppendProperties DEF ComplianceTypeOK
  <2> QED BY <2>1, <2>2, RowsAdded, Zenon
<1>5. UNCHANGED <<review, loaded, reviewed, rereviewed>>
  BY DEF CheckAmlCtr
<1>6. \A k \in 0 .. Len(flags) : k \in 0 .. Len(flags')
  BY <1>3 DEF ComplianceTypeOK
<1>7. review' \in [Thread -> 0 .. Len(flags')]
  BY <1>5, <1>6 DEF ComplianceTypeOK
<1> QED BY <1>3, <1>4, <1>5, <1>7 DEF ComplianceTypeOK

LEMMA WrittenIsFinding ==
  ASSUME NEW cur \in Finding, NEW old \in Finding, NEW new \in Finding
  PROVE  Written(cur, old, new) \in Finding
BY DEF Written, Finding

\* The flag under review, and the UPDATE of its finding.
LEMMA FlagUnderReview ==
  ASSUME ComplianceTypeOK, NEW t \in Thread, review[t] # 0
  PROVE  /\ review[t] \in 1 .. Len(flags) /\ review[t] \in 1 .. Len(latest)
         /\ DOMAIN flags = 1 .. Len(flags)
         /\ flags[review[t]] \in Flag
         /\ flags[review[t]].finding \in Finding
<1>1. /\ flags \in Seq(Flag) /\ Len(latest) = Len(flags) /\ Len(flags) \in Nat
      /\ review[t] \in 0 .. Len(flags)
  BY LenProperties DEF ComplianceTypeOK
<1>2. review[t] \in 1 .. Len(flags)
  BY <1>1
<1>3. flags[review[t]] \in Flag
  BY <1>1, <1>2, ElementOfSeq
<1> QED BY <1>1, <1>2, <1>3, LenProperties DEF Flag

LEMMA ReviewType ==
  ASSUME ComplianceTypeOK, NEW t \in Thread, Review(t)
  PROVE  ComplianceTypeOK'
<1> DEFINE k == review[t]
<1>1. PICK u \in Reviewer, n \in Notes :
        LET new == [by |-> u, notes |-> n]
        IN /\ flags' = [flags EXCEPT ![k].finding = Written(@, loaded[t], new)]
           /\ latest' = [latest EXCEPT ![k] = new]
  BY DEF Review
<1>2. review[t] # 0
  BY DEF Review
<1> DEFINE new == [by |-> u, notes |-> n]
           f == Written(flags[k].finding, loaded[t], new)
<1>3. new \in Finding /\ loaded[t] \in Finding
  BY DEF Finding, ComplianceTypeOK
<1>4. f \in Finding
  BY <1>2, <1>3, FlagUnderReview, WrittenIsFinding
<1>5. flags' = [flags EXCEPT ![k] = [flags[k] EXCEPT !.finding = f]]
  BY <1>1, Zenon
<1>6. [flags[k] EXCEPT !.finding = f] \in Flag
  BY <1>2, <1>4, FlagUnderReview DEF Flag
<1>7. flags' \in Seq(Flag) /\ Len(flags') = Len(flags)
  <2> HIDE DEF f
  <2> QED BY <1>2, <1>5, <1>6, FlagUnderReview, ExceptSeq DEF ComplianceTypeOK
<1>8. latest' \in Seq(Finding) /\ Len(latest') = Len(latest)
  BY <1>1, <1>2, <1>3, FlagUnderReview, ExceptSeq DEF ComplianceTypeOK
<1>9. /\ review' = [review EXCEPT ![t] = 0] /\ loaded' = [loaded EXCEPT ![t] = Open]
      /\ UNCHANGED <<reports, reviewed, rereviewed>>
  BY DEF Review
<1> QED BY <1>7, <1>8, <1>9, OpenIsFinding DEF ComplianceTypeOK

LEMMA LoadFlagType ==
  ASSUME ComplianceTypeOK, NEW t \in Thread, LoadFlag(t)
  PROVE  ComplianceTypeOK'
<1>1. PICK k \in DOMAIN flags :
        /\ review' = [review EXCEPT ![t] = k]
        /\ loaded' = [loaded EXCEPT ![t] = flags[k].finding]
        /\ rereviewed' = (rereviewed \/ \E q \in Thread :
                            review[q] = k /\ {loaded[q], flags[k].finding} # {Open})
  BY DEF LoadFlag
<1>2. k \in 1 .. Len(flags) /\ Len(flags) \in Nat
  BY LenProperties DEF ComplianceTypeOK
<1>3. flags[k].finding \in Finding
  <2>1. flags[k] \in Flag
    BY <1>2, ElementOfSeq DEF ComplianceTypeOK
  <2> QED BY <2>1 DEF Flag
<1>4. UNCHANGED <<flags, reports, latest>> /\ reviewed' = reviewed + 1
  BY DEF LoadFlag
<1>5. review' \in [Thread -> 0 .. Len(flags)]
  BY <1>1, <1>2 DEF ComplianceTypeOK
<1>6. loaded' \in [Thread -> Finding]
  BY <1>1, <1>3 DEF ComplianceTypeOK
<1>7. rereviewed' \in BOOLEAN
  BY <1>1, Zenon DEF ComplianceTypeOK
<1> QED BY <1>4, <1>5, <1>6, <1>7 DEF ComplianceTypeOK

LEMMA ComplianceTypeInit == ComplianceInit => ComplianceTypeOK
<1> SUFFICES ASSUME ComplianceInit PROVE ComplianceTypeOK
  OBVIOUS
<1>1. flags = <<>> /\ reports = <<>> /\ latest = <<>> /\ Len(flags) = 0
  BY EmptySeq DEF ComplianceInit
<1>2. flags \in Seq(Flag) /\ reports \in Seq(Report) /\ latest \in Seq(Finding)
  BY <1>1, EmptySeq
<1>3. 0 \in 0 .. Len(flags)
  BY <1>1
<1>4. review \in [Thread -> 0 .. Len(flags)] /\ loaded \in [Thread -> Finding]
  BY <1>3, OpenIsFinding DEF ComplianceInit
<1> QED BY <1>1, <1>2, <1>4 DEF ComplianceInit, ComplianceTypeOK

LEMMA ComplianceTypeNext ==
  TypeOK /\ ComplianceTypeOK /\ [ComplianceNext]_allVars => ComplianceTypeOK'
<1> SUFFICES ASSUME TypeOK, ComplianceTypeOK, [ComplianceNext]_allVars
             PROVE  ComplianceTypeOK'
  OBVIOUS
<1>1. ASSUME UNCHANGED <<flags, reports, cases>> PROVE ComplianceTypeOK'
  BY <1>1 DEF cases, ComplianceTypeOK
<1>2. ASSUME NEW t \in Thread, Move(t) PROVE ComplianceTypeOK'
  <2>1. PICK txn \in Movement, isCash \in BOOLEAN : CheckAmlCtr(t, txn, isCash)
    BY <1>2 DEF Move, Movement
  <2> QED BY <1>2, <2>1, MoveServes, CheckType
<1>3. ASSUME NEW t \in Thread, Unchecked(t) PROVE ComplianceTypeOK'
  BY <1>1, <1>3 DEF Unchecked
<1>4. ASSUME NEW t \in Thread, LoadFlag(t) \/ Review(t) PROVE ComplianceTypeOK'
  BY <1>4, LoadFlagType, ReviewType
<1>5. CASE UNCHANGED allVars
  BY <1>1, <1>5 DEF allVars
<1> QED BY <1>1, <1>2, <1>3, <1>4, <1>5 DEF ComplianceNext

\* Every reachable state is well typed: flags and reports are about accounts, and
\* whoever reviews a flag reviews one that exists (routes/transactions.py:123).
THEOREM ComplianceTypeCorrect == ComplianceSpec => []ComplianceTypeOK
<1>1. ComplianceInit => ComplianceTypeOK
  BY ComplianceTypeInit
<1>2. TypeOK /\ ComplianceTypeOK /\ [ComplianceNext]_allVars => ComplianceTypeOK'
  BY ComplianceTypeNext
<1> QED BY <1>1, <1>2, AccountsTyped, PTL DEF ComplianceSpec

-----------------------------------------------------------------------------
\* What is flagged and reported.

\* A debit that passes the check of the daily limit is no more than the limit,
\* whatever the counter of the loaded row says.
LEMMA DebitWithinLimit ==
  ASSUME TypeOK, NEW a \in Account, NEW r \in Row, r.withdrawn \in Nat,
         NEW m \in Amounts, WithinDailyLimit(Kind[a], ResetIfNewDay(r), m),
         DailyLimit[Kind[a]] # 0
  PROVE  m <= DailyLimit[Kind[a]]
<1>1. ResetIfNewDay(r).withdrawn \in Nat
  BY ResetCounter
<1>2. DailyLimit[Kind[a]] \in Nat /\ m \in Nat
  BY AccountsAssumption
<1> QED BY <1>1, <1>2 DEF WithinDailyLimit

\* The amount that a withdrawal or a transfer records.
LEMMA DebitAmount ==
  ASSUME TypeOK, CountersNatural, NEW t \in Thread, Withdraw(t) \/ Transfer(t),
         DailyLimit[Kind[from[t]]] # 0
  PROVE  /\ from[t] \in Account
         /\ Amount(from[t]) <= DailyLimit[Kind[from[t]]]
         /\ Amount(from[t]) \in Nat
<1> DEFINE a == from[t]
           old == seen[t][a]
           r == ResetIfNewDay(old)
<1>1. /\ a \in Account /\ old \in Row /\ old.withdrawn \in Nat
      /\ posted \in [Account -> Int]
      /\ Transfer(t) => into[t] \in Account /\ into[t] # a
  BY DEF Withdraw, Transfer, TypeOK, CountersNatural
<1>2. \E m \in Amounts : WithinDailyLimit(Kind[a], r, m) /\ posted'[a] = posted[a] - m
  <2>1. CASE Withdraw(t)
    BY <1>1, <2>1 DEF Withdraw
  <2>2. CASE Transfer(t)
    <3>1. PICK m \in Amounts :
            /\ TransferAllowed(a, old, seen[t][into[t]], m)
            /\ posted' = [posted EXCEPT ![a] = @ - m, ![into[t]] = @ + m]
      BY <2>2 DEF Transfer
    <3>2. posted'[a] = posted[a] - m
      BY <1>1, <2>2, <3>1
    <3> QED BY <3>1, <3>2 DEF TransferAllowed
  <2> QED BY <2>1, <2>2
<1>3. PICK m \in Amounts :
        WithinDailyLimit(Kind[a], r, m) /\ posted'[a] = posted[a] - m
  BY <1>2
<1>4. m \in Nat \ {0} /\ posted[a] \in Int
  BY <1>1, AccountsAssumption
<1>5. Amount(a) = m
  BY <1>3, <1>4 DEF Amount
<1>6. m <= DailyLimit[Kind[a]]
  BY <1>1, <1>3, DebitWithinLimit
<1> QED BY <1>1, <1>4, <1>5, <1>6

\* The two halves of the property, of one row each.
FlagShadowed(f) ==
  f.txn # "DEPOSIT" => \/ DailyLimit[Kind[f.account]] = 0
                       \/ DailyLimit[Kind[f.account]] > AmlThreshold

ReportShadowed(r) ==
  r.txn # "DEPOSIT" => \/ DailyLimit[Kind[r.account]] = 0
                       \/ DailyLimit[Kind[r.account]] > CtrThreshold

\* What a movement adds is no exception.
LEMMA MoveShadowed ==
  ASSUME TypeOK, CountersNatural, ComplianceTypeOK, NEW t \in Thread, Move(t)
  PROVE  /\ \/ flags' = flags
            \/ \E f \in Flag : flags' = Append(flags, f) /\ FlagShadowed(f)
         /\ \/ reports' = reports
            \/ \E r \in Report : reports' = Append(reports, r) /\ ReportShadowed(r)
<1> DEFINE a == from[t]
           limit == DailyLimit[Kind[a]]
           flag(txn) == [account |-> a, txn |-> txn, finding |-> Open]
           report(txn) == [account |-> a, txn |-> txn]
<1>1. a \in Account /\ limit \in Nat /\ AmlThreshold \in Nat /\ CtrThreshold \in Nat
  BY MoveServes, AccountsAssumption, ComplianceAssumption
<1>2. \A txn \in Movement : flag(txn) \in Flag /\ report(txn) \in Report
  BY <1>1, OpenIsFinding DEF Flag, Report
<1>3. PICK txn \in Movement, isCash \in BOOLEAN :
        /\ CheckAmlCtr(t, txn, isCash)
        /\ txn = "WITHDRAWAL" => Withdraw(t)
        /\ txn = "TRANSFER" => Transfer(t)
  BY DEF Move, Movement
<1>4. /\ flags' = flags \/ (Amount(a) > AmlThreshold /\ flags' = Append(flags, flag(txn)))
      /\ \/ reports' = reports
         \/ /\ isCash /\ Amount(a) > CtrThreshold
            /\ reports' = Append(reports, report(txn))
  BY <1>3, RowsAdded
<1>5. txn # "DEPOSIT" /\ limit # 0 => Amount(a) <= limit /\ Amount(a) \in Nat
  BY <1>3, DebitAmount DEF Movement
<1>6. ASSUME Amount(a) > AmlThreshold PROVE FlagShadowed(flag(txn))
  BY <1>1, <1>5, <1>6 DEF FlagShadowed
<1>7. ASSUME Amount(a) > CtrThreshold PROVE ReportShadowed(report(txn))
  BY <1>1, <1>5, <1>7 DEF ReportShadowed
<1> QED BY <1>2, <1>4, <1>6, <1>7

Shadowed == /\ \A k \in DOMAIN flags : FlagShadowed(flags[k])
            /\ \A k \in DOMAIN reports : ReportShadowed(reports[k])

LEMMA AppendShadowed ==
  ASSUME NEW S, NEW s \in Seq(S), NEW e \in S, NEW k \in DOMAIN Append(s, e)
  PROVE  (k \in DOMAIN s /\ Append(s, e)[k] = s[k]) \/ Append(s, e)[k] = e
BY AppendProperties, LenProperties

LEMMA ReviewKeepsRest ==
  ASSUME ComplianceTypeOK, NEW t \in Thread, Review(t)
  PROVE  /\ DOMAIN flags' = DOMAIN flags
         /\ \A k \in DOMAIN flags : /\ flags'[k].account = flags[k].account
                                   /\ flags'[k].txn = flags[k].txn
<1>1. PICK new : flags' = [flags EXCEPT ![review[t]].finding = Written(@, loaded[t], new)]
  BY DEF Review
<1>2. \A k \in DOMAIN flags : flags[k] \in Flag
  BY ElementOfSeq, LenProperties DEF ComplianceTypeOK
<1>3. flags' = [flags EXCEPT ![review[t]] = [flags[review[t]] EXCEPT
                  !.finding = Written(flags[review[t]].finding, loaded[t], new)]]
  BY <1>1, Zenon
<1>4. DOMAIN flags' = DOMAIN flags
  BY <1>3
<1>5. ASSUME NEW k \in DOMAIN flags
      PROVE  flags'[k].account = flags[k].account /\ flags'[k].txn = flags[k].txn
  BY <1>2, <1>3 DEF Flag
<1> QED BY <1>4, <1>5

LEMMA ShadowedNext ==
  ASSUME TypeOK, CountersNatural, ComplianceTypeOK, Shadowed, [ComplianceNext]_allVars
  PROVE  Shadowed'
<1>1. ASSUME UNCHANGED <<flags, reports>> PROVE Shadowed'
  BY <1>1 DEF Shadowed, FlagShadowed, ReportShadowed
<1>2. ASSUME NEW t \in Thread, Move(t) PROVE Shadowed'
  <2>1. flags \in Seq(Flag) /\ reports \in Seq(Report)
    BY DEF ComplianceTypeOK
  <2>2. \A k \in DOMAIN flags' : FlagShadowed(flags'[k])
    <3>1. CASE flags' = flags
      BY <3>1 DEF Shadowed
    <3>2. ASSUME NEW f \in Flag, flags' = Append(flags, f), FlagShadowed(f)
          PROVE  \A k \in DOMAIN flags' : FlagShadowed(flags'[k])
      <4> TAKE k \in DOMAIN flags'
      <4>1. (k \in DOMAIN flags /\ flags'[k] = flags[k]) \/ flags'[k] = f
        BY <2>1, <3>2, AppendShadowed
      <4> QED BY <3>2, <4>1, Zenon DEF Shadowed
    <3> QED BY <1>2, <3>1, <3>2, MoveShadowed
  <2>3. \A k \in DOMAIN reports' : ReportShadowed(reports'[k])
    <3>1. CASE reports' = reports
      BY <3>1 DEF Shadowed
    <3>2. ASSUME NEW r \in Report, reports' = Append(reports, r), ReportShadowed(r)
          PROVE  \A k \in DOMAIN reports' : ReportShadowed(reports'[k])
      <4> TAKE k \in DOMAIN reports'
      <4>1. (k \in DOMAIN reports /\ reports'[k] = reports[k]) \/ reports'[k] = r
        BY <2>1, <3>2, AppendShadowed
      <4> QED BY <3>2, <4>1, Zenon DEF Shadowed
    <3> QED BY <1>2, <3>1, <3>2, MoveShadowed
  <2> QED BY <2>2, <2>3 DEF Shadowed, FlagShadowed, ReportShadowed
<1>3. ASSUME NEW t \in Thread, Unchecked(t) \/ LoadFlag(t) PROVE Shadowed'
  BY <1>1, <1>3 DEF Unchecked, LoadFlag
<1>4. ASSUME NEW t \in Thread, Review(t) PROVE Shadowed'
  BY <1>4, ReviewKeepsRest DEF Review, Shadowed, FlagShadowed, ReportShadowed
<1>5. CASE (Tick \/ Quiet) /\ UNCHANGED <<flags, reports, cases>>
  BY <1>1, <1>5
<1>6. CASE UNCHANGED allVars
  BY <1>1, <1>6 DEF allVars
<1> QED BY <1>2, <1>3, <1>4, <1>5, <1>6 DEF ComplianceNext

\* Whatever threads do, a debit is flagged or reported only where no daily limit
\* below the threshold stands in its way: each debit was compared with its limit,
\* and no counter is ever negative.
THEOREM LimitsAlwaysShadow == ComplianceSpec => []LimitsShadowThresholds
<1>1. ComplianceInit => Shadowed
  BY DEF ComplianceInit, Shadowed
<1>2. TypeOK /\ CountersNatural /\ ComplianceTypeOK /\ Shadowed
        /\ [ComplianceNext]_allVars => Shadowed'
  BY ShadowedNext
<1>3. Shadowed => LimitsShadowThresholds
  BY DEF Shadowed, FlagShadowed, ReportShadowed, LimitsShadowThresholds
<1>4. ComplianceSpec => []CountersNatural
  BY ImplementsAccounts, CountersAlwaysNatural, PTL
<1> QED BY <1>1, <1>2, <1>3, <1>4, AccountsTyped, ComplianceTypeCorrect, PTL
    DEF ComplianceSpec

-----------------------------------------------------------------------------
\* Reviews.

\* A review that found its flag reviewed is alone with it, and nothing has
\* changed since.
Undisturbed(t) ==
  review[t] # 0 /\ loaded[t] # Open =>
    /\ loaded[t] = flags[review[t]].finding
    /\ \A q \in Thread : q # t => review[q] # review[t]

ReviewInv ==
  ~rereviewed => /\ \A k \in DOMAIN flags : flags[k].finding = latest[k]
                 /\ \A t \in Thread : Undisturbed(t)

\* An UPDATE of a flag that was found unreviewed, or as it still is, writes the
\* review as a whole.
LEMMA WrittenWhole ==
  ASSUME NEW cur \in Finding, NEW old \in Finding,
         NEW u \in Reviewer, NEW n \in Notes, old = Open \/ old = cur
  PROVE  Written(cur, old, [by |-> u, notes |-> n]) = [by |-> u, notes |-> n]
BY ComplianceAssumption DEF Written, Open, Finding

LEMMA ReviewKeepsReviewInv ==
  ASSUME ComplianceTypeOK, ReviewInv, NEW t \in Thread, Review(t)
  PROVE  ReviewInv'
<1> SUFFICES ASSUME ~rereviewed' PROVE ReviewInv'
  BY DEF ReviewInv
<1> DEFINE k == review[t]
<1>1. /\ k # 0 /\ k \in 1 .. Len(flags) /\ k \in 1 .. Len(latest)
      /\ DOMAIN flags = 1 .. Len(flags) /\ k \in DOMAIN latest
      /\ flags[k] \in Flag /\ flags[k].finding \in Finding
      /\ loaded[t] \in Finding
  BY FlagUnderReview, LenProperties DEF Review, ComplianceTypeOK
<1>2. /\ \A j \in DOMAIN flags : flags[j].finding = latest[j]
      /\ \A q \in Thread : Undisturbed(q)
  BY DEF ReviewInv, Review
<1>3. PICK u \in Reviewer, n \in Notes :
        LET new == [by |-> u, notes |-> n]
        IN /\ flags' = [flags EXCEPT ![k].finding = Written(@, loaded[t], new)]
           /\ latest' = [latest EXCEPT ![k] = new]
  BY DEF Review
<1> DEFINE new == [by |-> u, notes |-> n]
<1>4. Written(flags[k].finding, loaded[t], new) = new
  BY <1>1, <1>2, WrittenWhole DEF Undisturbed
<1>5. flags' = [flags EXCEPT ![k] = [flags[k] EXCEPT !.finding = new]]
  BY <1>3, <1>4, Zenon
<1>6. latest' = [latest EXCEPT ![k] = new]
  BY <1>3
<1>7. review' = [review EXCEPT ![t] = 0] /\ loaded' = [loaded EXCEPT ![t] = Open]
  BY DEF Review
<1>8. review \in [Thread -> 0 .. Len(flags)] /\ loaded \in [Thread -> Finding]
  BY DEF ComplianceTypeOK
<1> HIDE DEF new, k
<1>9. \A j \in DOMAIN flags' : flags'[j].finding = latest'[j]
  BY <1>1, <1>2, <1>5, <1>6 DEF Flag, ComplianceTypeOK
<1>10. ASSUME NEW q \in Thread PROVE Undisturbed(q)'
  <2>1. CASE q = t
    BY <1>7, <1>8, <2>1 DEF Undisturbed
  <2>2. CASE q # t
    <3> SUFFICES ASSUME review'[q] # 0, loaded'[q] # Open
                 PROVE  /\ loaded'[q] = flags'[review'[q]].finding
                        /\ \A p \in Thread : p # q => review'[p] # review'[q]
      BY DEF Undisturbed
    <3>1. review'[q] = review[q] /\ loaded'[q] = loaded[q]
      BY <1>7, <1>8, <2>2
    <3>2. /\ loaded[q] = flags[review[q]].finding
          /\ \A p \in Thread : p # q => review[p] # review[q]
      BY <1>2, <3>1 DEF Undisturbed
    <3>3. review[q] # k
      BY <2>2, <3>2 DEF k
    <3>4. flags'[review[q]] = flags[review[q]]
      BY <1>5, <3>3
    <3>5. \A p \in Thread : p # q => review'[p] # review'[q]
      BY <1>7, <1>8, <3>1, <3>2
    <3> QED BY <3>1, <3>2, <3>4, <3>5
  <2> QED BY <2>1, <2>2
<1> QED BY <1>9, <1>10 DEF ReviewInv

LEMMA LoadKeepsReviewInv ==
  ASSUME ComplianceTypeOK, ReviewInv, NEW t \in Thread, LoadFlag(t)
  PROVE  ReviewInv'
<1> SUFFICES ASSUME ~rereviewed' PROVE ReviewInv'
  BY DEF ReviewInv
<1>1. PICK k \in DOMAIN flags :
        /\ review' = [review EXCEPT ![t] = k]
        /\ loaded' = [loaded EXCEPT ![t] = flags[k].finding]
        /\ ~rereviewed
        /\ \A q \in Thread : review[q] = k =>
             loaded[q] = Open /\ flags[k].finding = Open
  <2>1. \A x, y : {x, y} = {Open} => x = Open /\ y = Open
    OBVIOUS
  <2>2. PICK k \in DOMAIN flags :
          /\ review' = [review EXCEPT ![t] = k]
          /\ loaded' = [loaded EXCEPT ![t] = flags[k].finding]
          /\ rereviewed' = (rereviewed \/ \E q \in Thread :
                              review[q] = k /\ {loaded[q], flags[k].finding} # {Open})
    BY DEF LoadFlag
  <2>3. ~rereviewed /\ \A q \in Thread :
          review[q] = k => {loaded[q], flags[k].finding} = {Open}
    BY <2>2, Zenon
  <2> QED BY <2>1, <2>2, <2>3, Zenon
<1>2. /\ \A j \in DOMAIN flags : flags[j].finding = latest[j]
      /\ \A q \in Thread : Undisturbed(q)
  BY <1>1 DEF ReviewInv
<1>3. UNCHANGED <<flags, latest>> /\ review[t] = 0
  BY DEF LoadFlag
<1>4. review \in [Thread -> 0 .. Len(flags)] /\ loaded \in [Thread -> Finding]
  BY DEF ComplianceTypeOK
<1>5. ASSUME NEW q \in Thread PROVE Undisturbed(q)'
  <2>1. CASE q = t
    <3>1. review'[q] = k /\ loaded'[q] = flags'[k].finding
      BY <1>1, <1>3, <1>4, <2>1
    <3>2. ASSUME loaded'[q] # Open PROVE \A p \in Thread : p # q => review'[p] # k
      BY <1>1, <1>3, <1>4, <2>1, <3>1, <3>2
    <3> QED BY <3>1, <3>2 DEF Undisturbed
  <2>2. CASE q # t
    <3> SUFFICES ASSUME review'[q] # 0, loaded'[q] # Open
                 PROVE  /\ loaded'[q] = flags'[review'[q]].finding
                        /\ \A p \in Thread : p # q => review'[p] # review'[q]
      BY DEF Undisturbed
    <3>1. review'[q] = review[q] /\ loaded'[q] = loaded[q]
      BY <1>1, <1>4, <2>2
    <3>2. /\ loaded[q] = flags[review[q]].finding
          /\ \A p \in Thread : p # q => review[p] # review[q]
      BY <1>2, <3>1 DEF Undisturbed
    <3>3. review[q] # k
      BY <1>1, <3>1
    <3> QED BY <1>1, <1>3, <1>4, <3>1, <3>2, <3>3
  <2> QED BY <2>1, <2>2
<1> QED BY <1>2, <1>3, <1>5 DEF ReviewInv

\* A new flag is open, and nobody reviews it yet.
LEMMA MoveKeepsReviewInv ==
  ASSUME ComplianceTypeOK, ReviewInv, NEW t \in Thread, Move(t)
  PROVE  ReviewInv'
<1> SUFFICES ASSUME ~rereviewed' PROVE ReviewInv'
  BY DEF ReviewInv
<1>1. PICK txn, isCash : CheckAmlCtr(t, txn, isCash)
  BY DEF Move
<1>2. UNCHANGED <<review, loaded, rereviewed>>
  BY <1>1 DEF CheckAmlCtr
<1>3. /\ \A j \in DOMAIN flags : flags[j].finding = latest[j]
      /\ \A q \in Thread : Undisturbed(q)
  BY <1>2 DEF ReviewInv
<1> DEFINE n == Len(flags)
           e == [account |-> SubjectOf(t), txn |-> txn, finding |-> Open]
<1>4. /\ n \in Nat /\ DOMAIN flags = 1 .. n /\ DOMAIN latest = 1 .. n
      /\ review \in [Thread -> 0 .. n]
  BY LenProperties DEF ComplianceTypeOK
<1>5. CASE UNCHANGED <<flags, latest>>
  BY <1>2, <1>3, <1>5 DEF ReviewInv, Undisturbed
<1>6. CASE flags' = Append(flags, e) /\ latest' = Append(latest, Open)
  <2>1. /\ DOMAIN flags' = 1 .. n + 1
        /\ flags'[n + 1] = e /\ latest'[n + 1] = Open
        /\ \A j \in 1 .. n : flags'[j] = flags[j] /\ latest'[j] = latest[j]
    BY <1>4, <1>6 DEF ComplianceTypeOK
  <2>2. \A j \in DOMAIN flags' : flags'[j].finding = latest'[j]
    <3> TAKE j \in DOMAIN flags'
    <3>1. CASE j = n + 1
      BY <2>1, <3>1
    <3>2. CASE j # n + 1
      <4>1. j \in 1 .. n
        BY <1>4, <2>1, <3>2
      <4> QED BY <1>3, <1>4, <2>1, <4>1
    <3> QED BY <3>1, <3>2
  <2>3. ASSUME NEW q \in Thread PROVE Undisturbed(q)'
    <3>1. review[q] # 0 => review[q] \in 1 .. n
      BY <1>4
    <3> QED BY <1>2, <1>3, <2>1, <3>1 DEF Undisturbed
  <2> QED BY <2>2, <2>3 DEF ReviewInv
<1> QED BY <1>1, <1>5, <1>6 DEF CheckAmlCtr

LEMMA ReviewInvNext ==
  ASSUME ComplianceTypeOK, ReviewInv, [ComplianceNext]_allVars
  PROVE  ReviewInv'
<1>1. ASSUME UNCHANGED <<flags, reports, cases>> PROVE ReviewInv'
  BY <1>1 DEF cases, ReviewInv, Undisturbed
<1>2. ASSUME NEW t \in Thread, Unchecked(t) PROVE ReviewInv'
  BY <1>1, <1>2 DEF Unchecked
<1>3. CASE UNCHANGED allVars
  BY <1>1, <1>3 DEF allVars
<1> QED BY <1>1, <1>2, <1>3, LoadKeepsReviewInv, MoveKeepsReviewInv,
           ReviewKeepsReviewInv DEF ComplianceNext

\* However many reviews of a flag overlap, as long as they found it unreviewed
\* the flag ends up with reviewer and notes of one review, the last.
THEOREM ReviewsAlwaysWhole == ComplianceSpec => []ReviewsWhole
<1>1. ComplianceInit => ReviewInv
  BY DEF ComplianceInit, ReviewInv, Undisturbed
<1>2. ComplianceTypeOK /\ ReviewInv /\ [ComplianceNext]_allVars => ReviewInv'
  BY ReviewInvNext
<1>3. ReviewInv => ReviewsWhole
  BY DEF ReviewInv, ReviewsWhole
<1> QED BY <1>1, <1>2, <1>3, ComplianceTypeCorrect, PTL DEF ComplianceSpec
=============================================================================
