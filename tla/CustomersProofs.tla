--------------------------- MODULE CustomersProofs ---------------------------
(***************************************************************************)
(* Theorems about Customers, for any number of customers, threads and      *)
(* requests: what the unique and the foreign key constraints guarantee     *)
(* however the lookups before them interleave, and what the handlers do    *)
(* for a customer of whom no two requests run at once.                     *)
(***************************************************************************)
EXTENDS Customers, SequenceTheorems, TLAPS

-----------------------------------------------------------------------------
\* Types.

LEMMA BlankIsRow == Blank \in CustomerRow
<1>1. /\ (CHOOSE n \in NationalId : TRUE) \in NationalId
      /\ (CHOOSE e \in Email : TRUE) \in Email
  BY CustomersAssumption
<1> QED BY <1>1 DEF Blank, CustomerRow

\* What a thread holds of the customer it is about: the row to be added, or one
\* that was live when it was loaded.
Holding(t) ==
  /\ pc[t] = "onboarding" => form[t].kyc = "PENDING"
  /\ pc[t] \in {"loaded", "deleting"} => form[t].kyc \in KYCStatus

TypeInv ==
  /\ TypeOK
  /\ audit \in Seq(AuditEntry)
  /\ \A t \in Thread : Holding(t)

LEMMA LoggedIsLog ==
  ASSUME TypeInv,
         NEW action \in {"ONBOARDED", "KYC", "UPDATED", "DELETED", "OPENED", "APPLIED"},
         NEW c \in Customer, NEW old \in KYCStatus, NEW new \in KYCStatus
  PROVE  Logged(action, c, old, new) \in Seq(AuditEntry)
<1>1. [action |-> action, about |-> c, link |-> c, old |-> old, new |-> new] \in AuditEntry
  BY DEF AuditEntry
<1> QED BY <1>1, AppendProperties DEF Logged, TypeInv

LEMMA AnswerType ==
  ASSUME TypeInv, NEW t \in Thread, Answer(t)
  PROVE  /\ pc' \in [Thread -> PC]
         /\ subject' \in [Thread -> Customer \cup {NoCustomer}]
         /\ form' \in [Thread -> CustomerRow]
         /\ served' \in Nat /\ contended' \subseteq Customer
         /\ \A u \in Thread : pc'[u] \in {"loaded", "deleting"} => subject'[u] \in Customer
         /\ \A u \in Thread : Holding(u)'
BY BlankIsRow DEF TypeInv, TypeOK, Answer, PC, Holding

\* The tables and the log, and what a request holds, keep their types.
LEMMA Tables ==
  ASSUME TypeInv, NEW t \in Thread, Answer(t),
         customer' \in [Customer -> CustomerRow],
         owner' \in [Account -> Customer \cup {NoCustomer}],
         borrower' \in [Loan -> Customer \cup {NoCustomer}],
         user' \in [User -> Customer \cup {NoCustomer, NoUser}],
         audit' \in Seq(AuditEntry)
  PROVE  TypeInv'
<1>1. \A k \in DOMAIN audit' : audit'[k] \in AuditEntry
  BY ElementOfSeq, LenProperties
<1> QED BY <1>1, AnswerType DEF TypeInv, TypeOK

\* The subject of a request past its first query.
LEMMA Subject ==
  ASSUME TypeInv, NEW t \in Thread, pc[t] \in {"loaded", "deleting"}
  PROVE  /\ subject[t] \in Customer /\ form[t] \in CustomerRow
         /\ form[t].kyc \in KYCStatus
BY DEF TypeInv, TypeOK, Holding

LEMMA OnboardType ==
  ASSUME TypeInv, NEW t \in Thread, Onboard(t)
  PROVE  TypeInv'
<1>1. Answer(t) /\ form[t] \in CustomerRow
  BY DEF Onboard, TypeInv, TypeOK
<1>2. CASE UNCHANGED tables
  BY <1>1, <1>2, Tables DEF tables, TypeInv, TypeOK
<1>3. ASSUME NEW c \in Customer,
             customer' = [customer EXCEPT ![c] = form[t]],
             audit' = Logged("ONBOARDED", c, "PENDING", "PENDING"),
             UNCHANGED <<owner, borrower, user>>
      PROVE  TypeInv'
  <2>1. audit' \in Seq(AuditEntry)
    BY <1>3, LoggedIsLog DEF KYCStatus
  <2> QED BY <1>1, <1>3, <2>1, Tables DEF TypeInv, TypeOK
<1> QED BY <1>2, <1>3 DEF Onboard

LEMMA UpdateType ==
  ASSUME TypeInv, NEW t \in Thread, UpdateKyc(t) \/ UpdateCustomer(t)
  PROVE  TypeInv'
<1> DEFINE c == subject[t]
           old == form[t]
<1>1. Answer(t) /\ UNCHANGED <<owner, borrower, user>>
  BY DEF UpdateKyc, UpdateCustomer
<1>2. /\ c \in Customer /\ old.kyc \in KYCStatus /\ old \in CustomerRow
      /\ customer \in [Customer -> CustomerRow] /\ customer[c] \in CustomerRow
  BY Subject DEF UpdateKyc, UpdateCustomer, TypeInv, TypeOK
<1>3. CASE UpdateKyc(t)
  <2>1. PICK s \in KYCStatus :
          /\ customer' = IF s = old.kyc THEN customer
                         ELSE [customer EXCEPT ![c].kyc = s]
          /\ audit' = Logged("KYC", c, old.kyc, s)
    BY <1>3 DEF UpdateKyc
  <2>2. [customer[c] EXCEPT !.kyc = s] \in CustomerRow
    BY <1>2 DEF CustomerRow
  <2>3. customer' \in [Customer -> CustomerRow]
    BY <1>2, <2>1, <2>2
  <2>4. audit' \in Seq(AuditEntry)
    BY <1>2, <2>1, LoggedIsLog
  <2> QED BY <1>1, <2>3, <2>4, Tables DEF TypeInv, TypeOK
<1>4. CASE UpdateCustomer(t)
  <2>1. PICK e \in Email, g \in BOOLEAN :
          customer' = [customer EXCEPT ![c] =
                         [customer[c] EXCEPT
                            !.email = IF e = old.email THEN @ ELSE e,
                            !.eligible = IF g = old.eligible THEN @ ELSE g]]
    BY <1>4 DEF UpdateCustomer
  <2>2. [customer[c] EXCEPT
           !.email = IF e = old.email THEN @ ELSE e,
           !.eligible = IF g = old.eligible THEN @ ELSE g] \in CustomerRow
    BY <1>2 DEF CustomerRow
  <2>3. customer' \in [Customer -> CustomerRow]
    BY <1>2, <2>1, <2>2
  <2>4. audit' = Logged("UPDATED", c, old.kyc, old.kyc)
    BY <1>4 DEF UpdateCustomer
  <2>5. audit' \in Seq(AuditEntry)
    BY <1>2, <2>4, LoggedIsLog
  <2> QED BY <1>1, <2>3, <2>5, Tables DEF TypeInv, TypeOK
<1> QED BY <1>3, <1>4

LEMMA UnlinkedIsLog ==
  ASSUME NEW log \in Seq(AuditEntry), NEW c
  PROVE  Unlinked(log, c) \in Seq(AuditEntry)
<1>1. Len(log) \in Nat /\ DOMAIN log = 1 .. Len(log)
  BY LenProperties
<1>2. \A k \in 1 .. Len(log) : log[k] \in AuditEntry
  BY ElementOfSeq
<1>3. \A k \in 1 .. Len(log) : [log[k] EXCEPT !.link = NoCustomer] \in AuditEntry
  BY <1>2 DEF AuditEntry
<1>4. Unlinked(log, c) \in [1 .. Len(log) -> AuditEntry]
  BY <1>1, <1>2, <1>3 DEF Unlinked
<1> QED BY <1>1, <1>4, SeqDef

LEMMA DeleteType ==
  ASSUME TypeInv, NEW t \in Thread, DeleteCustomer(t)
  PROVE  TypeInv'
<1> DEFINE c == subject[t]
           entry == [action |-> "DELETED", about |-> c, link |-> NoCustomer,
                     old |-> form[t].kyc, new |-> form[t].kyc]
<1>1. /\ Answer(t) /\ UNCHANGED <<owner, borrower>>
      /\ customer' = [customer EXCEPT ![c].kyc = "GONE"]
      /\ audit' = Append(Unlinked(audit, c), entry)
  BY DEF DeleteCustomer
<1>2. /\ c \in Customer /\ form[t].kyc \in KYCStatus
      /\ customer \in [Customer -> CustomerRow] /\ customer[c] \in CustomerRow
  BY Subject DEF DeleteCustomer, TypeInv, TypeOK
<1>3. [customer[c] EXCEPT !.kyc = "GONE"] \in CustomerRow
  BY <1>2 DEF CustomerRow
<1>4. customer' \in [Customer -> CustomerRow]
  BY <1>1, <1>2, <1>3
<1>5. entry \in AuditEntry
  BY <1>2 DEF AuditEntry
<1>6. audit' \in Seq(AuditEntry)
  BY <1>1, <1>5, UnlinkedIsLog, AppendProperties DEF TypeInv
<1>7. user' \in [User -> Customer \cup {NoCustomer, NoUser}]
  BY DEF DeleteCustomer, TypeInv, TypeOK
<1> QED BY <1>1, <1>4, <1>6, <1>7, Tables DEF TypeInv, TypeOK

LEMMA OpenType ==
  ASSUME TypeInv, NEW t \in Thread, OpenAccount(t) \/ ApplyLoan(t)
  PROVE  TypeInv'
<1> DEFINE c == subject[t]
<1>1. c \in Customer /\ form[t].kyc \in KYCStatus /\ Answer(t)
  BY Subject DEF OpenAccount, ApplyLoan
<1>2. \A action \in {"OPENED", "APPLIED"} :
        Logged(action, c, form[t].kyc, form[t].kyc) \in Seq(AuditEntry)
  BY <1>1, LoggedIsLog
<1>3. audit' \in Seq(AuditEntry)
  BY <1>2 DEF OpenAccount, ApplyLoan
<1>4. UNCHANGED <<customer, user>>
  BY DEF OpenAccount, ApplyLoan
<1>5. owner' \in [Account -> Customer \cup {NoCustomer}]
  BY <1>1 DEF OpenAccount, ApplyLoan, TypeInv, TypeOK
<1>6. borrower' \in [Loan -> Customer \cup {NoCustomer}]
  BY <1>1 DEF OpenAccount, ApplyLoan, TypeInv, TypeOK
<1> QED BY <1>1, <1>3, <1>4, <1>5, <1>6, Tables DEF TypeInv, TypeOK

\* The queries.
LEMMA QueryType ==
  ASSUME TypeInv, NEW t \in Thread,
         LookUp(t) \/ LoadCustomer(t) \/ LoadDependents(t)
  PROVE  TypeInv'
<1>1. CASE LookUp(t)
  <2>1. PICK n \in NationalId, e \in Email :
          form' = [form EXCEPT ![t] = [kyc |-> "PENDING", nid |-> n, email |-> e,
                                       eligible |-> TRUE]]
    BY <1>1 DEF LookUp
  <2>2. [kyc |-> "PENDING", nid |-> n, email |-> e, eligible |-> TRUE] \in CustomerRow
    BY DEF CustomerRow, KYCStatus
  <2>3. /\ pc' = [pc EXCEPT ![t] = "onboarding"] /\ UNCHANGED <<tables, subject>>
        /\ served' = served + 1 /\ contended' \subseteq Customer
    BY <1>1 DEF LookUp, Arrive, TypeInv, TypeOK
  <2>4. form' \in [Thread -> CustomerRow]
    BY <2>1, <2>2 DEF TypeInv, TypeOK
  <2>5. \A u \in Thread : Holding(u)'
    BY <2>1, <2>3 DEF TypeInv, TypeOK, Holding
  <2>6. pc' \in [Thread -> PC] /\ served' \in Nat
    BY <2>3 DEF TypeInv, TypeOK, PC
  <2>7. \A u \in Thread : pc'[u] \in {"loaded", "deleting"} => subject'[u] \in Customer
    <3> TAKE u \in Thread
    <3>1. CASE u = t
      BY <2>3, <3>1 DEF TypeInv, TypeOK
    <3>2. CASE u # t
      BY <2>3, <3>2 DEF TypeInv, TypeOK
    <3> QED BY <3>1, <3>2
  <2> QED BY <2>3, <2>4, <2>5, <2>6, <2>7 DEF TypeInv, TypeOK, tables
<1>2. CASE LoadCustomer(t)
  <2>1. PICK c \in Live :
          /\ subject' = [subject EXCEPT ![t] = c]
          /\ form' = [form EXCEPT ![t] = customer[c]]
          /\ contended' = contended \cup ({c} \cap {subject[u] : u \in Thread})
    BY <1>2 DEF LoadCustomer
  <2>2. c \in Customer /\ customer[c] \in CustomerRow /\ customer[c].kyc \in KYCStatus
    BY DEF Live, TypeInv, TypeOK
  <2>3. /\ pc' = [pc EXCEPT ![t] = "loaded"] /\ UNCHANGED tables
        /\ served' = served + 1 /\ contended' \subseteq Customer
    BY <1>2, <2>1, <2>2 DEF LoadCustomer, Arrive, TypeInv, TypeOK
  <2>4. \A u \in Thread : Holding(u)'
    <3> TAKE u \in Thread
    <3>2. CASE u = t
      BY <2>1, <2>2, <2>3, <3>2 DEF TypeInv, TypeOK, Holding
    <3>3. CASE u # t
      BY <2>1, <2>3, <3>3 DEF TypeInv, TypeOK, Holding
    <3> QED BY <3>2, <3>3
  <2> QED BY <2>1, <2>2, <2>3, <2>4 DEF TypeInv, TypeOK, tables, PC
<1>3. CASE LoadDependents(t)
  BY <1>3 DEF LoadDependents, TypeInv, TypeOK, tables, PC, Holding
<1> QED BY <1>1, <1>2, <1>3

LEMMA CreateType ==
  ASSUME TypeInv, NEW t \in Thread, CreateUser(t)
  PROVE  TypeInv'
<1>1. user' \in [User -> Customer \cup {NoCustomer, NoUser}]
  BY DEF CreateUser, Live, TypeInv, TypeOK
<1>2. /\ served' = served + 1 /\ contended' \subseteq Customer
      /\ UNCHANGED <<customer, owner, borrower, audit, pc, subject, form>>
  BY DEF CreateUser, Arrive, TypeInv, TypeOK
<1> QED BY <1>1, <1>2 DEF TypeInv, TypeOK, Holding

LEMMA TypeNext == TypeInv /\ [Next]_vars => TypeInv'
<1> SUFFICES ASSUME TypeInv, [Next]_vars PROVE TypeInv'
  OBVIOUS
<1>1. ASSUME NEW t \in Thread, Refuse(t) PROVE TypeInv'
  BY <1>1, Tables DEF Refuse, tables, TypeInv, TypeOK
<1>2. CASE Quiet \/ UNCHANGED vars
  BY <1>2 DEF Quiet, vars, TypeInv, TypeOK, Holding
<1> QED BY <1>1, <1>2, QueryType, OnboardType, UpdateType, DeleteType, OpenType, CreateType
        DEF Next, Serve

LEMMA TypeInit == Init => TypeInv
<1> SUFFICES ASSUME Init PROVE TypeInv
  OBVIOUS
<1>1. /\ audit \in Seq(AuditEntry)
      /\ \A k \in DOMAIN audit : audit[k] \in AuditEntry
  <2>1. audit = <<>>
    BY DEF Init
  <2>2. audit \in Seq(AuditEntry)
    BY <2>1, EmptySeq
  <2> QED BY <2>2, ElementOfSeq, LenProperties
<1> QED BY <1>1, BlankIsRow DEF Init, TypeInv, TypeOK, Holding, PC

\* Every reachable state is well typed.
THEOREM TypeCorrect == Spec => []TypeOK
<1>1. TypeInv => TypeOK
  BY DEF TypeInv
<1> QED BY <1>1, TypeInit, TypeNext, PTL DEF Spec

-----------------------------------------------------------------------------
\* The constraints.

Constrained == TypeInv /\ OneRowPerPerson /\ NoOrphans

LEMMA SubjectLives ==
  ASSUME NEW c \in Customer
  PROVE  c \in Live <=> customer[c].kyc \in KYCStatus
BY DEF Live

\* A step that changes no customer keeps them apart, and owners stay if they were
\* live.
LEMMA RowsStay ==
  ASSUME Constrained, UNCHANGED customer,
         \A a \in Account : owner'[a] = owner[a] \/ owner'[a] \in Live,
         \A l \in Loan : borrower'[l] = borrower[l] \/ borrower'[l] \in Live,
         \A u \in User : user'[u] = user[u] \/ user'[u] \in {NoCustomer} \cup Live
  PROVE  OneRowPerPerson' /\ NoOrphans'
BY DEF Constrained, OneRowPerPerson, NoOrphans, Live

\* The INSERT of a row that the unique constraints let pass.
LEMMA OnboardConstrained ==
  ASSUME Constrained, NEW t \in Thread, Onboard(t)
  PROVE  OneRowPerPerson' /\ NoOrphans'
<1>1. CASE UNCHANGED tables
  BY <1>1, RowsStay DEF tables
<1>2. ASSUME NEW c \in Customer, ~Taken(form[t], Live),
             customer' = [customer EXCEPT ![c] = form[t]],
             UNCHANGED <<owner, borrower, user>>
      PROVE  OneRowPerPerson' /\ NoOrphans'
  <2>1. /\ customer \in [Customer -> CustomerRow]
        /\ form[t].kyc \in KYCStatus
    BY DEF Onboard, Constrained, TypeInv, TypeOK, Holding, KYCStatus
  <2>2. Live' = Live \cup {c}
    BY <1>2, <2>1 DEF Live
  <2>3. \A d \in Live : d # c => /\ customer'[d] = customer[d]
                                 /\ customer[d].nid # form[t].nid
                                 /\ customer[d].email # form[t].email
    BY <1>2, <2>1 DEF Live, Taken
  <2>4. customer'[c] = form[t]
    BY <1>2, <2>1
  <2>5. OneRowPerPerson'
    BY <2>2, <2>3, <2>4 DEF Constrained, OneRowPerPerson
  <2>6. NoOrphans'
    BY <1>2, <2>2 DEF Constrained, NoOrphans
  <2> QED BY <2>5, <2>6
<1> QED BY <1>1, <1>2 DEF Onboard

\* An UPDATE keeps the row live; a new e-mail address passes the constraint.
LEMMA UpdateConstrained ==
  ASSUME Constrained, NEW t \in Thread, UpdateKyc(t) \/ UpdateCustomer(t)
  PROVE  OneRowPerPerson' /\ NoOrphans'
<1> DEFINE c == subject[t]
<1>1. /\ c \in Live /\ c \in Customer /\ UNCHANGED <<owner, borrower, user>>
      /\ customer \in [Customer -> CustomerRow] /\ customer[c] \in CustomerRow
  BY DEF UpdateKyc, UpdateCustomer, Constrained, TypeInv, TypeOK, Live
<1>2. /\ \A d \in Customer : d # c => customer'[d] = customer[d]
      /\ customer'[c].kyc \in KYCStatus /\ customer'[c].nid = customer[c].nid
      /\ \A d \in Live : d # c => customer[d].email # customer'[c].email
  <2>1. CASE UpdateKyc(t)
    <3>1. PICK s \in KYCStatus :
            customer' = IF s = form[t].kyc THEN customer
                        ELSE [customer EXCEPT ![c].kyc = s]
      BY <2>1 DEF UpdateKyc
    <3>2. CASE UNCHANGED customer
      BY <1>1, <3>2 DEF Constrained, OneRowPerPerson, Live
    <3>3. CASE customer' = [customer EXCEPT ![c] = [customer[c] EXCEPT !.kyc = s]]
      <4>1. /\ customer'[c].kyc = s /\ customer'[c].nid = customer[c].nid
            /\ customer'[c].email = customer[c].email
            /\ \A d \in Customer : d # c => customer'[d] = customer[d]
        BY <1>1, <3>3 DEF CustomerRow
      <4> QED BY <1>1, <4>1 DEF Constrained, OneRowPerPerson, Live
    <3> QED BY <3>1, <3>2, <3>3
  <2>2. CASE UpdateCustomer(t)
    <3>1. PICK e \in Email, g \in BOOLEAN :
            LET r == [customer[c] EXCEPT
                        !.email = IF e = form[t].email THEN @ ELSE e,
                        !.eligible = IF g = form[t].eligible THEN @ ELSE g]
            IN /\ \A d \in Live \ {c} : customer[d].email # r.email
               /\ customer' = [customer EXCEPT ![c] = r]
      BY <2>2 DEF UpdateCustomer
    <3> DEFINE r == [customer[c] EXCEPT
                        !.email = IF e = form[t].email THEN @ ELSE e,
                        !.eligible = IF g = form[t].eligible THEN @ ELSE g]
    <3>2. r.kyc = customer[c].kyc /\ r.nid = customer[c].nid
      BY <1>1 DEF CustomerRow
    <3>3. /\ \A d \in Live \ {c} : customer[d].email # r.email
          /\ customer' = [customer EXCEPT ![c] = r]
      BY <3>1
    <3> HIDE DEF r
    <3> QED BY <1>1, <3>2, <3>3 DEF Live
  <2> QED BY <2>1, <2>2
<1>3. Live' = Live
  BY <1>1, <1>2 DEF Live
<1>4. \A d \in Live : d # c => customer[d].nid # customer[c].nid
  BY <1>1 DEF Constrained, OneRowPerPerson
<1> HIDE DEF c
<1>5. OneRowPerPerson'
  BY <1>1, <1>2, <1>3, <1>4 DEF Constrained, OneRowPerPerson, Live
<1>6. NoOrphans'
  BY <1>1, <1>3 DEF Constrained, NoOrphans
<1> QED BY <1>5, <1>6

\* The DELETE of a row that the foreign keys let go.
LEMMA DeleteConstrained ==
  ASSUME Constrained, NEW t \in Thread, DeleteCustomer(t)
  PROVE  OneRowPerPerson' /\ NoOrphans'
<1> DEFINE c == subject[t]
<1>1. /\ c \in Customer /\ ~RefersTo(c) /\ UNCHANGED <<owner, borrower>>
      /\ customer \in [Customer -> CustomerRow] /\ customer[c] \in CustomerRow
      /\ customer' = [customer EXCEPT ![c].kyc = "GONE"]
  BY Subject DEF DeleteCustomer, Constrained, TypeInv, TypeOK
<1>2. customer'[c].kyc = "GONE" /\ \A d \in Customer : d # c => customer'[d] = customer[d]
  BY <1>1 DEF CustomerRow
<1>3. \A u \in User : user'[u] = IF user[u] = c THEN NoCustomer ELSE user[u]
  BY DEF DeleteCustomer, UsersOf
<1> HIDE DEF c
<1>4. Live' = Live \ {c}
  BY <1>1, <1>2 DEF Live, KYCStatus
<1>5. OneRowPerPerson'
  BY <1>2, <1>4 DEF Constrained, OneRowPerPerson, Live
<1>6. NoOrphans'
  BY <1>1, <1>4, <1>3 DEF Constrained, NoOrphans, RefersTo
<1> QED BY <1>5, <1>6

LEMMA ConstrainedNext == Constrained /\ [Next]_vars => Constrained'
<1> SUFFICES ASSUME Constrained, [Next]_vars PROVE OneRowPerPerson' /\ NoOrphans'
  BY TypeNext DEF Constrained
<1>1. ASSUME UNCHANGED tables PROVE OneRowPerPerson' /\ NoOrphans'
  BY <1>1, RowsStay DEF tables
<1>2. ASSUME NEW t \in Thread, OpenAccount(t) \/ ApplyLoan(t)
      PROVE  OneRowPerPerson' /\ NoOrphans'
  <2>1. UNCHANGED customer /\ subject[t] \in Live
    BY <1>2 DEF OpenAccount, ApplyLoan
  <2>2. \A a \in Account : owner'[a] = owner[a] \/ owner'[a] = subject[t]
    BY <1>2 DEF OpenAccount, ApplyLoan, Constrained, TypeInv, TypeOK
  <2>3. \A l \in Loan : borrower'[l] = borrower[l] \/ borrower'[l] = subject[t]
    BY <1>2 DEF OpenAccount, ApplyLoan, Constrained, TypeInv, TypeOK
  <2>4. UNCHANGED user
    BY <1>2 DEF OpenAccount, ApplyLoan
  <2> QED BY <2>1, <2>2, <2>3, <2>4, RowsStay
<1>3. ASSUME NEW t \in Thread,
             LookUp(t) \/ LoadCustomer(t) \/ LoadDependents(t) \/ Refuse(t)
      PROVE  OneRowPerPerson' /\ NoOrphans'
  BY <1>1, <1>3 DEF LookUp, LoadCustomer, LoadDependents, Refuse
<1>4. CASE Quiet \/ UNCHANGED vars
  BY <1>1, <1>4 DEF Quiet, vars, tables
<1>5. ASSUME NEW t \in Thread, CreateUser(t) PROVE OneRowPerPerson' /\ NoOrphans'
  <2>1. UNCHANGED <<customer, owner, borrower>>
    BY <1>5 DEF CreateUser
  <2>2. \A u \in User : user'[u] = user[u] \/ user'[u] \in {NoCustomer} \cup Live
    BY <1>5 DEF CreateUser, Constrained, TypeInv, TypeOK
  <2> QED BY <2>1, <2>2, RowsStay
<1> QED BY <1>2, <1>3, <1>4, <1>5, OnboardConstrained, UpdateConstrained, DeleteConstrained
        DEF Next, Serve

LEMMA ConstrainedInit == Init => Constrained
<1> SUFFICES ASSUME Init PROVE OneRowPerPerson /\ NoOrphans
  BY TypeInit DEF Constrained
<1>1. Live = {}
  BY DEF Init, Live, Blank, KYCStatus
<1> QED BY <1>1, CustomersAssumption DEF Init, OneRowPerPerson, NoOrphans

\* Nobody is onboarded twice, however many onboardings and updates run at once:
\* what the lookups miss the unique constraints refuse.
THEOREM OneRowPerPersonAlways == Spec => []OneRowPerPerson
<1>1. Constrained => OneRowPerPerson
  BY DEF Constrained
<1> QED BY <1>1, ConstrainedInit, ConstrainedNext, PTL DEF Spec

\* No account and no loan ever loses its customer, however its opening and the
\* deletion of the customer interleave.
THEOREM NoOrphansEver == Spec => []NoOrphans
<1>1. Constrained => NoOrphans
  BY DEF Constrained
<1> QED BY <1>1, ConstrainedInit, ConstrainedNext, PTL DEF Spec
-----------------------------------------------------------------------------
\* The audit log.

\* Two entries that differ at most in their link.
SameEntry(e, f) == [e EXCEPT !.link = NoCustomer] = [f EXCEPT !.link = NoCustomer]

Kept(log) ==
  /\ Len(audit) <= Len(log)
  /\ \A k \in DOMAIN audit : SameEntry(log[k], audit[k])

LEMMA LogIsSeq ==
  ASSUME TypeInv
  PROVE  /\ audit \in Seq(AuditEntry) /\ Len(audit) \in Nat
         /\ DOMAIN audit = 1 .. Len(audit)
BY LenProperties DEF TypeInv

LEMMA KeptAsIs == TypeInv => Kept(audit)
BY LogIsSeq DEF Kept, SameEntry

LEMMA KeptByLogged ==
  ASSUME TypeInv,
         NEW action \in {"ONBOARDED", "KYC", "UPDATED", "DELETED", "OPENED", "APPLIED"},
         NEW c \in Customer, NEW old \in KYCStatus, NEW new \in KYCStatus
  PROVE  Kept(Logged(action, c, old, new))
<1> DEFINE e == [action |-> action, about |-> c, link |-> c, old |-> old, new |-> new]
<1>1. e \in AuditEntry
  BY DEF AuditEntry
<1>2. Logged(action, c, old, new) = Append(audit, e)
  BY DEF Logged
<1> HIDE DEF e
<1>3. /\ Len(Append(audit, e)) = Len(audit) + 1
      /\ \A k \in DOMAIN audit : Append(audit, e)[k] = audit[k]
  BY <1>1, LogIsSeq, AppendProperties
<1> QED BY <1>2, <1>3, LogIsSeq DEF Kept, SameEntry

LEMMA KeptByDeletion ==
  ASSUME TypeInv, NEW t \in Thread, DeleteCustomer(t)
  PROVE  Kept(audit')
<1> DEFINE c == subject[t]
           e == [action |-> "DELETED", about |-> c, link |-> NoCustomer,
                 old |-> form[t].kyc, new |-> form[t].kyc]
           log == Unlinked(audit, c)
<1>1. audit' = Append(log, e)
  BY DEF DeleteCustomer
<1>2. e \in AuditEntry
  BY Subject DEF DeleteCustomer, AuditEntry
<1>3. log \in Seq(AuditEntry)
  BY LogIsSeq, UnlinkedIsLog
<1>4. DOMAIN log = DOMAIN audit
  BY DEF Unlinked
<1>5. Len(log) = Len(audit)
  BY <1>3, <1>4, LogIsSeq, LenProperties
<1>6. \A k \in DOMAIN audit : SameEntry(log[k], audit[k])
  <2> TAKE k \in DOMAIN audit
  <2>1. audit[k] \in AuditEntry
    BY DEF TypeInv, TypeOK
  <2>2. log[k] \in {audit[k], [audit[k] EXCEPT !.link = NoCustomer]}
    BY DEF Unlinked
  <2> HIDE DEF log
  <2> QED BY <2>1, <2>2 DEF SameEntry, AuditEntry
<1> HIDE DEF c, e, log
<1>7. /\ Len(Append(log, e)) = Len(audit) + 1
      /\ \A k \in DOMAIN audit : Append(log, e)[k] = log[k]
  BY <1>2, <1>3, <1>4, <1>5, AppendProperties
<1> QED BY <1>1, <1>6, <1>7, LogIsSeq DEF Kept

\* The log loses no entry, and of an entry nothing changes but its link.
THEOREM TrailAlwaysGrows == Spec => TrailOnlyGrows
<1>1. TypeInv /\ [Next]_vars => Kept(audit')
  <2> SUFFICES ASSUME TypeInv, [Next]_vars PROVE Kept(audit')
    OBVIOUS
  <2>1. CASE UNCHANGED audit
    BY <2>1, KeptAsIs
  <2>2. ASSUME NEW t \in Thread, Onboard(t) PROVE Kept(audit')
    BY <2>1, <2>2, KeptByLogged DEF Onboard, KYCStatus, tables
  <2>3. ASSUME NEW t \in Thread, \/ UpdateKyc(t) \/ UpdateCustomer(t)
                                 \/ OpenAccount(t) \/ ApplyLoan(t)
        PROVE  Kept(audit')
    <3>1. subject[t] \in Customer /\ form[t].kyc \in KYCStatus
      BY <2>3, Subject DEF UpdateKyc, UpdateCustomer, OpenAccount, ApplyLoan
    <3>2. \E action \in {"KYC", "UPDATED", "OPENED", "APPLIED"}, new \in KYCStatus :
            audit' = Logged(action, subject[t], form[t].kyc, new)
      BY <2>3, <3>1 DEF UpdateKyc, UpdateCustomer, OpenAccount, ApplyLoan
    <3> QED BY <3>1, <3>2, KeptByLogged
  <2> QED BY <2>1, <2>2, <2>3, KeptByDeletion
          DEF Next, Serve, LookUp, LoadCustomer, LoadDependents, Refuse, CreateUser, Quiet,
              tables, vars
<1>2. TypeInv /\ [Next]_vars
        => [/\ Len(audit') >= Len(audit)
            /\ \A k \in DOMAIN audit :
                 [audit'[k] EXCEPT !.link = NoCustomer]
                   = [audit[k] EXCEPT !.link = NoCustomer]]_vars
  <2> SUFFICES ASSUME TypeInv, [Next]_vars
               PROVE  /\ Len(audit') >= Len(audit)
                      /\ \A k \in DOMAIN audit :
                           [audit'[k] EXCEPT !.link = NoCustomer]
                             = [audit[k] EXCEPT !.link = NoCustomer]
    OBVIOUS
  <2> QED BY <1>1 DEF Kept, SameEntry
<1>3. Spec => []TypeInv
  BY TypeInit, TypeNext, PTL DEF Spec
<1> QED BY <1>2, <1>3, PTL DEF Spec, TrailOnlyGrows

-----------------------------------------------------------------------------
\* Customers of whom no two requests run at once.

\* What a request has loaded of such a customer is its row, and no other thread
\* serves the customer.
Alone ==
  \A t \in Thread : pc[t] \in {"loaded", "deleting"} /\ subject[t] \notin contended
    => /\ form[t] = customer[subject[t]]
       /\ \A q \in Thread \ {t} : subject[q] # subject[t]

LEMMA AloneInit == Init => Alone
<1> SUFFICES ASSUME Init PROVE Alone
  OBVIOUS
<1>1. \A t \in Thread : pc[t] = "idle"
  BY DEF Init
<1> QED BY <1>1 DEF Alone

\* A commit that changes the customer of its request only, or adds one.
LEMMA AnswerAlone ==
  ASSUME TypeInv, Alone, NEW t \in Thread, Answer(t),
         \A c \in Customer : c # subject[t] /\ customer[c].kyc # "NONE"
           => customer'[c] = customer[c]
  PROVE  Alone'
<1>1. /\ pc'[t] = "idle" /\ subject'[t] = NoCustomer /\ UNCHANGED contended
      /\ \A q \in Thread : q # t =>
           pc'[q] = pc[q] /\ subject'[q] = subject[q] /\ form'[q] = form[q]
  BY DEF Answer, TypeInv, TypeOK
<1>2. ASSUME NEW q \in Thread, pc'[q] \in {"loaded", "deleting"},
             subject'[q] \notin contended'
      PROVE  /\ form'[q] = customer'[subject'[q]]
             /\ \A p \in Thread \ {q} : subject'[p] # subject'[q]
  <2>1. /\ q # t /\ pc[q] \in {"loaded", "deleting"} /\ subject'[q] = subject[q]
        /\ form'[q] = form[q] /\ subject[q] \notin contended
    BY <1>1, <1>2
  <2>2. subject[q] \in Customer /\ form[q].kyc \in KYCStatus
    BY <2>1, Subject
  <2>3. /\ form[q] = customer[subject[q]]
        /\ \A p \in Thread \ {q} : subject[p] # subject[q]
    BY <2>1 DEF Alone
  <2>4. customer'[subject[q]] = customer[subject[q]]
    BY <2>1, <2>2, <2>3 DEF KYCStatus
  <2>5. NoCustomer # subject[q]
    BY <2>2, CustomersAssumption
  <2> QED BY <1>1, <2>1, <2>3, <2>4, <2>5
<1> QED BY <1>2 DEF Alone

\* Who is loaded by a second request is contended.
LEMMA LoadAlone ==
  ASSUME TypeInv, Alone, NEW t \in Thread, LoadCustomer(t)
  PROVE  Alone'
<1>1. PICK c \in Live :
        /\ subject' = [subject EXCEPT ![t] = c]
        /\ form' = [form EXCEPT ![t] = customer[c]]
        /\ contended' = contended \cup ({c} \cap {subject[u] : u \in Thread})
  BY DEF LoadCustomer
<1>2. /\ pc' = [pc EXCEPT ![t] = "loaded"] /\ UNCHANGED customer
  BY DEF LoadCustomer, tables
<1>3. /\ subject'[t] = c /\ form'[t] = customer[c]
      /\ \A q \in Thread : q # t =>
           pc'[q] = pc[q] /\ subject'[q] = subject[q] /\ form'[q] = form[q]
  BY <1>1, <1>2 DEF TypeInv, TypeOK
<1>4. contended \subseteq contended' /\ \A q \in Thread : subject[q] = c => c \in contended'
  BY <1>1
<1>5. ASSUME NEW q \in Thread, pc'[q] \in {"loaded", "deleting"},
             subject'[q] \notin contended'
      PROVE  /\ form'[q] = customer'[subject'[q]]
             /\ \A p \in Thread \ {q} : subject'[p] # subject'[q]
  <2>1. CASE q = t
    BY <1>2, <1>3, <1>4, <1>5, <2>1
  <2>2. CASE q # t
    <3>1. /\ pc[q] \in {"loaded", "deleting"} /\ subject'[q] = subject[q]
          /\ form'[q] = form[q] /\ subject[q] \notin contended /\ subject[q] # c
      BY <1>3, <1>4, <1>5, <2>2
    <3>2. /\ form[q] = customer[subject[q]]
          /\ \A p \in Thread \ {q} : subject[p] # subject[q]
      BY <3>1 DEF Alone
    <3> QED BY <1>2, <1>3, <3>1, <3>2
  <2> QED BY <2>1, <2>2
<1> QED BY <1>5 DEF Alone

\* What a commit changes of the customers.
LEMMA OneCustomer ==
  ASSUME TypeInv, NEW t \in Thread,
         \/ Onboard(t) \/ Refuse(t) \/ UpdateKyc(t) \/ UpdateCustomer(t)
         \/ DeleteCustomer(t) \/ OpenAccount(t) \/ ApplyLoan(t)
  PROVE  /\ Answer(t)
         /\ \A c \in Customer : c # subject[t] /\ customer[c].kyc # "NONE"
              => customer'[c] = customer[c]
<1>1. Answer(t)
  BY Zenon DEF Onboard, Refuse, UpdateKyc, UpdateCustomer, DeleteCustomer, OpenAccount, ApplyLoan
<1>2. \/ UNCHANGED customer
      \/ \E r : customer' = [customer EXCEPT ![subject[t]] = r]
      \/ \E c \in Customer : /\ customer[c].kyc = "NONE"
                             /\ customer' = [customer EXCEPT ![c] = form[t]]
  <2>1. CASE Onboard(t)
    BY <2>1 DEF Onboard, tables, TypeInv, TypeOK
  <2>2. CASE UpdateKyc(t)
    BY <2>2 DEF UpdateKyc
  <2>3. CASE UpdateCustomer(t)
    BY <2>3 DEF UpdateCustomer
  <2>4. CASE DeleteCustomer(t)
    BY <2>4 DEF DeleteCustomer
  <2>5. CASE Refuse(t) \/ OpenAccount(t) \/ ApplyLoan(t)
    BY <2>5 DEF Refuse, OpenAccount, ApplyLoan, tables
  <2> QED BY <2>1, <2>2, <2>3, <2>4, <2>5
<1> QED BY <1>1, <1>2 DEF TypeInv, TypeOK

LEMMA AloneNext == TypeInv /\ Alone /\ [Next]_vars => Alone'
<1> SUFFICES ASSUME TypeInv, Alone, [Next]_vars PROVE Alone'
  OBVIOUS
<1>1. ASSUME NEW t \in Thread, LookUp(t) PROVE Alone'
  BY <1>1 DEF LookUp, tables, Alone, TypeInv, TypeOK
<1>2. ASSUME NEW t \in Thread, LoadDependents(t) PROVE Alone'
  BY <1>2 DEF LoadDependents, tables, Alone, TypeInv, TypeOK
<1>3. ASSUME NEW t \in Thread, CreateUser(t) PROVE Alone'
  BY <1>3 DEF CreateUser, Alone
<1>4. CASE Quiet \/ UNCHANGED vars
  BY <1>4 DEF Quiet, vars, Alone
<1> QED BY <1>1, <1>2, <1>3, <1>4, LoadAlone, OneCustomer, AnswerAlone DEF Next, Serve

LEMMA AloneAlways == Spec => [](TypeInv /\ Alone)
BY TypeInit, TypeNext, AloneInit, AloneNext, PTL DEF Spec

\* A VERIFIED customer of whom no two requests run at once does not become
\* PENDING.
THEOREM VerifiedNeverReverted == Spec => VerifiedNotReverted
<1>1. TypeInv /\ Alone /\ [Next]_vars
        => [\A c \in Customer \ contended :
              customer[c].kyc = "VERIFIED" => customer'[c].kyc # "PENDING"]_vars
  <2> SUFFICES ASSUME TypeInv, Alone, Next,
                      NEW c \in Customer \ contended, customer[c].kyc = "VERIFIED"
               PROVE  customer'[c].kyc # "PENDING"
    OBVIOUS
  <2>1. CASE UNCHANGED customer
    BY <2>1
  <2>2. customer \in [Customer -> CustomerRow] /\ customer[c] \in CustomerRow
    BY DEF TypeInv, TypeOK
  <2>3. ASSUME NEW t \in Thread, Onboard(t) PROVE customer'[c].kyc # "PENDING"
    BY <2>1, <2>2, <2>3 DEF Onboard, tables
  <2>4. ASSUME NEW t \in Thread, UpdateKyc(t) PROVE customer'[c].kyc # "PENDING"
    <3>1. PICK s \in KYCStatus :
            /\ MayBecome(form[t].kyc, s)
            /\ customer' = IF s = form[t].kyc THEN customer
                           ELSE [customer EXCEPT ![subject[t]].kyc = s]
      BY <2>4 DEF UpdateKyc
    <3>2. subject[t] = c => form[t].kyc = "VERIFIED"
      BY <2>4 DEF UpdateKyc, Alone
    <3>3. customer'[c].kyc \in {"VERIFIED", s}
      BY <2>2, <3>1 DEF CustomerRow
    <3>4. subject[t] # c => customer'[c] = customer[c]
      BY <2>2, <3>1
    <3> QED BY <3>1, <3>2, <3>3, <3>4 DEF MayBecome
  <2>5. ASSUME NEW t \in Thread, UpdateCustomer(t) PROVE customer'[c].kyc # "PENDING"
    <3>1. PICK e \in Email, g \in BOOLEAN :
            customer' = [customer EXCEPT ![subject[t]] =
                           [customer[subject[t]] EXCEPT
                              !.email = IF e = form[t].email THEN @ ELSE e,
                              !.eligible = IF g = form[t].eligible THEN @ ELSE g]]
      BY <2>5 DEF UpdateCustomer
    <3> QED BY <2>2, <3>1 DEF CustomerRow
  <2>6. ASSUME NEW t \in Thread, DeleteCustomer(t) PROVE customer'[c].kyc # "PENDING"
    BY <2>2, <2>6 DEF DeleteCustomer, CustomerRow
  <2> QED BY <2>1, <2>3, <2>4, <2>5, <2>6
          DEF Next, Serve, LookUp, LoadCustomer, LoadDependents, Refuse, OpenAccount,
              ApplyLoan, CreateUser, Quiet, tables, vars
<1> QED BY <1>1, AloneAlways, PTL DEF Spec, VerifiedNotReverted

\* For such a customer an account is opened and a loan entered only while it is
\* VERIFIED, and eligible for the loan.
THEOREM OnlyVerifiedEverServed == Spec => OnlyVerifiedServed
<1> DEFINE Served ==
      /\ \A a \in Account : owner'[a] \notin {owner[a]} \cup contended
           => customer[owner'[a]].kyc = "VERIFIED"
      /\ \A l \in Loan : borrower'[l] \notin {borrower[l]} \cup contended
           => customer[borrower'[l]].kyc = "VERIFIED" /\ customer[borrower'[l]].eligible
<1>1. TypeInv /\ Alone /\ [Next]_vars => [Served]_vars
  <2> SUFFICES ASSUME TypeInv, Alone, Next PROVE Served
    OBVIOUS
  <2>1. CASE UNCHANGED <<owner, borrower, user>>
    BY <2>1
  <2>2. ASSUME NEW t \in Thread, OpenAccount(t) \/ ApplyLoan(t) PROVE Served
    <3>1. /\ subject[t] \notin contended => customer[subject[t]] = form[t]
          /\ form[t].kyc = "VERIFIED"
          /\ ApplyLoan(t) => form[t].eligible
      BY <2>2 DEF OpenAccount, ApplyLoan, Alone, MayBeServed
    <3>2. \A a \in Account : owner'[a] = owner[a] \/ owner'[a] = subject[t]
      BY <2>2 DEF OpenAccount, ApplyLoan, TypeInv, TypeOK
    <3>3. \A l \in Loan : borrower'[l] = borrower[l]
                          \/ (ApplyLoan(t) /\ borrower'[l] = subject[t])
      BY <2>2 DEF OpenAccount, ApplyLoan, TypeInv, TypeOK
    <3> QED BY <3>1, <3>2, <3>3
  <2> QED BY <2>1, <2>2
          DEF Next, Serve, LookUp, Onboard, LoadCustomer, LoadDependents, Refuse, UpdateKyc,
              UpdateCustomer, DeleteCustomer, CreateUser, Quiet, tables, vars
<1> QED BY <1>1, AloneAlways, PTL DEF Spec, OnlyVerifiedServed

-----------------------------------------------------------------------------
\* The KYC trail.

\* An entry of the KYC trail of c.
Tells(e, c) == e.action \in {"ONBOARDED", "KYC"} /\ e.about = c

\* A new entry takes the position after the last.
LEMMA Appended ==
  ASSUME NEW log \in Seq(AuditEntry), NEW e \in AuditEntry
  PROVE  /\ Len(log) \in Nat /\ DOMAIN log = 1 .. Len(log)
         /\ DOMAIN Append(log, e) = 1 .. Len(log) + 1
         /\ Append(log, e)[Len(log) + 1] = e
         /\ \A k \in DOMAIN log : Append(log, e)[k] = log[k]
<1>1. Len(log) \in Nat /\ DOMAIN log = 1 .. Len(log)
  BY LenProperties
<1>2. /\ Append(log, e) \in Seq(AuditEntry) /\ Len(Append(log, e)) = Len(log) + 1
      /\ Append(log, e)[Len(log) + 1] = e
      /\ \A k \in 1 .. Len(log) : Append(log, e)[k] = log[k]
  BY AppendProperties
<1> QED BY <1>1, <1>2, LenProperties

\* An entry of another kind, or about somebody else, leaves the trail of c.
LEMMA TrailKept ==
  ASSUME NEW log \in Seq(AuditEntry), NEW e \in AuditEntry, NEW c, NEW kyc,
         ~Tells(e, c), LeadsTo(log, c, kyc)
  PROVE  LeadsTo(Append(log, e), c, kyc)
<1> DEFINE longer == Append(log, e)
<1>1. Trail(longer, c) = Trail(log, c)
  BY Appended DEF Trail, Tells
<1>2. \A k \in Trail(log, c) : longer[k] = log[k]
  BY Appended DEF Trail
<1> HIDE DEF longer
<1>3. LeadsTo(longer, c, kyc)
  BY <1>1, <1>2 DEF LeadsTo
<1> QED BY <1>3 DEF longer

\* An entry of the trail moves its end.
LEMMA TrailExtended ==
  ASSUME NEW log \in Seq(AuditEntry), NEW e \in AuditEntry, NEW c,
         Tells(e, c), LeadsTo(log, c, e.old) \/ Trail(log, c) = {}
  PROVE  LeadsTo(Append(log, e), c, e.new)
<1> DEFINE longer == Append(log, e)
           n == Len(log) + 1
<1>1. /\ Trail(longer, c) = Trail(log, c) \cup {n}
      /\ n \in Nat /\ \A k \in Trail(log, c) : k \in Nat /\ k < n
  BY Appended DEF Trail, Tells
<1>2. longer[n] = e /\ \A k \in Trail(log, c) : longer[k] = log[k]
  BY Appended DEF Trail
<1> HIDE DEF longer, n
<1>3. \E k \in Trail(longer, c) : longer[k].new = e.new /\ \A j \in Trail(longer, c) : j <= k
  BY <1>1, <1>2
<1>4. ASSUME NEW j \in Trail(longer, c), NEW k \in Trail(longer, c), j < k,
             \A i \in Trail(longer, c) : ~(j < i /\ i < k)
      PROVE  longer[k].old = longer[j].new
  <2>1. j \in Trail(log, c)
    BY <1>1, <1>4
  <2>2. CASE k \in Trail(log, c)
    <3>1. LeadsTo(log, c, e.old)
      BY <2>1
    <3>2. \A i \in Trail(log, c) : ~(j < i /\ i < k)
      BY <1>1, <1>4
    <3>3. log[k].old = log[j].new
      BY <1>4, <2>1, <2>2, <3>1, <3>2 DEF LeadsTo
    <3> QED BY <1>2, <2>1, <2>2, <3>3
  <2>3. CASE k = n
    <3>1. PICK i \in Trail(log, c) : log[i].new = e.old /\ \A h \in Trail(log, c) : h <= i
      BY <2>1 DEF LeadsTo
    <3>2. i \in Trail(longer, c) /\ i \in Nat /\ j \in Nat /\ i < k /\ j <= i
      BY <1>1, <2>1, <2>3, <3>1
    <3>3. ~(j < i /\ i < k)
      BY <1>4, <3>2
    <3>4. i = j
      BY <3>2, <3>3
    <3> QED BY <1>2, <2>1, <2>3, <3>1, <3>4
  <2> QED BY <1>1, <2>2, <2>3
<1> QED BY <1>3, <1>4 DEF LeadsTo, longer

\* The links of a log are not part of its trails.
LEMMA TrailUnlinked ==
  ASSUME NEW log \in Seq(AuditEntry), NEW c, NEW d, NEW kyc, LeadsTo(log, c, kyc)
  PROVE  LeadsTo(Unlinked(log, d), c, kyc)
<1> DEFINE cut == Unlinked(log, d)
<1>1. /\ DOMAIN cut = DOMAIN log
      /\ \A k \in DOMAIN log : log[k] \in AuditEntry
      /\ \A k \in DOMAIN log : cut[k] \in {log[k], [log[k] EXCEPT !.link = NoCustomer]}
  BY ElementOfSeq, LenProperties DEF Unlinked
<1>2. \A k \in DOMAIN log : /\ cut[k].action = log[k].action /\ cut[k].about = log[k].about
                            /\ cut[k].old = log[k].old /\ cut[k].new = log[k].new
  BY <1>1 DEF AuditEntry
<1> HIDE DEF cut
<1>3. Trail(cut, c) = Trail(log, c)
  BY <1>1, <1>2 DEF Trail
<1>4. \A k \in Trail(log, c) : cut[k].old = log[k].old /\ cut[k].new = log[k].new
  BY <1>2 DEF Trail
<1>5. LeadsTo(cut, c, kyc)
  BY <1>3, <1>4 DEF LeadsTo
<1> QED BY <1>5 DEF cut

\* The log is about customers that have got their row, so that the trail of the
\* next one starts empty.
AboutKnown == \A k \in DOMAIN audit : customer[audit[k].about].kyc # "NONE"

Explained == TypeInv /\ Alone /\ AboutKnown /\ TrailExplainsKyc

\* Nobody is known who was not before.
LEMMA KnownByLogged ==
  ASSUME Explained, NEW e \in AuditEntry, audit' = Append(audit, e),
         customer'[e.about].kyc # "NONE",
         \A c \in Customer : customer[c].kyc # "NONE" => customer'[c].kyc # "NONE"
  PROVE  AboutKnown'
<1>1. \A k \in DOMAIN audit : audit[k].about \in Customer
  BY DEF Explained, TypeInv, TypeOK, AuditEntry
<1>2. \A k \in DOMAIN audit' : k \in DOMAIN audit \/ audit'[k] = e
  BY LogIsSeq, Appended DEF Explained
<1>3. \A k \in DOMAIN audit : audit'[k] = audit[k]
  BY LogIsSeq, Appended DEF Explained
<1> QED BY <1>1, <1>2, <1>3 DEF Explained, AboutKnown

\* A step that adds an entry of no trail, and moves no status.
LEMMA ExplainedKept ==
  ASSUME Explained, NEW e \in AuditEntry, audit' = Append(audit, e),
         e.action \notin {"ONBOARDED", "KYC"}, e.about \in Live,
         \A c \in Customer : customer'[c].kyc = customer[c].kyc,
         contended' = contended
  PROVE  AboutKnown' /\ TrailExplainsKyc'
<1>1. AboutKnown'
  BY KnownByLogged DEF Live, KYCStatus
<1>2. ASSUME NEW c \in Live' \ contended' PROVE LeadsTo(audit', c, customer'[c].kyc)
  <2>1. c \in Live /\ customer'[c].kyc = customer[c].kyc
    BY <1>2 DEF Live
  <2>2. LeadsTo(audit, c, customer[c].kyc)
    BY <1>2, <2>1 DEF Explained, TrailExplainsKyc
  <2>3. LeadsTo(Append(audit, e), c, customer[c].kyc)
    BY <2>2, LogIsSeq, TrailKept DEF Explained, Tells
  <2> QED BY <2>1, <2>3
<1> QED BY <1>1, <1>2 DEF TrailExplainsKyc

LEMMA ExplainedOnboard ==
  ASSUME Explained, NEW t \in Thread, Onboard(t)
  PROVE  AboutKnown' /\ TrailExplainsKyc'
<1>1. contended' = contended
  BY DEF Onboard, Answer
<1>2. CASE UNCHANGED tables
  BY <1>1, <1>2 DEF tables, Explained, AboutKnown, TrailExplainsKyc, Live
<1>3. ASSUME NEW c \in Customer, customer[c].kyc = "NONE",
             customer' = [customer EXCEPT ![c] = form[t]],
             audit' = Logged("ONBOARDED", c, "PENDING", "PENDING")
      PROVE  AboutKnown' /\ TrailExplainsKyc'
  <2> DEFINE e == [action |-> "ONBOARDED", about |-> c, link |-> c,
                   old |-> "PENDING", new |-> "PENDING"]
  <2>1. /\ e \in AuditEntry /\ audit' = Append(audit, e)
        /\ e.about = c /\ e.action = "ONBOARDED" /\ e.new = "PENDING"
    BY <1>3 DEF AuditEntry, KYCStatus, Logged
  <2> HIDE DEF e
  <2>2. /\ customer'[c].kyc = "PENDING"
        /\ \A d \in Customer : d # c => customer'[d] = customer[d]
    BY <1>3 DEF Onboard, Explained, TypeInv, TypeOK, Holding
  <2>3. AboutKnown'
    BY <2>1, <2>2, KnownByLogged
  <2>4. ASSUME NEW d \in Live' \ contended' PROVE LeadsTo(audit', d, customer'[d].kyc)
    <3>1. CASE d = c
      <4>1. Trail(audit, c) = {}
        BY <1>3 DEF Explained, AboutKnown, Trail
      <4> QED BY <2>1, <2>2, <3>1, <4>1, LogIsSeq, TrailExtended DEF Explained, Tells
    <3>2. CASE d # c
      <4>1. d \in Live /\ customer'[d] = customer[d]
        BY <2>2, <2>4, <3>2 DEF Live
      <4>2. LeadsTo(audit, d, customer[d].kyc)
        BY <1>1, <2>4, <4>1 DEF Explained, TrailExplainsKyc
      <4>3. LeadsTo(Append(audit, e), d, customer[d].kyc)
        BY <2>1, <3>2, <4>2, LogIsSeq, TrailKept DEF Explained, Tells
      <4> QED BY <2>1, <4>1, <4>3
    <3> QED BY <3>1, <3>2
  <2> QED BY <2>3, <2>4 DEF TrailExplainsKyc
<1> QED BY <1>2, <1>3 DEF Onboard

\* A request that is alone with its customer has loaded the status that the row
\* has, where the trail has ended; the trails of others stay as they are.
LEMMA ExplainedUpdate ==
  ASSUME Explained, NEW t \in Thread, UpdateKyc(t)
  PROVE  AboutKnown' /\ TrailExplainsKyc'
<1> DEFINE c == subject[t]
<1>1. PICK s \in KYCStatus :
        /\ customer' = IF s = form[t].kyc THEN customer
                       ELSE [customer EXCEPT ![c].kyc = s]
        /\ audit' = Logged("KYC", c, form[t].kyc, s)
  BY DEF UpdateKyc
<1> DEFINE e == [action |-> "KYC", about |-> c, link |-> c, old |-> form[t].kyc, new |-> s]
<1>2. /\ c \in Live /\ c \in Customer /\ form[t].kyc \in KYCStatus
      /\ contended' = contended
      /\ customer \in [Customer -> CustomerRow] /\ customer[c] \in CustomerRow
  BY Subject DEF UpdateKyc, Answer, Live, Explained, TypeInv, TypeOK
<1>3. /\ e \in AuditEntry /\ audit' = Append(audit, e)
      /\ e.about = c /\ e.action = "KYC" /\ e.old = form[t].kyc /\ e.new = s
  BY <1>1, <1>2 DEF AuditEntry, Logged
<1>4. /\ \A d \in Customer : d # c => customer'[d] = customer[d]
      /\ customer'[c].kyc = s \/ (s = form[t].kyc /\ customer'[c].kyc = customer[c].kyc)
  BY <1>1, <1>2 DEF CustomerRow
<1>5. c \notin contended => form[t].kyc = customer[c].kyc
  BY DEF UpdateKyc, Explained, Alone
<1>6. \A d \in Customer : customer[d].kyc # "NONE" => customer'[d].kyc # "NONE"
  BY <1>4, <1>2 DEF Live, KYCStatus
<1> HIDE DEF c, e
<1>7. AboutKnown'
  BY <1>2, <1>3, <1>6, KnownByLogged DEF Live, KYCStatus
<1>8. ASSUME NEW d \in Live' \ contended' PROVE LeadsTo(audit', d, customer'[d].kyc)
  <2>1. d \in Live
    BY <1>2, <1>4, <1>8 DEF Live
  <2>2. LeadsTo(audit, d, customer[d].kyc)
    BY <1>2, <1>8, <2>1 DEF Explained, TrailExplainsKyc
  <2>3. CASE d = c
    <3>1. LeadsTo(Append(audit, e), c, e.new)
      BY <1>2, <1>3, <1>5, <1>8, <2>2, <2>3, LogIsSeq, TrailExtended DEF Explained, Tells
    <3> QED BY <1>2, <1>3, <1>4, <1>5, <1>8, <2>3, <3>1
  <2>4. CASE d # c
    <3>1. LeadsTo(Append(audit, e), d, customer[d].kyc)
      BY <1>3, <2>2, <2>4, LogIsSeq, TrailKept DEF Explained, Tells
    <3> QED BY <1>3, <1>4, <2>1, <2>4, <3>1 DEF Live
  <2> QED BY <2>3, <2>4
<1> QED BY <1>7, <1>8 DEF TrailExplainsKyc

\* The other commits that log what they do.
LEMMA ExplainedOther ==
  ASSUME Explained, NEW t \in Thread, UpdateCustomer(t) \/ OpenAccount(t) \/ ApplyLoan(t)
  PROVE  AboutKnown' /\ TrailExplainsKyc'
<1> DEFINE c == subject[t]
<1>1. /\ c \in Live /\ c \in Customer /\ form[t].kyc \in KYCStatus
      /\ contended' = contended
      /\ customer \in [Customer -> CustomerRow] /\ customer[c] \in CustomerRow
  BY Subject DEF UpdateCustomer, OpenAccount, ApplyLoan, Answer, Live, Explained, TypeInv, TypeOK
<1>2. PICK action \in {"UPDATED", "OPENED", "APPLIED"} :
        audit' = Logged(action, c, form[t].kyc, form[t].kyc)
  BY DEF UpdateCustomer, OpenAccount, ApplyLoan
<1> DEFINE e == [action |-> action, about |-> c, link |-> c,
                 old |-> form[t].kyc, new |-> form[t].kyc]
<1>3. /\ e \in AuditEntry /\ audit' = Append(audit, e)
      /\ e.about = c /\ e.action = action
  BY <1>1, <1>2 DEF AuditEntry, Logged
<1>4. \A d \in Customer : customer'[d].kyc = customer[d].kyc
  <2>1. CASE UNCHANGED customer
    BY <2>1
  <2>2. CASE UpdateCustomer(t)
    <3>1. PICK a \in Email, g \in BOOLEAN :
            customer' = [customer EXCEPT ![c] =
                           [customer[c] EXCEPT
                              !.email = IF a = form[t].email THEN @ ELSE a,
                              !.eligible = IF g = form[t].eligible THEN @ ELSE g]]
      BY <2>2 DEF UpdateCustomer
    <3> QED BY <1>1, <3>1 DEF CustomerRow
  <2> QED BY <2>1, <2>2 DEF OpenAccount, ApplyLoan
<1> HIDE DEF c, e
<1> QED BY <1>1, <1>3, <1>4, ExplainedKept

\* The customer that goes takes no trail along but its own.
LEMMA ExplainedDelete ==
  ASSUME Explained, NEW t \in Thread, DeleteCustomer(t)
  PROVE  AboutKnown' /\ TrailExplainsKyc'
<1> DEFINE c == subject[t]
           e == [action |-> "DELETED", about |-> c, link |-> NoCustomer,
                 old |-> form[t].kyc, new |-> form[t].kyc]
           cut == Unlinked(audit, c)
<1>1. /\ c \in Customer /\ form[t].kyc \in KYCStatus /\ contended' = contended
      /\ customer \in [Customer -> CustomerRow] /\ customer[c] \in CustomerRow
      /\ customer' = [customer EXCEPT ![c].kyc = "GONE"]
      /\ audit' = Append(cut, e)
  BY Subject DEF DeleteCustomer, Answer, Explained, TypeInv, TypeOK
<1>2. customer'[c].kyc = "GONE" /\ \A d \in Customer : d # c => customer'[d] = customer[d]
  BY <1>1 DEF CustomerRow
<1>3. e \in AuditEntry /\ e.about = c /\ e.action = "DELETED"
  BY <1>1 DEF AuditEntry
<1>4. cut \in Seq(AuditEntry)
  BY UnlinkedIsLog, LogIsSeq DEF Explained
<1>5. \A k \in DOMAIN audit : cut[k].about = audit[k].about /\ audit[k].about \in Customer
  <2> TAKE k \in DOMAIN audit
  <2>1. audit[k] \in AuditEntry
    BY DEF Explained, TypeInv, TypeOK
  <2>2. cut[k] \in {audit[k], [audit[k] EXCEPT !.link = NoCustomer]}
    BY DEF Unlinked
  <2> HIDE DEF cut
  <2> QED BY <2>1, <2>2 DEF AuditEntry
<1>6. DOMAIN cut = DOMAIN audit
  BY DEF Unlinked
<1>7. \A d \in Live' : d \in Live /\ d # c
  BY <1>1, <1>2 DEF Live, KYCStatus
<1>8. ASSUME NEW d \in Live' \ contended' PROVE LeadsTo(audit', d, customer'[d].kyc)
  <2>1. LeadsTo(audit, d, customer[d].kyc)
    BY <1>1, <1>7, <1>8 DEF Explained, TrailExplainsKyc
  <2>2. LeadsTo(cut, d, customer[d].kyc)
    BY <2>1, LogIsSeq, TrailUnlinked DEF Explained
  <2> HIDE DEF cut, e
  <2>3. LeadsTo(Append(cut, e), d, customer[d].kyc)
    BY <1>3, <1>4, <1>7, <2>2, TrailKept DEF Tells
  <2> QED BY <1>1, <1>2, <1>7, <2>3 DEF Live
<1> HIDE DEF c, e, cut
<1>9. AboutKnown'
  <2>1. \A k \in DOMAIN audit' : (k \in DOMAIN cut /\ audit'[k] = cut[k]) \/ audit'[k] = e
    BY <1>1, <1>3, <1>4, Appended
  <2>2. \A k \in DOMAIN audit' : \/ k \in DOMAIN audit /\ audit'[k].about = audit[k].about
                                 \/ audit'[k].about = c
    BY <1>3, <1>5, <1>6, <2>1
  <2>3. \A d \in Customer : customer[d].kyc # "NONE" => customer'[d].kyc # "NONE"
    BY <1>2
  <2> QED BY <1>2, <1>5, <2>2, <2>3 DEF Explained, AboutKnown
<1> QED BY <1>8, <1>9 DEF TrailExplainsKyc

LEMMA ExplainedNext == Explained /\ [Next]_vars => Explained'
<1> SUFFICES ASSUME Explained, [Next]_vars PROVE AboutKnown' /\ TrailExplainsKyc'
  BY TypeNext, AloneNext DEF Explained
<1>1. ASSUME UNCHANGED <<customer, audit>>, contended \subseteq contended'
      PROVE  AboutKnown' /\ TrailExplainsKyc'
  BY <1>1 DEF Explained, AboutKnown, TrailExplainsKyc, Live
<1>2. ASSUME NEW t \in Thread, \/ LookUp(t) \/ LoadCustomer(t) \/ LoadDependents(t)
                               \/ Refuse(t) \/ CreateUser(t)
      PROVE  AboutKnown' /\ TrailExplainsKyc'
  BY <1>1, <1>2 DEF LookUp, LoadCustomer, LoadDependents, Refuse, CreateUser, Arrive, Answer,
                    tables
<1>3. CASE Quiet \/ UNCHANGED vars
  BY <1>1, <1>3 DEF Quiet, vars
<1> QED BY <1>2, <1>3, ExplainedOnboard, ExplainedUpdate, ExplainedOther, ExplainedDelete
        DEF Next, Serve

LEMMA ExplainedInit == Init => Explained
<1> SUFFICES ASSUME Init PROVE AboutKnown /\ TrailExplainsKyc
  BY TypeInit, AloneInit DEF Explained
<1>1. Live = {}
  BY DEF Init, Live, Blank, KYCStatus
<1>2. DOMAIN audit = {}
  BY LenProperties, EmptySeq DEF Init
<1> QED BY <1>1, <1>2 DEF AboutKnown, TrailExplainsKyc

\* The log explains the KYC status of every customer of whom no two requests run
\* at once: its trail has no gap and ends at the status of the row.
THEOREM TrailAlwaysExplains == Spec => []TrailExplainsKyc
<1>1. Explained => TrailExplainsKyc
  BY DEF Explained
<1> QED BY <1>1, ExplainedInit, ExplainedNext, PTL DEF Spec
=============================================================================
