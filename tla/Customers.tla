------------------------------ MODULE Customers ------------------------------
(***************************************************************************)
(* The customers table, the accounts, loans and users that hang from it,   *)
(* and the audit log: onboarding, KYC, update and deletion                 *)
(* (customer_service), the opening of accounts (account_service), loan     *)
(* applications (loan_service) and the creation of users (routes/auth) as  *)
(* far as they depend on the customer.                                     *)
(*                                                                         *)
(* A request runs its queries in one step of its thread and commits in     *)
(* another; what the unique and foreign key constraints of the tables      *)
(* refuse at the commit is rolled back.  What a request asks is chosen     *)
(* where it is first looked at.                                            *)
(***************************************************************************)
EXTENDS Naturals, Sequences, FiniteSets

CONSTANTS
  Customer,       \* the ids that customers get, each once
  NoCustomer,     \* NULL in a customer_id
  NationalId,     \* the values of national_id_hash
  Email,          \* the e-mail addresses
  Account,        \* the accounts that may be opened
  Loan,           \* the loans that may be applied for
  User,           \* the usernames
  NoUser,         \* the customer of a username that has no row
  Thread,         \* the threads that serve requests
  MaxRequests     \* bound: the requests that arrive

ASSUME CustomersAssumption ==
  /\ NoCustomer \notin Customer
  /\ NoUser \notin Customer \cup {NoCustomer}
  /\ NationalId # {} /\ Email # {}
  /\ MaxRequests \in Nat

VARIABLES
  customer,       \* customer[c]: its row; kyc NONE before and GONE after
  owner,          \* owner[a]: customer_id of account a, NoCustomer: no row
  borrower,       \* borrower[l]: customer_id of loan l, NoCustomer: no row
  user,           \* user[u]: customer_id of the user named u, NoUser: no row
  audit,          \* the audit log, in the order of its ids
  pc,             \* how far the request of thread t has come
  subject,        \* the customer it is about
  form,           \* a thread's copy of a row: the one it loaded, or is to add
  served,         \* the requests that have arrived
  contended       \* history: the customers of whom two requests have been served
                  \*   at the same time

tables == <<customer, owner, borrower, user, audit>>
vars == <<customer, owner, borrower, user, audit, pc, subject, form, served,
          contended>>

KYCStatus == {"PENDING", "VERIFIED", "REJECTED"}

\* The columns that decide anything; eligible: credit_score >= 650.
CustomerRow == [kyc : KYCStatus \cup {"NONE", "GONE"}, nid : NationalId,
                email : Email, eligible : BOOLEAN]

\* An entry is about a customer (entity_id, or the owner of the entity) and
\* linked to it by the customer_id column.
AuditEntry == [action : {"ONBOARDED", "KYC", "UPDATED", "DELETED", "OPENED",
                         "APPLIED"},
               about : Customer, link : Customer \cup {NoCustomer},
               old : KYCStatus, new : KYCStatus]

PC == {"idle", "onboarding", "loaded", "deleting"}

Blank == [kyc |-> "NONE", nid |-> CHOOSE n \in NationalId : TRUE,
          email |-> CHOOSE e \in Email : TRUE, eligible |-> TRUE]

Init ==
  /\ customer = [c \in Customer |-> Blank]
  /\ owner = [a \in Account |-> NoCustomer]
  /\ borrower = [l \in Loan |-> NoCustomer]
  /\ user = [u \in User |-> NoUser]
  /\ audit = <<>>
  /\ pc = [t \in Thread |-> "idle"]
  /\ subject = [t \in Thread |-> NoCustomer]
  /\ form = [t \in Thread |-> Blank]
  /\ served = 0
  /\ contended = {}

Live == {c \in Customer : customer[c].kyc \in KYCStatus}

\* A request arrives.
Arrive(t) ==
  /\ pc[t] = "idle" /\ served < MaxRequests
  /\ served' = served + 1

\* The request is answered.
Answer(t) ==
  /\ pc' = [pc EXCEPT ![t] = "idle"]
  /\ subject' = [subject EXCEPT ![t] = NoCustomer]
  /\ form' = [form EXCEPT ![t] = Blank]
  /\ UNCHANGED <<served, contended>>

\* Mutants of Logged: old_value is read from the row, or swapped with the new.
LoggedFromRow(action, c, old, new) ==
  Append(audit, [action |-> action, about |-> c, link |-> c,
                 old |-> customer[c].kyc, new |-> new])

LoggedSwapped(action, c, old, new) ==
  Append(audit, [action |-> action, about |-> c, link |-> c,
                 old |-> new, new |-> old])

\* log_audit
Logged(action, c, old, new) ==
  Append(audit, [action |-> action, about |-> c, link |-> c,
                 old |-> old, new |-> new])

\* Mutants of the two constraints below: they are not declared.
NothingTaken(r, others) == FALSE

NothingRefersTo(c) == FALSE

\* The unique constraints on national_id_hash and email.
Taken(r, others) ==
  \E c \in others : customer[c].nid = r.nid \/ customer[c].email = r.email

\* The foreign keys of accounts and loans.
RefersTo(c) ==
  (\E a \in Account : owner[a] = c) \/ (\E l \in Loan : borrower[l] = c)

-----------------------------------------------------------------------------
\* Bound: an id is left for every request that onboards.
IdsLeft ==
  Cardinality({u \in Thread : pc[u] = "onboarding"})
    < Cardinality({c \in Customer : customer[c].kyc = "NONE"})

\* create_customer of an adult: two lookups for duplicates, then the INSERT.
LookUp(t) ==
  /\ Arrive(t) /\ IdsLeft
  /\ \E n \in NationalId, e \in Email :
       LET r == [kyc |-> "PENDING", nid |-> n, email |-> e, eligible |-> TRUE]
       IN /\ \A c \in Live : customer[c].nid # n /\ customer[c].email # e
          /\ form' = [form EXCEPT ![t] = r]
  /\ pc' = [pc EXCEPT ![t] = "onboarding"]
  /\ UNCHANGED <<tables, subject, contended>>

Onboard(t) ==
  /\ pc[t] = "onboarding"
  /\ \/ /\ Taken(form[t], Live)
        /\ UNCHANGED tables
     \/ /\ ~Taken(form[t], Live)
        /\ \E c \in Customer :
             /\ customer[c].kyc = "NONE"
             /\ customer' = [customer EXCEPT ![c] = form[t]]
             /\ audit' = Logged("ONBOARDED", c, "PENDING", "PENDING")
        /\ UNCHANGED <<owner, borrower, user>>
  /\ Answer(t)

\* The query that opens every other request.
LoadCustomer(t) ==
  /\ Arrive(t)
  /\ \E c \in Live :
       /\ subject' = [subject EXCEPT ![t] = c]
       /\ form' = [form EXCEPT ![t] = customer[c]]
       /\ contended' = contended \cup ({c} \cap {subject[u] : u \in Thread})
  /\ pc' = [pc EXCEPT ![t] = "loaded"]
  /\ UNCHANGED tables

\* A request that its handler refuses, or whose commit fails, changes nothing.
Refuse(t) ==
  /\ pc[t] \in {"loaded", "deleting"}
  /\ Answer(t)
  /\ UNCHANGED tables

\* Mutant of MayBecome: nothing is refused.
MayBecomeAny(old, new) == TRUE

\* update_kyc_status: the one transition that is refused.
MayBecome(old, new) == ~(old = "VERIFIED" /\ new = "PENDING")

\* The status column is written when it differs from the one that was loaded;
\* a row that is gone by then fails the request.
UpdateKyc(t) ==
  /\ pc[t] = "loaded"
  /\ LET c == subject[t]
         old == form[t].kyc
     IN /\ c \in Live
        /\ \E s \in KYCStatus :
             /\ MayBecome(old, s)
             /\ customer' = IF s = old THEN customer
                            ELSE [customer EXCEPT ![c].kyc = s]
             /\ audit' = Logged("KYC", c, old, s)
  /\ Answer(t)
  /\ UNCHANGED <<owner, borrower, user>>

\* update_customer: a new address, e-mail or credit score.
UpdateCustomer(t) ==
  /\ pc[t] = "loaded"
  /\ LET c == subject[t]
         old == form[t]
     IN /\ c \in Live
        /\ \E e \in Email, g \in BOOLEAN :
             LET r == [customer[c] EXCEPT
                         !.email = IF e = old.email THEN @ ELSE e,
                         !.eligible = IF g = old.eligible THEN @ ELSE g]
             IN /\ \A d \in Live \ {c} : customer[d].email # r.email
                /\ customer' = [customer EXCEPT ![c] = r]
        /\ audit' = Logged("UPDATED", c, old.kyc, old.kyc)
  /\ Answer(t)
  /\ UNCHANGED <<owner, borrower, user>>

\* delete_customer looks at the accounts and loans ...
LoadDependents(t) ==
  /\ pc[t] = "loaded"
  /\ ~RefersTo(subject[t])
  /\ pc' = [pc EXCEPT ![t] = "deleting"]
  /\ UNCHANGED <<tables, subject, form, served, contended>>

\* Mutant of Unlinked: the entries go with the customer (delete-orphan).
Purged(log, c) == SelectSeq(log, LAMBDA e : e.link # c)

\* ... and deletes the row.  The ORM nulls the customer_id of the audit entries
\* that are linked to it, since the relationship has no cascade.
Unlinked(log, c) ==
  [k \in DOMAIN log |-> IF log[k].link = c THEN [log[k] EXCEPT !.link = NoCustomer]
                                           ELSE log[k]]

\* So does it with the user of the customer: the relationship has one, and a
\* second one makes the foreign key refuse the DELETE.
UsersOf(c) == {u \in User : user[u] = c}

\* A row that another request has deleted already costs only a warning.
DeleteCustomer(t) ==
  /\ pc[t] = "deleting"
  /\ LET c == subject[t]
     IN /\ ~RefersTo(c)
        /\ \A u, v \in UsersOf(c) : u = v
        /\ user' = [u \in User |-> IF u \in UsersOf(c) THEN NoCustomer ELSE user[u]]
        /\ customer' = [customer EXCEPT ![c].kyc = "GONE"]
        /\ audit' = Append(Unlinked(audit, c),
                           [action |-> "DELETED", about |-> c, link |-> NoCustomer,
                            old |-> form[t].kyc, new |-> form[t].kyc])
  /\ Answer(t)
  /\ UNCHANGED <<owner, borrower>>

\* Mutant of MayBeServed: a customer that is not rejected will do.
NotRejected(r) == r.kyc # "REJECTED"

MayBeServed(r) == r.kyc = "VERIFIED"

\* create_account, with the opening balance and the FD tenure it wants.
OpenAccount(t) ==
  /\ pc[t] = "loaded"
  /\ LET c == subject[t]
     IN /\ MayBeServed(form[t])
        /\ c \in Live
        /\ \E a \in Account :
             /\ owner[a] = NoCustomer
             /\ owner' = [owner EXCEPT ![a] = c]
        /\ audit' = Logged("OPENED", c, form[t].kyc, form[t].kyc)
  /\ Answer(t)
  /\ UNCHANGED <<customer, borrower, user>>

\* apply_loan, on an account of the customer that is ACTIVE and old enough.
ApplyLoan(t) ==
  /\ pc[t] = "loaded"
  /\ LET c == subject[t]
     IN /\ MayBeServed(form[t]) /\ form[t].eligible
        /\ c \in Live
        /\ \E a \in Account : owner[a] = c
        /\ \E l \in Loan :
             /\ borrower[l] = NoCustomer
             /\ borrower' = [borrower EXCEPT ![l] = c]
        /\ audit' = Logged("APPLIED", c, form[t].kyc, form[t].kyc)
  /\ Answer(t)
  /\ UNCHANGED <<customer, owner, user>>

\* create_user, for a customer or for none.  Its lookups find what the unique
\* constraints would refuse, and nobody looks whether the customer exists: one
\* who does not is refused by the foreign key.
CreateUser(t) ==
  /\ Arrive(t)
  /\ \E u \in User, c \in Live \cup {NoCustomer} :
       /\ user[u] = NoUser
       /\ user' = [user EXCEPT ![u] = c]
  /\ UNCHANGED <<customer, owner, borrower, audit, pc, subject, form, contended>>

\* All the requests of the run are answered, or nobody is left to serve.
Quiet ==
  /\ \A t \in Thread : pc[t] = "idle"
  /\ UNCHANGED vars

Serve(t) ==
  \/ LookUp(t) \/ Onboard(t)
  \/ LoadCustomer(t) \/ Refuse(t)
  \/ UpdateKyc(t) \/ UpdateCustomer(t)
  \/ LoadDependents(t) \/ DeleteCustomer(t)
  \/ OpenAccount(t) \/ ApplyLoan(t) \/ CreateUser(t)

Next == Quiet \/ \E t \in Thread : Serve(t)

Spec == Init /\ [][Next]_vars

-----------------------------------------------------------------------------
\* Properties.

\* Every variable keeps its type; a request past its first query of a customer
\* is about one.
TypeOK ==
  /\ customer \in [Customer -> CustomerRow]
  /\ owner \in [Account -> Customer \cup {NoCustomer}]
  /\ borrower \in [Loan -> Customer \cup {NoCustomer}]
  /\ user \in [User -> Customer \cup {NoCustomer, NoUser}]
  /\ \A k \in DOMAIN audit : audit[k] \in AuditEntry
  /\ pc \in [Thread -> PC]
  /\ subject \in [Thread -> Customer \cup {NoCustomer}]
  /\ form \in [Thread -> CustomerRow]
  /\ served \in Nat /\ contended \subseteq Customer
  /\ \A t \in Thread : pc[t] \in {"loaded", "deleting"} => subject[t] \in Customer

\* Nobody is onboarded twice, also when the lookups of two requests run before
\* the first of their commits (customer_service.py:45-58).
OneRowPerPerson ==
  \A c, d \in Live : c # d => /\ customer[c].nid # customer[d].nid
                              /\ customer[c].email # customer[d].email

\* An account or a loan always has its customer, and a user none that is gone,
\* also when it is entered between the look at a customer's accounts and the
\* deletion of the customer (customer_service.py:183-192).
NoOrphans ==
  /\ \A a \in Account : owner[a] # NoCustomer => owner[a] \in Live
  /\ \A l \in Loan : borrower[l] # NoCustomer => borrower[l] \in Live
  /\ \A u \in User : user[u] \in {NoCustomer, NoUser} \cup Live

\* The audit log loses no entry, and of an entry nothing changes but its link.
TrailOnlyGrows ==
  [][/\ Len(audit') >= Len(audit)
     /\ \A k \in DOMAIN audit :
          [audit'[k] EXCEPT !.link = NoCustomer] = [audit[k] EXCEPT !.link = NoCustomer]]_vars

\* "No audit log should ever be deleted or modified." (models/transaction.py:77)
AuditImmutable ==
  [][\A k \in DOMAIN audit : audit'[k] = audit[k]]_vars

\* Where the log tells the status of c: the entries of its KYC trail.
Trail(log, c) ==
  {k \in DOMAIN log : log[k].action \in {"ONBOARDED", "KYC"} /\ log[k].about = c}

\* The trail of c leads without a gap to the status kyc.
LeadsTo(log, c, kyc) ==
  /\ \E k \in Trail(log, c) : log[k].new = kyc /\ \A j \in Trail(log, c) : j <= k
  /\ \A j, k \in Trail(log, c) :
       j < k => \/ log[k].old = log[j].new
                \/ \E i \in Trail(log, c) : j < i /\ i < k

\* The KYC entries of the log tell the status of a customer of whom no two
\* requests have run at once, whatever those of others do: each starts where
\* the one before ended, and the last ends where the customer is.
TrailExplainsKyc ==
  \A c \in Live \ contended : LeadsTo(audit, c, customer[c].kyc)

\* Of such a customer: "Once VERIFIED, a customer's KYC cannot be moved back to
\* PENDING." (tests/test_customers.py:190)
VerifiedNotReverted ==
  [][\A c \in Customer \ contended :
       customer[c].kyc = "VERIFIED" => customer'[c].kyc # "PENDING"]_vars

\* And for such a customer "KYC must be VERIFIED" (account_service.py:48,
\* loan_service.py:5) at the commit that opens an account or enters a loan, not
\* only at the query before it.
OnlyVerifiedServed ==
  [][/\ \A a \in Account : owner'[a] \notin {owner[a]} \cup contended
          => customer[owner'[a]].kyc = "VERIFIED"
     /\ \A l \in Loan : borrower'[l] \notin {borrower[l]} \cup contended
          => customer[borrower'[l]].kyc = "VERIFIED" /\ customer[borrower'[l]].eligible]_vars
=============================================================================
