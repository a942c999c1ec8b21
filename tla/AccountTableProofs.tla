------------------------- MODULE AccountTableProofs -------------------------
(***************************************************************************)
(* Lemmas about rows of the accounts table and the UPDATEs of a session:   *)
(* what AccountsProofs and LoansProofs need of both.                       *)
(***************************************************************************)
EXTENDS AccountTable, TLAPS

\* An UPDATE leaves a row of the table a row.
LEMMA FlushIsRow ==
  ASSUME NEW cur \in Row, NEW old \in Row, NEW new \in Row
  PROVE  Flush(cur, old, new) \in Row
BY DEF Row, Flush

\* When nothing was committed since the load, the UPDATE leaves exactly what
\* the handler computed.
LEMMA FlushUnmoved ==
  ASSUME NEW old \in Row, NEW new \in Row
  PROVE  Flush(old, old, new) = new
BY DEF Row, Flush

LEMMA NoRowIsRow == NoRow \in Row
BY DEF NoRow, Row, Status

\* One column of a row may be set at a time ...
LEMMA SetColumn ==
  ASSUME NEW r \in Row, NEW i \in Int, NEW s \in Status
  PROVE  /\ [r EXCEPT !.balance = i] \in Row
         /\ [r EXCEPT !.status = s] \in Row
         /\ [r EXCEPT !.withdrawn = i] \in Row
         /\ [r EXCEPT !.resetDay = i] \in Row
         /\ [r EXCEPT !.credited = i] \in Row
BY DEF Row

LEMMA SetBalance ==
  ASSUME NEW r \in Row, NEW i \in Int
  PROVE  /\ [r EXCEPT !.balance = i] \in Row
         /\ [r EXCEPT !.balance = i].balance = i
         /\ [r EXCEPT !.balance = i].status = r.status
BY DEF Row

LEMMA SetStatus ==
  ASSUME NEW r \in Row, NEW s \in Status
  PROVE  /\ [r EXCEPT !.status = s] \in Row
         /\ [r EXCEPT !.status = s].status = s
         /\ [r EXCEPT !.status = s].balance = r.balance
BY DEF Row

\* ... and so may the pairs that the handlers set together.
LEMMA SetTwoColumns ==
  ASSUME NEW r \in Row, NEW i \in Int, NEW j \in Int, NEW s \in Status
  PROVE  /\ [r EXCEPT !.balance = i, !.status = s] \in Row
         /\ [r EXCEPT !.balance = i, !.withdrawn = j] \in Row
         /\ [r EXCEPT !.withdrawn = i, !.resetDay = j] \in Row
         /\ [r EXCEPT !.balance = i, !.credited = j] \in Row
BY SetColumn, Zenon

LEMMA Columns ==
  ASSUME NEW r \in Row
  PROVE  /\ r.balance \in Int /\ r.status \in Status
         /\ r.withdrawn \in Int /\ r.resetDay \in Int /\ r.credited \in Int
BY DEF Row

\* An UPDATE of a row above a bound, by a handler that left the balance alone
\* or above the bound too, keeps the row above it.
LEMMA FlushAbove ==
  ASSUME NEW cur \in Row, NEW old \in Row, NEW new \in Row, NEW x \in Int,
         cur.balance >= x,
         new.balance = old.balance \/ new.balance >= x
  PROVE  Flush(cur, old, new).balance >= x
BY DEF Row, Flush
=============================================================================
