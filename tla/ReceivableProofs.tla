--------------------------- MODULE ReceivableProofs ---------------------------
(***************************************************************************)
(* Theorems about Receivable for every number of people and every bound on *)
(* amounts, receipts and edits.                                            *)
(***************************************************************************)
EXTENDS Receivable, TLAPS

Kinds    == {"none", "receive", "record", "recorded", "edit"}
InvType  == [status : Statuses, net : Amounts, withheld : 0..MaxAmount]
WorkType == [op : Kinds, status : Statuses, net : 0..MaxAmount, paid : Nat, amount : 0..MaxAmount]

\* A receipt is of an issued invoice and fitted into what was left to receive;
\* the gateway's, once written, is in no book.
WorkSound ==
  \A u \in Users :
    LET w == work[u] IN
    /\ w.op \in {"receive", "record", "recorded"} => inv.status # "approved"
    /\ w.op = "receive" => 1 <= w.amount /\ w.amount <= CashTarget(w.net) - w.paid
    /\ w.op = "record" => 1 <= w.amount /\ w.amount <= w.net - w.paid
    /\ w.op = "recorded" => 1 <= w.paid /\ offBooks

\* What was received agrees with the invoice.
Money ==
  /\ inv.status = "approved" => paid = 0
  /\ inv.status \in {"partial", "paid"} \/ offBooks => paid > 0
  /\ NeverOverpaid
  /\ inv.status \in {"partial", "paid"} /\ ~overlap /\ ~revised /\ ~offBooks =>
       paid <= CashTarget(inv.net)
  /\ StatusTellsPaid

\* The receivable in the books: the invoice on one side, the receipts on the
\* other, each with the whole tax.
BooksSound ==
  /\ inv.status # "approved" /\ ~revised => booked.debit = inv.net
  /\ ~offBooks => booked.credit = paid + receipts * inv.withheld

Inv == TypeOK /\ WorkSound /\ Money /\ BooksSound

-----------------------------------------------------------------------------
AskStep(u) == AskEdit(u) \/ \E a \in Amounts : AskReceive(u, a) \/ AskRecordPayment(u, a)

\* The steps, in groups.
LEMMA Steps ==
  Next => \/ Issue
          \/ \E u \in Users :
               \/ AskStep(u) \/ Receive(u) \/ RecordPayment(u) \/ RecordPaymentStatus(u)
               \/ \E n \in Amounts : UpdateProjectInvoice(u, n)
  BY DEF Next, AskStep

\* At first nothing was received.
LEMMA InitInv == Init => Inv
<1> SUFFICES ASSUME Init PROVE Inv
  OBVIOUS
<1>0. inv \in InvType /\ inv.status = "approved" /\ inv.net \in Nat
  BY ConstantsAssumption DEF Init, InvType, Statuses, Amounts, ConstantsAssumption
<1>1. \A u \in Users : work[u] = NoWork
  BY DEF Init
<1>2. NoWork \in WorkType
  BY ConstantsAssumption DEF NoWork, WorkType, Kinds, Statuses, ConstantsAssumption
<1>3. TypeOK
  <2>1. work \in [Users -> WorkType]
    BY <1>2 DEF Init
  <2>2. booked \in [debit : Nat, credit : Nat] /\ paid \in Nat
    BY DEF Init
  <2>3. receipts \in 0..MaxReceipts /\ edits \in 0..MaxEdits
    BY ConstantsAssumption DEF Init, ConstantsAssumption
  <2>4. revised \in BOOLEAN /\ overlap \in BOOLEAN /\ offBooks \in BOOLEAN
    BY DEF Init
  <2> QED
    BY <1>0, <2>1, <2>2, <2>3, <2>4 DEF TypeOK, InvType, WorkType, Kinds
<1>4. WorkSound
  <2>1. NoWork.op \notin {"receive", "record", "recorded"}
    BY DEF NoWork
  <2>2. \A u \in Users : work[u].op \notin {"receive", "record", "recorded"}
    BY <1>1, <2>1
  <2> QED
    BY <2>2 DEF WorkSound
<1>5. Money
  BY <1>0 DEF Init, Money, NeverOverpaid, StatusTellsPaid
<1>6. BooksSound
  <2>1. booked.credit = 0 /\ paid = 0 /\ receipts * inv.withheld = 0
    BY <1>0 DEF Init, InvType
  <2> QED
    BY <1>0, <2>1 DEF BooksSound
<1> QED
  BY <1>3, <1>4, <1>5, <1>6 DEF Inv

-----------------------------------------------------------------------------
(* Types and requests.                                                     *)

\* A request that ends, and one that reads the invoice, keep the types, and
\* touch no other request.
LEMMA WorkTypes ==
  ASSUME TypeOK, NEW u \in Users
  PROVE  /\ Rest(u) => /\ work' \in [Users -> WorkType] /\ work'[u] = NoWork
                       /\ \A v \in Users \ {u} : work'[v] = work[v]
         /\ \A op \in Kinds, a \in 0..MaxAmount : Reads(u, op, a) =>
              /\ work' \in [Users -> WorkType]
              /\ work'[u] = [op |-> op, status |-> inv.status, net |-> inv.net, paid |-> paid, amount |-> a]
              /\ \A v \in Users \ {u} : work'[v] = work[v]
<1>0. inv \in InvType /\ work \in [Users -> WorkType] /\ paid \in Nat
  BY DEF TypeOK, InvType, WorkType, Kinds
<1>1. NoWork \in WorkType
  BY ConstantsAssumption DEF ConstantsAssumption, NoWork, WorkType, Kinds, Statuses
<1>2. inv.net \in 0..MaxAmount
  BY <1>0, ConstantsAssumption DEF InvType, Amounts, ConstantsAssumption
<1>3. ASSUME NEW op \in Kinds, NEW a \in 0..MaxAmount
      PROVE  [op |-> op, status |-> inv.status, net |-> inv.net, paid |-> paid, amount |-> a] \in WorkType
  BY <1>0, <1>2 DEF InvType, WorkType
<1> QED
  BY <1>0, <1>1, <1>3 DEF Rest, Reads

\* The status a receipt or an edit sets is partial or paid.
LEMMA PaidStatusType ==
  ASSUME NEW total, NEW target
  PROVE  PaidStatus(total, target) \in {"partial", "paid"}
  BY DEF PaidStatus

\* What a request that asks has read and found.
Asked(u, op, a) ==
  /\ Reads(u, op, a)
  /\ op # "edit" => inv.status # "approved" /\ 1 <= a
  /\ op = "receive" => a <= CashTarget(inv.net) - paid
  /\ op = "record" => a <= inv.net - paid

\* A request that asks reads, and changes nothing else.
LEMMA Asking ==
  ASSUME NEW u \in Users, AskStep(u)
  PROVE  /\ UNCHANGED <<inv, paid, booked, receipts, edits, revised, overlap, offBooks>>
         /\ work[u].op = "none"
         /\ \E op \in {"receive", "record", "edit"}, a \in 0..MaxAmount : Asked(u, op, a)
<1>1. CASE AskEdit(u)
  <2>1. Asked(u, "edit", 0) /\ 0 \in 0..MaxAmount
    BY <1>1, ConstantsAssumption DEF AskEdit, Asked, ConstantsAssumption
  <2> QED
    BY <1>1, <2>1 DEF AskEdit, Idle
<1>2. ASSUME NEW a \in Amounts, AskReceive(u, a)
      PROVE  Asked(u, "receive", a) /\ a \in 0..MaxAmount
  BY <1>2 DEF AskReceive, CanReceive, Amounts, Asked
<1>3. ASSUME NEW a \in Amounts, AskRecordPayment(u, a)
      PROVE  Asked(u, "record", a) /\ a \in 0..MaxAmount
  BY <1>3 DEF AskRecordPayment, CanReceive, Amounts, Asked
<1>4. CASE \E a \in Amounts : AskReceive(u, a)
  BY <1>2, <1>4 DEF AskReceive, Idle
<1>5. CASE \E a \in Amounts : AskRecordPayment(u, a)
  BY <1>3, <1>5 DEF AskRecordPayment, Idle
<1> QED
  BY <1>1, <1>4, <1>5 DEF AskStep

\* TypeOK is inductive, given what requests have read.
LEMMA TypeStep == ASSUME TypeOK, WorkSound, [Next]_vars PROVE TypeOK'
<1> USE ConstantsAssumption DEF ConstantsAssumption
<1>0. /\ inv \in InvType /\ work \in [Users -> WorkType] /\ paid \in Nat
      /\ booked \in [debit : Nat, credit : Nat] /\ receipts \in 0..MaxReceipts /\ edits \in 0..MaxEdits
      /\ revised \in BOOLEAN /\ overlap \in BOOLEAN /\ offBooks \in BOOLEAN
      /\ inv.net \in Nat /\ inv.withheld \in Nat
  BY DEF TypeOK, InvType, WorkType, Kinds, Amounts
<1>s. \A s \in {"issued", "partial", "paid"} : s \in Statuses /\ [inv EXCEPT !.status = s] \in InvType
  BY <1>0 DEF Statuses, InvType
<1>n. \A u \in Users : NoteOverlap(u) => overlap' \in BOOLEAN
  BY <1>0 DEF NoteOverlap
<1>1. ASSUME Issue PROVE TypeOK'
  <2>1. inv' \in InvType /\ booked' \in [debit : Nat, credit : Nat]
    BY <1>0, <1>1, <1>s DEF Issue
  <2> QED
    BY <1>0, <1>1, <2>1 DEF Issue, TypeOK, InvType, WorkType, Kinds
<1>2. ASSUME NEW u \in Users, AskStep(u) PROVE TypeOK'
  <2>1. PICK op \in {"receive", "record", "edit"}, a \in 0..MaxAmount : Asked(u, op, a)
    BY <1>2, Asking
  <2>2. work' \in [Users -> WorkType]
    BY <2>1, WorkTypes DEF Asked, Kinds
  <2> QED
    BY <1>0, <1>2, <2>2, Asking DEF TypeOK, InvType, WorkType, Kinds
<1>3. ASSUME NEW u \in Users, Receive(u) PROVE TypeOK'
  <2>1. work[u].amount \in Nat
    BY <1>0 DEF WorkType
  <2>2. inv' \in InvType
    BY <1>0, <1>3, <1>s, PaidStatusType DEF Receive
  <2>3. /\ paid' \in Nat /\ booked' \in [debit : Nat, credit : Nat]
        /\ receipts' \in 0..MaxReceipts
    BY <1>0, <1>3, <2>1 DEF Receive
  <2>4. work' \in [Users -> WorkType] /\ overlap' \in BOOLEAN
    BY <1>3, <1>n, WorkTypes DEF Receive
  <2> QED
    BY <1>0, <1>3, <2>2, <2>3, <2>4 DEF Receive, TypeOK, InvType, WorkType, Kinds
<1>4. ASSUME NEW u \in Users, RecordPayment(u) PROVE TypeOK'
  <2>1. work[u] \in WorkType /\ work[u].amount \in Nat /\ work[u].paid + work[u].amount \in Nat
    BY <1>0 DEF WorkType
  <2>2. work' \in [Users -> WorkType]
    BY <1>0, <1>4, <2>1 DEF RecordPayment, WorkType, Kinds
  <2>3. paid' \in Nat /\ receipts' \in 0..MaxReceipts
    BY <1>0, <1>4, <2>1 DEF RecordPayment
  <2>4. overlap' \in BOOLEAN /\ offBooks' = TRUE
    BY <1>4, <1>n DEF RecordPayment
  <2> QED
    BY <1>0, <1>4, <2>2, <2>3, <2>4 DEF RecordPayment, TypeOK, InvType, WorkType, Kinds
<1>5. ASSUME NEW u \in Users, RecordPaymentStatus(u) PROVE TypeOK'
  <2>1. inv' \in InvType
    BY <1>0, <1>5, <1>s, PaidStatusType DEF RecordPaymentStatus
  <2>2. work' \in [Users -> WorkType] /\ overlap' \in BOOLEAN
    BY <1>5, <1>n, WorkTypes DEF RecordPaymentStatus
  <2> QED
    BY <1>0, <1>5, <2>1, <2>2 DEF RecordPaymentStatus, TypeOK, InvType, WorkType, Kinds
<1>6. ASSUME NEW u \in Users, NEW n \in Amounts, UpdateProjectInvoice(u, n) PROVE TypeOK'
  <2>1. PICK s \in Statuses : inv' = [inv EXCEPT !.net = n, !.status = s]
    <3>1. inv.status \in Statuses /\ PaidStatus(paid, CashTarget(n)) \in Statuses
      BY <1>0, PaidStatusType DEF InvType, Statuses
    <3> QED
      BY <1>0, <1>6, <3>1 DEF UpdateProjectInvoice
  <2>2. inv' \in InvType
    BY <1>0, <2>1 DEF InvType
  <2>3. work' \in [Users -> WorkType] /\ overlap' \in BOOLEAN
    BY <1>6, <1>n, WorkTypes DEF UpdateProjectInvoice
  <2>4. edits' \in 0..MaxEdits /\ revised' \in BOOLEAN
    BY <1>0, <1>6 DEF UpdateProjectInvoice
  <2> QED
    BY <1>0, <1>6, <2>2, <2>3, <2>4 DEF UpdateProjectInvoice, TypeOK, InvType, WorkType, Kinds
<1>7. CASE UNCHANGED vars
  BY <1>7 DEF vars, TypeOK
<1> QED
  BY <1>1, <1>2, <1>3, <1>4, <1>5, <1>6, <1>7, Steps

-----------------------------------------------------------------------------
(* What each step does, told by the entries of the invoice.                *)

\* Issuing touches the status and the books only.
LEMMA IssueEffect ==
  ASSUME inv \in InvType, booked \in [debit : Nat, credit : Nat], Issue
  PROVE  /\ inv.status = "approved" /\ inv'.status = "issued"
         /\ inv'.net = inv.net /\ inv'.withheld = inv.withheld
         /\ booked'.debit = inv.net /\ booked'.credit = booked.credit
  BY DEF Issue, InvType

\* A receipt sets the status from what its request has read.
LEMMA ReceiveEffect ==
  ASSUME inv \in InvType, booked \in [debit : Nat, credit : Nat], NEW u \in Users, Receive(u)
  PROVE  /\ inv'.status = PaidStatus(work[u].paid + work[u].amount, work[u].net - inv.withheld)
         /\ inv'.net = inv.net /\ inv'.withheld = inv.withheld
         /\ booked'.debit = booked.debit
         /\ booked'.credit = booked.credit + work[u].amount + inv.withheld
  BY DEF Receive, InvType, CashTarget

\* So does the second half of a receipt of the gateway.
LEMMA RecordedEffect ==
  ASSUME inv \in InvType, NEW u \in Users, RecordPaymentStatus(u)
  PROVE  /\ inv'.status = PaidStatus(work[u].paid, work[u].net)
         /\ inv'.net = inv.net /\ inv'.withheld = inv.withheld
  BY DEF RecordPaymentStatus, InvType

\* An edit sets the net and, of an invoice that was received on, the status.
LEMMA EditEffect ==
  ASSUME inv \in InvType, NEW u \in Users, NEW n \in Amounts, UpdateProjectInvoice(u, n)
  PROVE  /\ inv'.net = n /\ inv'.withheld = inv.withheld
         /\ inv'.status = inv.status \/ (paid > 0 /\ inv'.status = PaidStatus(paid, n - inv.withheld))
         /\ inv.status = work[u].status /\ inv.status \in {"issued", "partial", "paid"} /\ paid > 0 =>
              inv'.status = PaidStatus(paid, n - inv.withheld)
  BY DEF UpdateProjectInvoice, InvType, CashTarget

\* WorkSound is inductive, given Money.
LEMMA WorkStep == ASSUME TypeOK, WorkSound, Money, [Next]_vars PROVE WorkSound'
<1>0. /\ inv \in InvType /\ work \in [Users -> WorkType] /\ paid \in Nat
      /\ booked \in [debit : Nat, credit : Nat]
  BY DEF TypeOK, InvType, WorkType, Kinds
<1>r. ASSUME NEW u \in Users, Rest(u), inv'.withheld = inv.withheld, offBooks' = offBooks,
             inv.status # "approved" => inv'.status # "approved"
      PROVE  WorkSound'
  <2>1. work'[u].op = "none" /\ \A v \in Users \ {u} : work'[v] = work[v]
    BY <1>r, WorkTypes DEF NoWork
  <2> QED
    BY <1>r, <2>1 DEF WorkSound, CashTarget
<1>1. ASSUME Issue PROVE WorkSound'
  BY <1>0, <1>1, IssueEffect DEF Issue, WorkSound, CashTarget
<1>2. ASSUME NEW u \in Users, AskStep(u) PROVE WorkSound'
  <2>1. PICK op \in {"receive", "record", "edit"}, a \in 0..MaxAmount : Asked(u, op, a)
    BY <1>2, Asking
  <2>2. /\ work'[u] = [op |-> op, status |-> inv.status, net |-> inv.net, paid |-> paid, amount |-> a]
        /\ \A v \in Users \ {u} : work'[v] = work[v]
    BY <2>1, WorkTypes DEF Asked, Kinds
  <2>3. inv' = inv /\ paid' = paid /\ offBooks' = offBooks
    BY <1>2, Asking
  <2> QED
    BY <2>1, <2>2, <2>3 DEF WorkSound, Asked, CashTarget
<1>3. ASSUME NEW u \in Users, Receive(u) PROVE WorkSound'
  BY <1>0, <1>3, <1>r, ReceiveEffect, PaidStatusType DEF Receive
<1>4. ASSUME NEW u \in Users, RecordPayment(u) PROVE WorkSound'
  <2>1. work[u].paid \in Nat /\ work[u].amount >= 1 /\ work[u].amount \in Nat /\ inv.status # "approved"
    BY <1>0, <1>4 DEF RecordPayment, On, WorkSound, WorkType
  <2>2. work'[u].op = "recorded" /\ work'[u].paid = work[u].paid + work[u].amount
    BY <1>0, <1>4 DEF RecordPayment, WorkType
  <2>3. \A v \in Users \ {u} : work'[v] = work[v]
    BY <1>0, <1>4 DEF RecordPayment
  <2>4. inv' = inv /\ offBooks' = TRUE
    BY <1>4 DEF RecordPayment
  <2> QED
    BY <2>1, <2>2, <2>3, <2>4 DEF WorkSound, CashTarget
<1>5. ASSUME NEW u \in Users, RecordPaymentStatus(u) PROVE WorkSound'
  BY <1>0, <1>5, <1>r, RecordedEffect, PaidStatusType DEF RecordPaymentStatus
<1>6. ASSUME NEW u \in Users, NEW n \in Amounts, UpdateProjectInvoice(u, n) PROVE WorkSound'
  <2>1. inv.status # "approved" => inv'.status # "approved"
    <3>1. PaidStatus(paid, n - inv.withheld) # "approved"
      BY PaidStatusType
    <3> QED
      BY <1>0, <1>6, <3>1, EditEffect
  <2>2. inv'.withheld = inv.withheld
    BY <1>0, <1>6, EditEffect
  <2> QED
    BY <1>6, <1>r, <2>1, <2>2 DEF UpdateProjectInvoice
<1>7. CASE UNCHANGED vars
  BY <1>7 DEF vars, WorkSound, CashTarget
<1> QED
  BY <1>1, <1>2, <1>3, <1>4, <1>5, <1>6, <1>7, Steps

-----------------------------------------------------------------------------
(* What was received, and what the books hold of it.                       *)

\* A request in time has read what still holds.
LEMMA InTime ==
  ASSUME NEW u \in Users, NoteOverlap(u), ~overlap'
  PROVE  ~overlap /\ work[u].status = inv.status /\ work[u].net = inv.net /\ work[u].paid = paid
  BY DEF NoteOverlap

\* Money is inductive.
LEMMA MoneyStep == ASSUME TypeOK, WorkSound, Money, [Next]_vars PROVE Money'
<1>0. /\ inv \in InvType /\ work \in [Users -> WorkType] /\ paid \in Nat
      /\ booked \in [debit : Nat, credit : Nat]
      /\ inv.net \in Nat /\ inv.net >= 1 /\ inv.withheld \in Nat
      /\ revised \in BOOLEAN /\ overlap \in BOOLEAN /\ offBooks \in BOOLEAN
  BY DEF TypeOK, InvType, WorkType, Kinds, Amounts
<1>w. \A u \in Users : work[u].amount \in Nat /\ work[u].paid \in Nat /\ work[u].net \in Nat
  BY <1>0 DEF WorkType
<1>1. ASSUME Issue PROVE Money'
  <2>1. paid' = paid /\ revised' = revised /\ overlap' = overlap /\ offBooks' = offBooks
    BY <1>1 DEF Issue
  <2> QED
    BY <1>0, <1>1, <2>1, IssueEffect DEF Money, NeverOverpaid, StatusTellsPaid
<1>2. ASSUME NEW u \in Users, AskStep(u) PROVE Money'
  <2>1. PICK op \in {"receive", "record", "edit"}, a \in 0..MaxAmount : Asked(u, op, a)
    BY <1>2, Asking
  <2>2. /\ work'[u] = [op |-> op, status |-> inv.status, net |-> inv.net, paid |-> paid, amount |-> a]
        /\ \A v \in Users \ {u} : work'[v] = work[v]
    BY <2>1, WorkTypes DEF Asked, Kinds
  <2>3. Between' <=> Between
    <3>1. work[u].op # "recorded" /\ work'[u].op # "recorded"
      BY <1>2, <2>2, Asking
    <3>2. \A v \in Users : On(v, "recorded")' <=> On(v, "recorded")
      BY <2>2, <3>1 DEF On
    <3> QED
      BY <3>2 DEF Between
  <2>4. /\ inv' = inv /\ paid' = paid
        /\ revised' = revised /\ overlap' = overlap /\ offBooks' = offBooks
    BY <1>2, Asking
  <2> QED
    BY <2>3, <2>4 DEF Money, NeverOverpaid, StatusTellsPaid, CashTarget
<1>3. ASSUME NEW u \in Users, Receive(u) PROVE Money'
  <2>1. /\ work[u].amount >= 1 /\ work[u].amount <= work[u].net - inv.withheld - work[u].paid
        /\ inv.status # "approved"
    BY <1>3 DEF Receive, On, WorkSound, CashTarget
  <2>2. paid' = paid + work[u].amount /\ revised' = revised /\ offBooks' = offBooks /\ NoteOverlap(u)
    BY <1>3 DEF Receive
  <2>3. /\ inv'.status = PaidStatus(work[u].paid + work[u].amount, work[u].net - inv.withheld)
        /\ inv'.net = inv.net /\ inv'.withheld = inv.withheld
    BY <1>0, <1>3, ReceiveEffect
  <2>4. inv'.status \in {"partial", "paid"}
    BY <2>3, PaidStatusType
  <2>5. paid' > 0
    BY <1>0, <1>w, <2>1, <2>2
  <2>6. ASSUME ~overlap'
        PROVE  /\ ~overlap /\ paid' <= inv.net - inv.withheld
               /\ inv'.status = PaidStatus(paid', inv.net - inv.withheld)
    BY <1>0, <1>w, <2>1, <2>2, <2>3, <2>6, InTime
  <2> QED
    BY <1>0, <2>2, <2>3, <2>4, <2>5, <2>6 DEF Money, NeverOverpaid, StatusTellsPaid, CashTarget, PaidStatus
<1>4. ASSUME NEW u \in Users, RecordPayment(u) PROVE Money'
  <2>1. /\ work[u].amount >= 1 /\ work[u].amount <= work[u].net - work[u].paid
        /\ inv.status # "approved"
    BY <1>4 DEF RecordPayment, On, WorkSound
  <2>2. /\ paid' = paid + work[u].amount /\ revised' = revised /\ offBooks' = TRUE
        /\ inv' = inv /\ NoteOverlap(u)
    BY <1>4 DEF RecordPayment
  <2>3. Between'
    BY <1>0, <1>4 DEF RecordPayment, Between, On, WorkType
  <2>4. paid' > 0
    BY <1>0, <1>w, <2>1, <2>2
  <2>5. ASSUME ~overlap' PROVE ~overlap /\ paid' <= inv.net
    BY <1>0, <1>w, <2>1, <2>2, <2>5, InTime
  <2> QED
    BY <2>1, <2>2, <2>3, <2>4, <2>5 DEF Money, NeverOverpaid, StatusTellsPaid
<1>5. ASSUME NEW u \in Users, RecordPaymentStatus(u) PROVE Money'
  <2>1. offBooks /\ inv.status # "approved"
    BY <1>5 DEF RecordPaymentStatus, On, WorkSound
  <2>2. paid' = paid /\ revised' = revised /\ offBooks' = offBooks /\ NoteOverlap(u)
    BY <1>5 DEF RecordPaymentStatus
  <2>3. /\ inv'.status = PaidStatus(work[u].paid, work[u].net)
        /\ inv'.net = inv.net /\ inv'.withheld = inv.withheld
    BY <1>0, <1>5, RecordedEffect
  <2>4. inv'.status \in {"partial", "paid"} /\ paid > 0
    BY <2>1, <2>3, PaidStatusType DEF Money
  <2>5. ASSUME ~overlap' PROVE ~overlap /\ inv'.status = PaidStatus(paid, inv.net)
    BY <2>2, <2>3, <2>5, InTime
  <2> QED
    BY <1>0, <2>1, <2>2, <2>3, <2>4, <2>5 DEF Money, NeverOverpaid, StatusTellsPaid, CashTarget, PaidStatus
<1>6. ASSUME NEW u \in Users, NEW n \in Amounts, UpdateProjectInvoice(u, n) PROVE Money'
  <2>1. /\ paid' = paid /\ offBooks' = offBooks /\ NoteOverlap(u)
        /\ revised' = (revised \/ inv.status # "approved")
    BY <1>6 DEF UpdateProjectInvoice
  <2>2. /\ inv'.net = n /\ inv'.withheld = inv.withheld
        /\ inv'.status = inv.status \/ (paid > 0 /\ inv'.status = PaidStatus(paid, n - inv.withheld))
        /\ inv.status = work[u].status /\ inv.status \in {"issued", "partial", "paid"} /\ paid > 0 =>
             inv'.status = PaidStatus(paid, n - inv.withheld)
    BY <1>0, <1>6, EditEffect
  <2>3. n \in Nat /\ n >= 1 /\ inv.status \in Statuses
    BY <1>0 DEF Amounts, InvType
  <2>4. PaidStatus(paid, n - inv.withheld) \in {"partial", "paid"}
    BY PaidStatusType
  <2>5. inv.status = "approved" => paid = 0 /\ inv'.status = "approved"
    BY <2>2 DEF Money
  <2>6. inv'.status = "approved" => inv.status = "approved"
    BY <2>2, <2>4
  <2>7. inv'.status \in {"partial", "paid"} \/ offBooks' => paid > 0
    <3>1. CASE inv'.status = inv.status
      BY <1>0, <2>1, <3>1 DEF Money
    <3>2. CASE paid > 0
      BY <3>2
    <3> QED
      BY <2>2, <3>1, <3>2
  <2>8. NeverOverpaid'
    <3>1. ASSUME ~revised' PROVE paid' <= inv'.net
      <4>1. paid = 0
        BY <2>1, <2>5, <3>1
      <4> QED
        BY <2>1, <2>2, <2>3, <4>1
    <3> QED
      BY <3>1 DEF NeverOverpaid
  <2>9. StatusTellsPaid'
    <3>1. SUFFICES ASSUME ~overlap' PROVE StatusTellsPaid'
      BY DEF StatusTellsPaid
    <3>2. work[u].status = inv.status
      BY <2>1, <3>1, InTime
    <3>3. CASE paid > 0
      <4>1. inv'.status = PaidStatus(paid, n - inv.withheld)
        BY <2>2, <2>3, <2>5, <3>2, <3>3 DEF Statuses
      <4> QED
        BY <1>0, <2>1, <2>2, <2>3, <3>3, <4>1 DEF StatusTellsPaid, PaidStatus, CashTarget
    <3>4. CASE paid = 0
      <4>1. inv'.status \in {"approved", "issued"}
        BY <2>2, <2>3, <3>4 DEF Money, Statuses
      <4> QED
        BY <2>1, <3>4, <4>1 DEF StatusTellsPaid
    <3> QED
      BY <1>0, <3>3, <3>4
  <2>10. inv'.status \in {"partial", "paid"} => revised'
    BY <2>1, <2>5
  <2> QED
    BY <2>1, <2>5, <2>6, <2>7, <2>8, <2>9, <2>10 DEF Money
<1>7. CASE UNCHANGED vars
  BY <1>7 DEF vars, Money, NeverOverpaid, StatusTellsPaid, Between, On, CashTarget
<1> QED
  BY <1>1, <1>2, <1>3, <1>4, <1>5, <1>6, <1>7, Steps

\* One receipt more credits the tax once more, one less once less.
LEMMA OnceMore ==
  ASSUME NEW n \in Nat, NEW w \in Nat
  PROVE  /\ (n + 1) * w = n * w + w /\ n * w \in Nat
         /\ (n - 1) * w = n * w - w
<1>1. ASSUME NEW m \in Int PROVE (m + 1) * w = m * w + w
  OBVIOUS
<1>2. (n - 1) + 1 = n /\ n - 1 \in Int
  OBVIOUS
<1>3. n * w = (n - 1) * w + w
  BY <1>1, <1>2
<1> DEFINE p == (n - 1) * w
<1>4. p \in Int
  BY <1>2
<1> HIDE DEF p
<1>5. p = (p + w) - w
  BY <1>4
<1>6. n * w = p + w
  BY <1>3 DEF p
<1>7. (n + 1) * w = n * w + w /\ n * w \in Nat
  BY <1>1
<1>8. p = n * w - w
  BY <1>5, <1>6
<1> QED
  BY <1>7, <1>8 DEF p

\* BooksSound is inductive, given Money.
LEMMA BooksStep == ASSUME TypeOK, WorkSound, Money, BooksSound, [Next]_vars PROVE BooksSound'
<1>0. /\ inv \in InvType /\ work \in [Users -> WorkType] /\ paid \in Nat
      /\ booked \in [debit : Nat, credit : Nat] /\ receipts \in Nat
      /\ inv.net \in Nat /\ inv.withheld \in Nat
  BY ConstantsAssumption DEF TypeOK, InvType, WorkType, Kinds, Amounts, ConstantsAssumption
<1>1. ASSUME Issue PROVE BooksSound'
  BY <1>0, <1>1, IssueEffect DEF Issue, BooksSound
<1>2. ASSUME NEW u \in Users, AskStep(u) PROVE BooksSound'
  BY <1>2, Asking DEF BooksSound
<1>3. ASSUME NEW u \in Users, Receive(u) PROVE BooksSound'
  <2>1. work[u].amount \in Nat /\ inv.status # "approved"
    BY <1>0, <1>3 DEF Receive, On, WorkSound, WorkType
  <2>2. /\ paid' = paid + work[u].amount /\ receipts' = receipts + 1
        /\ revised' = revised /\ offBooks' = offBooks
    BY <1>3 DEF Receive
  <2>3. /\ inv'.withheld = inv.withheld /\ inv'.net = inv.net
        /\ booked'.debit = booked.debit
        /\ booked'.credit = booked.credit + work[u].amount + inv.withheld
    BY <1>0, <1>3, ReceiveEffect DEF Receive
  <2>4. receipts' * inv'.withheld = receipts * inv.withheld + inv.withheld
    <3>1. (receipts + 1) * inv.withheld = receipts * inv.withheld + inv.withheld
      BY <1>0, OnceMore, Zenon
    <3> QED
      BY <2>2, <2>3, <3>1, Zenon
  <2>5. receipts * inv.withheld \in Nat
    BY <1>0, OnceMore
  <2>6. ~offBooks' => booked'.credit = paid' + receipts' * inv'.withheld
    <3>1. ASSUME ~offBooks' PROVE booked'.credit = paid' + (receipts * inv.withheld + inv.withheld)
      <4> DEFINE tax == receipts * inv.withheld
      <4>1. booked.credit = paid + tax
        BY <2>2, <3>1 DEF BooksSound
      <4>2. tax \in Nat
        BY <2>5
      <4> HIDE DEF tax
      <4>3. booked'.credit = paid' + (tax + inv.withheld)
        BY <1>0, <2>1, <2>2, <2>3, <4>1, <4>2
      <4> QED
        BY <4>3 DEF tax
    <3> QED
      BY <2>4, <3>1
  <2> QED
    BY <2>1, <2>2, <2>3, <2>6 DEF BooksSound
<1>4. ASSUME NEW u \in Users, RecordPayment(u) PROVE BooksSound'
  BY <1>4 DEF RecordPayment, BooksSound
<1>5. ASSUME NEW u \in Users, RecordPaymentStatus(u) PROVE BooksSound'
  <2>1. offBooks /\ inv.status # "approved"
    BY <1>5 DEF RecordPaymentStatus, On, WorkSound
  <2> QED
    BY <1>0, <1>5, <2>1, RecordedEffect DEF RecordPaymentStatus, BooksSound
<1>6. ASSUME NEW u \in Users, NEW n \in Amounts, UpdateProjectInvoice(u, n) PROVE BooksSound'
  <2>1. /\ UNCHANGED <<paid, booked, receipts, offBooks>> /\ inv'.withheld = inv.withheld
        /\ revised' = (revised \/ inv.status # "approved")
    BY <1>0, <1>6, EditEffect DEF UpdateProjectInvoice
  <2>2. inv.status = "approved" => inv'.status = "approved"
    BY <1>0, <1>6, EditEffect DEF Money
  <2> QED
    BY <2>1, <2>2 DEF BooksSound
<1>7. CASE UNCHANGED vars
  BY <1>7 DEF vars, BooksSound
<1> QED
  BY <1>1, <1>2, <1>3, <1>4, <1>5, <1>6, <1>7, Steps

-----------------------------------------------------------------------------
\* The invariant holds in every reachable state.
THEOREM InvAlways == Spec => []Inv
<1>1. Inv /\ [Next]_vars => Inv'
  BY TypeStep, WorkStep, MoneyStep, BooksStep DEF Inv
<1> QED
  BY InitInv, <1>1, PTL DEF Spec

\* Every reachable state is well typed.
THEOREM TypeCorrect == Spec => []TypeOK
<1>1. Inv => TypeOK
  BY DEF Inv
<1> QED
  BY InvAlways, <1>1, PTL

\* The status tells what was received, however often the invoice is edited,
\* unless a request wrote over another's change (payments.ts, updateProjectInvoice).
THEOREM StatusAlwaysTellsPaid == Spec => []StatusTellsPaid
<1>1. Inv => StatusTellsPaid
  BY DEF Inv, Money
<1> QED
  BY InvAlways, <1>1, PTL

\* Receipts take no more than the net, unless they overlapped or an edit
\* lowered it.
THEOREM AlwaysNeverOverpaid == Spec => []NeverOverpaid
<1>1. Inv => NeverOverpaid
  BY DEF Inv, Money
<1> QED
  BY InvAlways, <1>1, PTL

\* What the journals of a paid invoice's receipts credit is what its own journal
\* debited, and the withheld tax once more for each receipt after the first
\* (createPaymentJournal); so it is unless receipts overlapped, the invoice was
\* edited after its journal, or the gateway recorded a receipt.
THEOREM PaidAlwaysClearsReceivable == Spec => []PaidClearsReceivable
<1>1. Inv => PaidClearsReceivable
  <2> SUFFICES ASSUME Inv, inv.status = "paid", ~overlap, ~revised, ~offBooks
               PROVE  booked.credit = booked.debit + (receipts - 1) * inv.withheld
    BY DEF PaidClearsReceivable
  <2>1. /\ paid \in Nat /\ inv.net \in Nat /\ inv.withheld \in Nat /\ receipts \in Nat
        /\ booked.debit \in Nat /\ booked.credit \in Nat
    BY ConstantsAssumption DEF Inv, TypeOK, Amounts, ConstantsAssumption
  <2>2. ~Between
    BY DEF Inv, WorkSound, Between, On
  <2>3. paid = inv.net - inv.withheld
    BY <2>1, <2>2 DEF Inv, Money, StatusTellsPaid, CashTarget
  <2>4. booked.debit = inv.net
    BY DEF Inv, BooksSound
  <2>5. booked.credit = paid + receipts * inv.withheld
    BY DEF Inv, BooksSound
  <2>6. (receipts - 1) * inv.withheld = receipts * inv.withheld - inv.withheld
    BY <2>1, OnceMore
  <2> DEFINE tax == receipts * inv.withheld
  <2>7. tax \in Nat
    BY <2>1, OnceMore
  <2> HIDE DEF tax
  <2>8. booked.credit = booked.debit + (tax - inv.withheld)
    <3>1. booked.credit = paid + tax
      BY <2>5 DEF tax
    <3> QED
      BY <2>1, <2>3, <2>4, <2>7, <3>1
  <2> QED
    BY <2>6, <2>8 DEF tax
<1> QED
  BY InvAlways, <1>1, PTL
=============================================================================
