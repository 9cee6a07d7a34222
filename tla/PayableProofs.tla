---------------------------- MODULE PayableProofs ----------------------------
(***************************************************************************)
(* Theorems about Payable for every number of people and every bound on    *)
(* amounts, payments and overtaken writes.                                 *)
(***************************************************************************)
EXTENDS Payable, TLAPS

Kinds    == {"none", "edit", "submit", "reject", "cancel", "approved", "pay"}
InvType  == [status : Statuses, net : 0..MaxAmount, tax : 0..MaxTax, paid : Nat]
WorkType == [op : Kinds, status : Statuses, net : 0..MaxAmount, tax : 0..MaxTax,
             paid : Nat, amount : 0..MaxAmount]

\* A request has read an invoice that is there, in a status its handler takes;
\* what it pays fitted into what was left.
WorkSound ==
  \A u \in Users :
    LET w == work[u] IN
    /\ w.op # "none" => inv.status # "absent" /\ w.net >= 1
    /\ w.op \in {"edit", "submit"} => w.status = "draft"
    /\ w.op = "reject" => w.status = "submitted"
    /\ w.op = "cancel" => w.status \in {"draft", "submitted"}
    /\ w.op = "pay" => /\ w.status \in {"approved", "partially_paid"}
                       /\ 1 <= w.amount /\ w.amount <= w.net - w.paid

\* An invoice that is there has an amount.
InvSound == inv.status # "absent" => inv.net >= 1

\* Until something is overtaken, nothing was paid before the first payment.
Unpaid ==
  stale = {} /\ inv.status \in {"absent", "draft", "submitted", "approved", "cancelled"} =>
    rows = 0 /\ payments = 0 /\ booked.debit = 0

\* What was paid agrees with the invoice.
Money ==
  /\ InvSound /\ Unpaid /\ PaidOnce /\ StatusTellsPaid
  /\ inv.status = "absent" => inv.paid = 0

-----------------------------------------------------------------------------
(* The steps, in groups.                                                   *)

AskStep(u) ==
  \/ AskEdit(u) \/ AskSubmit(u) \/ AskReject(u) \/ AskCancel(u)
  \/ \E a \in Amounts : AskPay(u, a)

WriteStep(u) ==
  \/ \E n \in Amounts, w \in 0..MaxTax : Edit(u, n, w)
  \/ Submit(u) \/ Reject(u) \/ Cancel(u)

\* Next is the sum of the groups.
LEMMA Steps ==
  Next => \/ \E n \in Amounts, w \in 0..MaxTax : Create(n, w)
          \/ \E u \in Users : \/ AskStep(u) \/ WriteStep(u) \/ Approve(u)
                              \/ RequestJournal(u) \/ Pay(u)
          \/ Stop
  BY DEF Next, AskStep, WriteStep

\* At first there is nothing.
LEMMA InitSound == Init => TypeOK /\ WorkSound /\ Money
<1> SUFFICES ASSUME Init PROVE TypeOK /\ WorkSound /\ Money
  OBVIOUS
<1> USE ConstantsAssumption DEF ConstantsAssumption
<1>1. TypeOK
  <2>1. "absent" \in Statuses
    BY DEF Statuses
  <2>2. NoWork \in WorkType /\ inv \in InvType
    BY <2>1 DEF Init, NoWork, WorkType, Kinds, InvType
  <2>3. work \in [Users -> WorkType]
    BY <2>2 DEF Init
  <2>4. booked \in [debit : Nat, credit : Nat]
    BY DEF Init
  <2>5. /\ rows \in Nat /\ payments \in 0..MaxPayments /\ journals \in Nat
        /\ stale = {} /\ late \in 0..MaxLate
    BY DEF Init
  <2>6. lost \in BOOLEAN
    BY DEF Init
  <2> QED
    BY <2>2, <2>3, <2>4, <2>5, <2>6 DEF TypeOK, WorkType, InvType, Kinds
<1>2. WorkSound
  BY DEF Init, WorkSound, NoWork
<1>3. InvSound /\ Unpaid /\ PaidOnce /\ StatusTellsPaid /\ inv.paid = 0
  BY DEF Init, InvSound, Unpaid, PaidOnce, StatusTellsPaid
<1> QED
  BY <1>1, <1>2, <1>3 DEF Money

-----------------------------------------------------------------------------
(* Types.                                                                  *)

\* A share of the tax is a natural number.
LEMMA ShareIsNatural ==
  ASSUME NEW a \in Nat, NEW net \in Nat \ {0}, NEW tax \in Nat
  PROVE  ProportionalTax(a, net, tax) \in Nat
<1> DEFINE x == 2 * a * tax + net
           y == 2 * net
<1>1. a * tax \in Nat
  OBVIOUS
<1>2. x \in Nat /\ y \in Nat /\ y > 0
  BY <1>1
<1> HIDE DEF x, y
<1>3. x \div y \in Nat
  BY <1>2
<1> QED
  BY <1>3 DEF ProportionalTax, x, y

\* A request that ends, and one that reads the invoice, keep the types.
LEMMA WorkTypes ==
  ASSUME inv \in InvType, work \in [Users -> WorkType], NEW u \in Users
  PROVE  /\ Rest(u) => work' \in [Users -> WorkType]
         /\ \A op \in Kinds, a \in 0..MaxAmount : Reads(u, op, a) => work' \in [Users -> WorkType]
<1>1. NoWork \in WorkType
  BY ConstantsAssumption DEF ConstantsAssumption, NoWork, WorkType, Kinds, Statuses
<1>2. ASSUME NEW op \in Kinds, NEW a \in 0..MaxAmount
      PROVE  [op |-> op, status |-> inv.status, net |-> inv.net, tax |-> inv.tax,
              paid |-> inv.paid, amount |-> a] \in WorkType
  BY DEF InvType, WorkType
<1> QED
  BY <1>1, <1>2 DEF Rest, Reads

\* Entries of the invoice stay in its type.
LEMMA InvSets ==
  ASSUME NEW i \in InvType
  PROVE  /\ \A s \in Statuses : [i EXCEPT !.status = s] \in InvType
         /\ \A n \in 0..MaxAmount, w \in 0..MaxTax : [i EXCEPT !.net = n, !.tax = w] \in InvType
         /\ \A s \in Statuses, n \in 0..MaxAmount, w \in 0..MaxTax :
              [i EXCEPT !.status = s, !.net = n, !.tax = w] \in InvType
         /\ \A s \in Statuses, p \in Nat : [i EXCEPT !.paid = p, !.status = s] \in InvType
  BY DEF InvType

\* What is noted of an overtaken request.
LEMMA Noted ==
  ASSUME TypeOK, NEW u \in Users, NoteStale(u), work[u].op \in {"edit", "submit", "reject", "cancel", "pay"}
  PROVE  /\ stale' \subseteq {"edit", "submit", "reject", "cancel", "pay"}
         /\ late' \in 0..MaxLate /\ lost' = lost
         /\ stale \subseteq stale'
         /\ Overtaken(u) => work[u].op \in stale'
         /\ \A op \in {"submit", "reject"} : op \in stale' /\ op \notin stale => work[u].op = op
<1>1. late' = late \/ late' = late + 1
  BY DEF NoteStale
<1>2. late \in 0..MaxLate /\ MaxLate \in Nat
  BY ConstantsAssumption DEF ConstantsAssumption, TypeOK
<1>3. late' \in 0..MaxLate
  BY <1>1, <1>2 DEF NoteStale
<1> QED
  BY <1>3 DEF NoteStale, TypeOK

\* TypeOK is inductive, given what requests have read.
LEMMA TypeStep == ASSUME TypeOK, WorkSound, [Next]_vars PROVE TypeOK'
<1> USE ConstantsAssumption DEF ConstantsAssumption, Amounts
<1>0. /\ inv \in InvType /\ work \in [Users -> WorkType]
      /\ rows \in Nat /\ payments \in 0..MaxPayments /\ journals \in Nat
      /\ booked \in [debit : Nat, credit : Nat]
  BY DEF TypeOK, InvType, WorkType, Kinds
<1>1. ASSUME NEW n \in Amounts, NEW w \in 0..MaxTax, Create(n, w) PROVE TypeOK'
  <2>1. inv' \in InvType
    <3>1. "draft" \in Statuses /\ n \in 0..MaxAmount
      BY DEF Statuses
    <3> QED
      BY <1>0, <1>1, <3>1, InvSets DEF Create
  <2> QED
    BY <1>1, <2>1 DEF Create, TypeOK, InvType, money, history
<1>2. ASSUME NEW u \in Users, AskStep(u) PROVE TypeOK'
  <2>1. work' \in [Users -> WorkType]
    BY <1>0, <1>2, WorkTypes DEF AskStep, AskEdit, AskSubmit, AskReject, AskCancel, AskPay, Asks, Kinds
  <2>2. UNCHANGED <<inv, rows, payments, journals, booked, stale, late, lost>>
    BY <1>2 DEF AskStep, AskEdit, AskSubmit, AskReject, AskCancel, AskPay, Asks
  <2> QED
    BY <2>1, <2>2 DEF TypeOK, WorkType, Kinds
<1>3. ASSUME NEW u \in Users, WriteStep(u) PROVE TypeOK'
  <2>1. inv' \in InvType
    <3>1. {"draft", "submitted", "cancelled"} \subseteq Statuses
      BY DEF Statuses
    <3>2. \A n \in Amounts : n \in 0..MaxAmount
      OBVIOUS
    <3>3. \/ \E n \in Amounts, w \in 0..MaxTax : inv' = [inv EXCEPT !.net = n, !.tax = w]
          \/ \E s \in {"draft", "submitted", "cancelled"} : inv' = [inv EXCEPT !.status = s]
      BY <1>3 DEF WriteStep, Edit, Submit, Reject, Cancel, SetStatus
    <3>4. ASSUME NEW s \in {"draft", "submitted", "cancelled"}, inv' = [inv EXCEPT !.status = s]
          PROVE  inv' \in InvType
      BY <1>0, <3>1, <3>4, InvSets
    <3>5. ASSUME NEW n \in Amounts, NEW w \in 0..MaxTax, inv' = [inv EXCEPT !.net = n, !.tax = w]
          PROVE  inv' \in InvType
      BY <1>0, <3>2, <3>5, InvSets
    <3> QED
      BY <3>3, <3>4, <3>5
  <2>2. /\ NoteStale(u) /\ Rest(u) /\ UNCHANGED <<journals, rows, payments, booked>>
        /\ work[u].op \in {"edit", "submit", "reject", "cancel"}
    BY <1>3 DEF WriteStep, Edit, Submit, Reject, Cancel, SetStatus, On, money
  <2> QED
    BY <1>0, <2>1, <2>2, WorkTypes, Noted DEF TypeOK, InvType, WorkType, Kinds
<1>4. ASSUME NEW u \in Users, Approve(u) PROVE TypeOK'
  <2>1. inv' \in InvType /\ work' \in [Users -> WorkType]
    <3>1. "approved" \in Statuses /\ "approved" \in Kinds /\ 0 \in 0..MaxAmount
      BY DEF Statuses, Owed, Kinds
    <3> QED
      BY <1>0, <1>4, <3>1, InvSets, WorkTypes DEF Approve
  <2> QED
    BY <1>4, <2>1 DEF Approve, TypeOK, InvType, WorkType, Kinds, money, history
<1>5. ASSUME NEW u \in Users, RequestJournal(u) PROVE TypeOK'
  <2>1. work' \in [Users -> WorkType] /\ work[u].net \in Nat /\ work[u].tax \in Nat
    BY <1>0, <1>5, WorkTypes DEF RequestJournal, WorkType
  <2> QED
    BY <1>0, <1>5, <2>1 DEF RequestJournal, TypeOK, WorkType, Kinds, history
<1>6. ASSUME NEW u \in Users, Pay(u) PROVE TypeOK'
  <2>1. /\ work[u].op = "pay" /\ work[u].amount \in Nat /\ work[u].paid \in Nat
        /\ work[u].net \in Nat \ {0} /\ work[u].tax \in Nat
    BY <1>0, <1>6 DEF Pay, On, WorkSound, WorkType
  <2>2. inv' \in InvType
    <3>1. work[u].paid + work[u].amount \in Nat
      BY <2>1
    <3>2. "paid" \in Statuses /\ "partially_paid" \in Statuses
      BY DEF Statuses, Owed
    <3> QED
      BY <1>0, <1>6, <3>1, <3>2, InvSets DEF Pay
  <2>3. booked' \in [debit : Nat, credit : Nat]
    <3>1. ProportionalTax(work[u].amount, work[u].net, work[u].tax) \in Nat
      BY <2>1, ShareIsNatural
    <3> QED
      BY <1>0, <1>6, <2>1, <3>1 DEF Pay
  <2>4. rows' \in Nat /\ payments' \in 0..MaxPayments /\ journals' = journals
    BY <1>0, <1>6, <2>1 DEF Pay
  <2>5. NoteStale(u) /\ Rest(u)
    BY <1>6 DEF Pay
  <2> QED
    BY <1>0, <2>1, <2>2, <2>3, <2>4, <2>5, WorkTypes, Noted DEF TypeOK, InvType, WorkType, Kinds
<1>7. ASSUME Stop PROVE TypeOK'
  BY <1>7 DEF Stop, TypeOK, NoWork, money, Statuses
<1>8. CASE UNCHANGED vars
  BY <1>8 DEF vars, TypeOK
<1> QED
  BY <1>1, <1>2, <1>3, <1>4, <1>5, <1>6, <1>7, <1>8, Steps
-----------------------------------------------------------------------------
(* What is paid.                                                           *)

\* Requests that end leave the others with what they have read, if the invoice
\* is still there.
LEMMA WorkRests ==
  ASSUME work \in [Users -> WorkType], WorkSound, NEW u \in Users, Rest(u), inv'.status # "absent"
  PROVE  WorkSound'
  BY DEF WorkSound, Rest, NoWork, WorkType

\* WorkSound is inductive, given InvSound.
LEMMA WorkStep == ASSUME TypeOK, WorkSound, InvSound, [Next]_vars PROVE WorkSound'
<1> USE ConstantsAssumption DEF ConstantsAssumption, Amounts
<1>0. inv \in InvType /\ work \in [Users -> WorkType]
  BY DEF TypeOK, InvType, WorkType, Kinds
<1>1. ASSUME NEW n \in Amounts, NEW w \in 0..MaxTax, Create(n, w) PROVE WorkSound'
  BY <1>1 DEF Create, WorkSound
<1>2. ASSUME NEW u \in Users, AskStep(u) PROVE WorkSound'
  <2>1. PICK op \in {"edit", "submit", "reject", "cancel", "pay"}, a \in 0..MaxAmount :
          /\ Reads(u, op, a) /\ inv' = inv /\ inv.status # "absent"
          /\ op \in {"edit", "submit"} => inv.status = "draft"
          /\ op = "reject" => inv.status = "submitted"
          /\ op = "cancel" => inv.status \in {"draft", "submitted"}
          /\ op = "pay" => /\ inv.status \in {"approved", "partially_paid"}
                          /\ 1 <= a /\ a <= inv.net - inv.paid
    BY <1>2 DEF AskStep, AskEdit, AskSubmit, AskReject, AskCancel, AskPay, Asks
  <2>2. work'[u] = [op |-> op, status |-> inv.status, net |-> inv.net, tax |-> inv.tax,
                    paid |-> inv.paid, amount |-> a]
    BY <1>0, <2>1 DEF Reads
  <2>3. \A v \in Users \ {u} : work'[v] = work[v]
    BY <1>0, <2>1 DEF Reads
  <2> QED
    BY <2>1, <2>2, <2>3 DEF WorkSound, InvSound
<1>3. ASSUME NEW u \in Users, WriteStep(u) PROVE WorkSound'
  <2>1. Rest(u) /\ inv'.status # "absent"
    BY <1>0, <1>3 DEF WriteStep, Edit, Submit, Reject, Cancel, SetStatus, On, WorkSound, InvType
  <2> QED
    BY <1>0, <2>1, WorkRests
<1>4. ASSUME NEW u \in Users, Approve(u) PROVE WorkSound'
  <2>1. work'[u] = [op |-> "approved", status |-> inv.status, net |-> inv.net, tax |-> inv.tax,
                    paid |-> inv.paid, amount |-> 0]
    BY <1>0, <1>4 DEF Approve, Reads
  <2>2. \A v \in Users \ {u} : work'[v] = work[v]
    BY <1>0, <1>4 DEF Approve, Reads
  <2>3. inv.status = "submitted" /\ inv'.status = "approved"
    BY <1>0, <1>4 DEF Approve, InvType
  <2> QED
    BY <2>1, <2>2, <2>3 DEF WorkSound, InvSound
<1>5. ASSUME NEW u \in Users, RequestJournal(u) PROVE WorkSound'
  BY <1>0, <1>5, WorkRests DEF RequestJournal, WorkSound, On
<1>6. ASSUME NEW u \in Users, Pay(u) PROVE WorkSound'
  <2>1. inv'.status # "absent" /\ Rest(u)
    BY <1>0, <1>6 DEF Pay, InvType
  <2> QED
    BY <1>0, <2>1, WorkRests
<1>7. ASSUME Stop PROVE WorkSound'
  BY <1>7 DEF Stop, WorkSound, NoWork
<1>8. CASE UNCHANGED vars
  BY <1>8 DEF vars, WorkSound
<1> QED
  BY <1>1, <1>2, <1>3, <1>4, <1>5, <1>6, <1>7, <1>8, Steps

\* A step that was not overtaken has seen the invoice as it is.
LEMMA InTime ==
  ASSUME NEW u \in Users, NoteStale(u)
  PROVE  /\ stale' = {} => stale = {} /\ work[u].status = inv.status
         /\ work[u].op = "pay" /\ "pay" \notin stale' =>
              "pay" \notin stale /\ work[u].net = inv.net /\ work[u].tax = inv.tax /\ work[u].paid = inv.paid
  BY DEF NoteStale, Overtaken

\* Money is inductive, given types and requests.
LEMMA MoneyStep == ASSUME TypeOK, TypeOK', WorkSound, Money, [Next]_vars PROVE Money'
<1> USE ConstantsAssumption DEF ConstantsAssumption, Amounts, Money
<1>0. /\ inv \in InvType /\ work \in [Users -> WorkType] /\ rows \in Nat /\ payments \in Nat
      /\ booked \in [debit : Nat, credit : Nat] /\ inv'.net \in Nat
  BY DEF TypeOK, InvType, WorkType, Kinds
<1>1. ASSUME NEW n \in Amounts, NEW w \in 0..MaxTax, Create(n, w) PROVE Money'
  <2>1. /\ inv'.status = "draft" /\ inv'.net = n /\ inv'.paid = inv.paid
        /\ UNCHANGED <<rows, payments, booked, stale>> /\ inv.status = "absent"
    BY <1>0, <1>1 DEF Create, InvType, money, history
  <2> QED
    BY <1>0, <2>1 DEF InvSound, Unpaid, PaidOnce, StatusTellsPaid
<1>2. ASSUME NEW u \in Users, AskStep(u) PROVE Money'
  BY <1>2 DEF AskStep, AskEdit, AskSubmit, AskReject, AskCancel, AskPay, Asks, InvSound, Unpaid,
              PaidOnce, StatusTellsPaid
<1>3. ASSUME NEW u \in Users, WriteStep(u) PROVE Money'
  <2>1. /\ NoteStale(u) /\ UNCHANGED <<rows, payments, booked>> /\ inv'.paid = inv.paid
        /\ \/ /\ inv'.status = inv.status /\ inv'.net >= 1 /\ work[u].op = "edit"
           \/ /\ inv'.status \in {"draft", "submitted", "cancelled"} /\ inv'.net = inv.net
              /\ work[u].op \in {"submit", "reject", "cancel"}
    <3>1. ASSUME NEW n \in Amounts, NEW w \in 0..MaxTax, Edit(u, n, w)
          PROVE  inv'.status = inv.status /\ inv'.paid = inv.paid /\ inv'.net >= 1
      BY <1>0, <3>1 DEF Edit, InvType
    <3>2. ASSUME NEW op, NEW s, SetStatus(u, op, s)
          PROVE  inv'.status = s /\ inv'.paid = inv.paid /\ inv'.net = inv.net
      BY <1>0, <3>2 DEF SetStatus, InvType
    <3> QED
      BY <1>3, <3>1, <3>2 DEF WriteStep, Edit, Submit, Reject, Cancel, SetStatus, On, money
  <2>2. work[u].status \in {"draft", "submitted"} /\ inv.status # "absent"
    BY <2>1 DEF WorkSound
  <2>3. "pay" \in stale => "pay" \in stale'
    BY <2>1 DEF NoteStale
  <2>4. inv'.net >= 1 /\ inv'.status # "absent"
    BY <2>1, <2>2 DEF InvSound
  <2>5. CASE stale' = {}
    <3>1. stale = {} /\ inv.status \in {"draft", "submitted"}
      BY <2>1, <2>2, <2>5, InTime
    <3>2. rows = 0 /\ payments = 0 /\ booked.debit = 0 /\ inv.paid = 0
      BY <3>1 DEF Unpaid, StatusTellsPaid
    <3> QED
      BY <1>0, <2>1, <2>4, <3>1, <3>2 DEF InvSound, Unpaid, PaidOnce, StatusTellsPaid
  <2>6. CASE stale' # {}
    BY <2>1, <2>3, <2>4, <2>6 DEF InvSound, Unpaid, PaidOnce, StatusTellsPaid
  <2> QED
    BY <2>5, <2>6
<1>4. ASSUME NEW u \in Users, Approve(u) PROVE Money'
  <2>1. /\ inv.status = "submitted" /\ inv'.status = "approved"
        /\ inv'.net = inv.net /\ inv'.paid = inv.paid
        /\ UNCHANGED <<rows, payments, booked, stale>>
    BY <1>0, <1>4 DEF Approve, InvType, money, history
  <2> QED
    BY <1>0, <2>1 DEF InvSound, Unpaid, PaidOnce, StatusTellsPaid
<1>5. ASSUME NEW u \in Users, RequestJournal(u) PROVE Money'
  <2>1. UNCHANGED <<inv, rows, payments, stale>> /\ booked'.debit = booked.debit
    BY <1>0, <1>5 DEF RequestJournal, history
  <2> QED
    BY <2>1 DEF InvSound, Unpaid, PaidOnce, StatusTellsPaid
<1>6. ASSUME NEW u \in Users, Pay(u) PROVE Money'
  <2>1. /\ NoteStale(u) /\ work[u].op = "pay"
        /\ work[u].amount \in Nat /\ work[u].paid \in Nat /\ work[u].net \in Nat
        /\ inv.paid \in Nat /\ inv.net \in Nat
    BY <1>0, <1>6 DEF Pay, On, WorkType, InvType
  <2>2. /\ inv.status # "absent" /\ work[u].status \in {"approved", "partially_paid"}
        /\ 1 <= work[u].amount /\ work[u].amount <= work[u].net - work[u].paid
    BY <2>1 DEF WorkSound
  <2>3. /\ inv'.net = inv.net /\ inv'.paid = work[u].paid + work[u].amount
        /\ inv'.status = IF work[u].paid + work[u].amount >= work[u].net THEN "paid" ELSE "partially_paid"
        /\ rows' = rows + work[u].amount
    BY <1>0, <1>6 DEF Pay, InvType
  <2>4. "pay" \notin stale' => inv'.paid = rows'
    BY <2>1, <2>3, InTime DEF PaidOnce
  <2>5. ASSUME stale' = {} PROVE rows' <= inv'.net /\ StatusTellsPaid'
    <3>1. /\ stale = {} /\ work[u].net = inv.net /\ work[u].paid = inv.paid
      BY <2>1, <2>5, InTime
    <3>2. inv.paid = rows
      BY <3>1 DEF PaidOnce
    <3> QED
      BY <1>0, <2>1, <2>2, <2>3, <3>1, <3>2 DEF StatusTellsPaid
  <2> QED
    BY <2>2, <2>3, <2>4, <2>5 DEF InvSound, Unpaid, PaidOnce, StatusTellsPaid
<1>7. ASSUME Stop PROVE Money'
  BY <1>7 DEF Stop, InvSound, Unpaid, PaidOnce, StatusTellsPaid, money
<1>8. CASE UNCHANGED vars
  BY <1>8 DEF vars, InvSound, Unpaid, PaidOnce, StatusTellsPaid
<1> QED
  BY <1>1, <1>2, <1>3, <1>4, <1>5, <1>6, <1>7, <1>8, Steps

-----------------------------------------------------------------------------
(* One journal for an approval.                                            *)

Reopened == stale \cap {"submit", "reject"} # {}
Asked    == journals > 0 \/ Approving \/ lost

\* What is owed or being paid was approved, and its journal asked for or lost;
\* what was approved comes before a second approval only when it is reopened.
Journaled ==
  /\ inv.status \in Owed => Asked
  /\ \A u \in Users : On(u, "pay") => Asked
  /\ Asked => Reopened \/ inv.status \in Owed \cup {"cancelled"}
  /\ Asked => stale # {} \/ inv.status \in Owed
  /\ ~Reopened => /\ journals <= 1 /\ (journals = 1 => ~Approving)
                  /\ \A u, v \in Users : On(u, "approved") /\ On(v, "approved") => u = v

\* The property is part of it.
LEMMA JournaledSuffices == ASSUME TypeOK, Journaled PROVE JournalPerApproval
<1>0. journals \in Nat
  BY DEF TypeOK
<1>1. journals > 1 => Reopened
  BY <1>0 DEF Journaled
<1>2. inv.status \in Owed /\ ~Approving /\ ~lost => journals > 0
  BY DEF Journaled, Asked
<1>3. stale = {} /\ journals > 0 => inv.status \in Owed
  BY DEF Journaled, Asked
<1> QED
  BY <1>1, <1>2, <1>3 DEF JournalPerApproval, Reopened

\* A step that asks nothing of the journals and leaves who is approving.
LEMMA JournaledKept ==
  ASSUME Journaled, UNCHANGED <<journals, lost>>, stale \subseteq stale',
         \A u \in Users : On(u, "approved")' <=> On(u, "approved"),
         \A u \in Users : On(u, "pay")' => On(u, "pay") \/ inv.status \in Owed,
         inv'.status \in Owed => inv.status \in Owed \/ \E u \in Users : On(u, "pay"),
         Asked => Reopened' \/ inv'.status \in Owed \cup {"cancelled"},
         Asked => stale' # {} \/ inv'.status \in Owed
  PROVE  Journaled'
<1>1. Approving' <=> Approving
  BY DEF Approving
<1>2. Asked' <=> Asked
  BY <1>1 DEF Asked
<1>3. Reopened => Reopened'
  BY DEF Reopened
<1> QED
  BY <1>1, <1>2, <1>3 DEF Journaled

\* Journaled is inductive, given types and requests.
LEMMA JournaledStep == ASSUME TypeOK, WorkSound, Journaled, [Next]_vars PROVE Journaled'
<1>0. /\ inv \in InvType /\ work \in [Users -> WorkType] /\ journals \in Nat
  BY DEF TypeOK, InvType, WorkType, Kinds
<1>1. ASSUME NEW n \in Amounts, NEW w \in 0..MaxTax, Create(n, w) PROVE Journaled'
  <2>1. /\ inv'.status = "draft" /\ inv.status = "absent"
        /\ UNCHANGED <<work, journals, stale, lost>>
    BY <1>0, <1>1 DEF Create, InvType, history
  <2>2. Asked => Reopened
    BY <2>1 DEF Journaled, Owed
  <2> QED
    BY <2>1, <2>2, JournaledKept DEF Owed, On, Reopened
<1>2. ASSUME NEW u \in Users, AskStep(u) PROVE Journaled'
  <2>1. PICK op \in {"edit", "submit", "reject", "cancel", "pay"}, a \in Int :
          /\ Idle(u) /\ Reads(u, op, a) /\ UNCHANGED <<inv, journals, stale, lost>>
          /\ op = "pay" => inv.status \in Owed
    BY <1>2 DEF AskStep, AskEdit, AskSubmit, AskReject, AskCancel, AskPay, Asks, Owed, Amounts
  <2>2. work'[u].op = op /\ work[u].op = "none" /\ \A v \in Users \ {u} : work'[v] = work[v]
    BY <1>0, <2>1 DEF Reads, Idle
  <2> QED
    BY <2>1, <2>2, JournaledKept DEF On, Journaled, Reopened
<1>3. ASSUME NEW u \in Users, WriteStep(u) PROVE Journaled'
  <2>1. PICK op \in {"edit", "submit", "reject", "cancel"} :
          /\ On(u, op) /\ NoteStale(u) /\ Rest(u) /\ UNCHANGED journals
          /\ op = "edit" => inv'.status = inv.status
          /\ op = "submit" => inv'.status = "submitted"
          /\ op = "reject" => inv'.status = "draft"
          /\ op = "cancel" => inv'.status = "cancelled"
    BY <1>0, <1>3 DEF WriteStep, Edit, Submit, Reject, Cancel, SetStatus, InvType
  <2>2. work'[u].op = "none" /\ work[u].op = op /\ \A v \in Users \ {u} : work'[v] = work[v]
    BY <1>0, <2>1 DEF Rest, NoWork, On
  <2>3. lost' = lost /\ stale \subseteq stale' /\ (work[u].status # inv.status => op \in stale')
    BY <2>1 DEF NoteStale, Overtaken, On
  <2>4. work[u].status \in {"draft", "submitted"}
    BY <2>1, <2>2 DEF WorkSound
  <2>5. CASE work[u].status = inv.status
    <3>1. Asked => Reopened
      BY <2>4, <2>5 DEF Journaled, Owed
    <3>2. Reopened => Reopened' /\ stale' # {}
      BY <2>3 DEF Reopened
    <3>3. inv'.status \notin Owed
      BY <2>1, <2>4, <2>5 DEF Owed
    <3> QED
      BY <2>1, <2>2, <2>3, <3>1, <3>2, <3>3, JournaledKept DEF On
  <2>6. CASE work[u].status # inv.status
    <3>1. stale' # {} /\ (op \in {"submit", "reject"} => Reopened') /\ (Reopened => Reopened')
      BY <2>3, <2>6 DEF Reopened
    <3>2. Asked => Reopened' \/ inv'.status \in Owed \cup {"cancelled"}
      BY <2>1, <3>1 DEF Journaled
    <3>3. inv'.status \in Owed => inv.status \in Owed
      BY <2>1 DEF Owed
    <3> QED
      BY <2>1, <2>2, <2>3, <3>1, <3>2, <3>3, JournaledKept DEF On
  <2> QED
    BY <2>5, <2>6
<1>4. ASSUME NEW u \in Users, Approve(u) PROVE Journaled'
  <2>1. /\ inv.status = "submitted" /\ inv'.status = "approved"
        /\ UNCHANGED <<journals, stale, lost>>
        /\ work'[u].op = "approved" /\ \A v \in Users \ {u} : work'[v] = work[v]
    BY <1>0, <1>4 DEF Approve, InvType, history, Reads
  <2>2. Asked => Reopened
    BY <2>1 DEF Journaled, Owed
  <2>3. Approving' /\ Asked'
    BY <2>1 DEF Approving, Asked, On
  <2>4. ~Reopened => journals = 0 /\ \A v \in Users : ~On(v, "approved")
    BY <1>0, <2>2 DEF Asked, Approving
  <2>5. Reopened' <=> Reopened
    BY <2>1 DEF Reopened
  <2>6. ~Reopened' => \A x, v \in Users : On(x, "approved")' /\ On(v, "approved")' => x = v
    BY <2>1, <2>4, <2>5 DEF On
  <2> QED
    BY <2>1, <2>3, <2>4, <2>5, <2>6 DEF Journaled, Owed
<1>5. ASSUME NEW u \in Users, RequestJournal(u) PROVE Journaled'
  <2>1. /\ work[u].op = "approved" /\ journals' = journals + 1 /\ UNCHANGED <<inv, stale, lost>>
        /\ work'[u].op = "none" /\ \A v \in Users \ {u} : work'[v] = work[v]
    BY <1>0, <1>5 DEF RequestJournal, history, Rest, NoWork, On
  <2>2. Asked /\ Asked' /\ (Reopened' <=> Reopened)
    BY <1>0, <2>1 DEF Asked, Approving, On, Reopened
  <2>3. ~Reopened => journals = 0 /\ \A v \in Users \ {u} : work[v].op # "approved"
    BY <1>0, <2>1 DEF Journaled, Approving, On
  <2>4. ~Reopened => journals' = 1 /\ ~Approving' /\ \A v \in Users : ~On(v, "approved")'
    BY <2>1, <2>3 DEF Approving, On
  <2> QED
    BY <2>1, <2>2, <2>4 DEF Journaled
<1>6. ASSUME NEW u \in Users, Pay(u) PROVE Journaled'
  <2>1. /\ work[u].op = "pay" /\ inv'.status \in Owed /\ NoteStale(u) /\ UNCHANGED journals
        /\ work'[u].op = "none" /\ \A v \in Users \ {u} : work'[v] = work[v]
    BY <1>0, <1>6 DEF Pay, On, Rest, NoWork, InvType, Owed
  <2>2. lost' = lost /\ stale \subseteq stale'
    BY <2>1 DEF NoteStale
  <2> QED
    BY <2>1, <2>2, JournaledKept DEF On
<1>7. ASSUME Stop PROVE Journaled'
  <2>1. /\ \A v \in Users : work'[v].op = "none"
        /\ lost' = TRUE /\ Approving /\ UNCHANGED <<inv, journals, stale>>
    BY <1>7 DEF Stop, Approving, NoWork, money
  <2>2. Asked /\ Asked' /\ (Reopened' <=> Reopened) /\ ~Approving'
    BY <2>1 DEF Asked, Reopened, Approving, On
  <2>3. ~Reopened => journals' <= 1
    BY <2>1 DEF Journaled
  <2> QED
    BY <2>1, <2>2, <2>3 DEF Journaled, On
<1>8. CASE UNCHANGED vars
  <2>1. UNCHANGED <<inv, work, journals, lost, stale>>
    BY <1>8 DEF vars
  <2> QED
    BY <2>1 DEF Journaled, On, Asked, Approving, Reopened
<1> QED
  BY <1>1, <1>2, <1>3, <1>4, <1>5, <1>6, <1>7, <1>8, Steps

-----------------------------------------------------------------------------
(* The payable in the books.                                               *)

\* The debits beyond what was paid: the tax.
TaxBooked == booked.debit - rows

\* Until something is overtaken, the journal books the invoice, and each
\* payment its share of the tax, to half a cent.
BooksSound ==
  stale = {} =>
    /\ \A u \in Users : On(u, "approved") => work[u].net = inv.net /\ work[u].tax = inv.tax
    /\ journals = 0 => booked.credit = 0
    /\ journals = 1 => booked.credit = inv.net + inv.tax
    /\ 2 * (inv.net * TaxBooked) - 2 * (rows * inv.tax) <= inv.net * payments
    /\ 2 * (rows * inv.tax) - 2 * (inv.net * TaxBooked) <= inv.net * payments

\* Rounding a quotient is off by half a unit at most.
LEMMA Rounded ==
  ASSUME NEW a \in Nat, NEW net \in Nat \ {0}, NEW tax \in Nat
  PROVE  LET q == ProportionalTax(a, net, tax)
         IN  /\ 2 * (net * q) - 2 * (a * tax) <= net
             /\ 2 * (a * tax) - 2 * (net * q) <= net
<1> DEFINE x == 2 * a * tax + net
           y == 2 * net
           q == x \div y
<1>1. x \in Nat /\ y \in Nat \ {0} /\ a * tax \in Nat
  <2>1. a * tax \in Nat
    OBVIOUS
  <2> QED
    BY <2>1
<1>2. q \in Int /\ y * q <= x /\ x < y * q + y
  <2> HIDE DEF x, y
  <2> QED
    BY <1>1
<1>3. y * q = 2 * (net * q) /\ x = 2 * (a * tax) + net
  <2> HIDE DEF q
  <2> QED
    BY <1>2
<1>4. net * q \in Int
  <2> HIDE DEF q
  <2> QED
    BY <1>2
<1> HIDE DEF q, x
<1>5. 2 * (net * q) - 2 * (a * tax) <= net /\ 2 * (a * tax) - 2 * (net * q) <= net
  BY <1>1, <1>2, <1>3, <1>4
<1> QED
  BY <1>5 DEF ProportionalTax, q, x, y

\* One more payment adds its share, and its rounding.
LEMMA RoundingAdds ==
  ASSUME NEW net \in Nat, NEW tax \in Nat, NEW t \in Int, NEW q \in Nat,
         NEW r \in Nat, NEW a \in Nat, NEW k \in Nat,
         2 * (net * t) - 2 * (r * tax) <= net * k, 2 * (r * tax) - 2 * (net * t) <= net * k,
         2 * (net * q) - 2 * (a * tax) <= net, 2 * (a * tax) - 2 * (net * q) <= net
  PROVE  /\ 2 * (net * (t + q)) - 2 * ((r + a) * tax) <= net * (k + 1)
         /\ 2 * ((r + a) * tax) - 2 * (net * (t + q)) <= net * (k + 1)
<1>1. /\ net * (t + q) = net * t + net * q
      /\ (r + a) * tax = r * tax + a * tax
      /\ net * (k + 1) = net * k + net
  OBVIOUS
<1>2. net * t \in Int /\ net * q \in Int /\ r * tax \in Int /\ a * tax \in Int /\ net * k \in Int
  OBVIOUS
<1> QED
  BY <1>1, <1>2

\* What is left of the tax, when all is paid, is no more than the rounding.
LEMMA RoundingLeft ==
  ASSUME NEW net \in Nat \ {0}, NEW tax \in Nat, NEW t \in Int, NEW k \in Nat,
         2 * (net * t) - 2 * (net * tax) <= net * k, 2 * (net * tax) - 2 * (net * t) <= net * k
  PROVE  2 * (tax - t) <= k /\ -2 * (tax - t) <= k
<1> DEFINE d == tax - t
<1>1. d \in Int /\ net * d = net * tax - net * t
  OBVIOUS
<1>2. net * t \in Int /\ net * tax \in Int /\ net * k \in Int /\ net * d \in Int
  BY <1>1
<1>3. net * (2 * d) <= net * k /\ net * (-2 * d) <= net * k
  <2>1. net * (2 * d) = 2 * (net * d) /\ net * (-2 * d) = -2 * (net * d)
    <3> HIDE DEF d
    <3> QED
      BY <1>1
  <2> HIDE DEF d
  <2> QED
    BY <1>1, <1>2, <2>1
<1>4. ASSUME NEW z \in Int, net * z <= net * k PROVE z <= k
  <2>1. ASSUME z >= k + 1 PROVE FALSE
    <3>1. net * z >= net * (k + 1)
      BY <2>1
    <3>2. net * (k + 1) = net * k + net
      OBVIOUS
    <3> QED
      BY <1>2, <1>4, <3>1, <3>2
  <2> QED
    BY <2>1
<1>5. 2 * d \in Int /\ -2 * d \in Int
  BY <1>1
<1> HIDE DEF d
<1>6. 2 * d <= k /\ -2 * d <= k
  BY <1>3, <1>4, <1>5
<1> QED
  BY <1>6 DEF d

\* A step that leaves the money alone, and the invoice to those approving it.
LEMMA BooksKept ==
  ASSUME BooksSound, UNCHANGED <<rows, payments, booked, journals>>, stale' = {} => stale = {},
         stale' = {} => inv'.net = inv.net /\ inv'.tax = inv.tax,
         \A u \in Users : On(u, "approved")' => On(u, "approved") /\ work'[u] = work[u]
  PROVE  BooksSound'
<1> SUFFICES ASSUME stale' = {} PROVE BooksSound'
  BY DEF BooksSound
<1>1. TaxBooked' = TaxBooked /\ inv'.net = inv.net /\ inv'.tax = inv.tax /\ stale = {}
  BY DEF TaxBooked
<1> QED
  BY <1>1 DEF BooksSound

\* BooksSound is inductive, given the rest.
LEMMA BooksStep ==
  ASSUME TypeOK, WorkSound, Money, Journaled, BooksSound, [Next]_vars PROVE BooksSound'
<1>0. /\ inv \in InvType /\ work \in [Users -> WorkType] /\ journals \in Nat
      /\ rows \in Nat /\ payments \in Nat /\ booked \in [debit : Nat, credit : Nat]
  BY DEF TypeOK, InvType, WorkType, Kinds
\* Where nothing was asked for yet, nothing is in the books.
<1>a. ASSUME stale = {}, inv.status \in {"absent", "draft", "submitted"}
      PROVE  /\ \A u \in Users : ~On(u, "approved")
             /\ journals = 0 /\ booked.credit = 0 /\ rows = 0 /\ TaxBooked = 0
  <2>1. ~Asked
    BY <1>a DEF Journaled, Owed
  <2>2. journals = 0 /\ \A u \in Users : ~On(u, "approved")
    BY <1>0, <2>1 DEF Asked, Approving
  <2>3. rows = 0 /\ booked.debit = 0
    BY <1>a DEF Money, Unpaid
  <2> QED
    BY <1>a, <2>2, <2>3 DEF BooksSound, TaxBooked
\* The books of an invoice without any, whatever its amounts become.
<1>b. ASSUME stale = {}, inv.status \in {"absent", "draft", "submitted"},
             UNCHANGED <<rows, payments, booked, journals>>, inv' \in InvType,
             \A u \in Users : ~On(u, "approved")'
      PROVE  BooksSound'
  <2>1. journals' = 0 /\ booked'.credit = 0 /\ rows' = 0 /\ TaxBooked' = 0
    BY <1>a, <1>b DEF TaxBooked
  <2>2. inv'.net \in Nat /\ inv'.tax \in Nat /\ payments' \in Nat
    BY <1>0, <1>b, ConstantsAssumption DEF InvType, ConstantsAssumption
  <2>3. inv'.net * 0 = 0 /\ 0 * inv'.tax = 0 /\ inv'.net * payments' \in Nat
    BY <2>2
  <2> QED
    BY <1>b, <2>1, <2>2, <2>3 DEF BooksSound
<1>t. TypeOK'
  BY TypeStep
<1>1. ASSUME NEW n \in Amounts, NEW w \in 0..MaxTax, Create(n, w) PROVE BooksSound'
  <2>1. inv.status = "absent" /\ UNCHANGED <<rows, payments, booked, journals, work, stale>>
    BY <1>1 DEF Create, money, history
  <2>2. inv' \in InvType
    BY <1>t DEF TypeOK, InvType
  <2>3. CASE stale = {}
    BY <1>a, <1>b, <2>1, <2>2, <2>3 DEF On
  <2>4. CASE stale # {}
    BY <2>1, <2>4 DEF BooksSound
  <2> QED
    BY <2>3, <2>4
<1>2. ASSUME NEW u \in Users, AskStep(u) PROVE BooksSound'
  <2>1. PICK op \in {"edit", "submit", "reject", "cancel", "pay"}, a \in Int :
          Reads(u, op, a) /\ UNCHANGED <<inv, rows, payments, booked, journals, stale>>
    BY <1>2 DEF AskStep, AskEdit, AskSubmit, AskReject, AskCancel, AskPay, Asks, Amounts
  <2>2. work'[u].op = op /\ \A v \in Users \ {u} : work'[v] = work[v]
    BY <1>0, <2>1 DEF Reads
  <2> QED
    BY <2>1, <2>2, BooksKept DEF On
<1>3. ASSUME NEW u \in Users, WriteStep(u) PROVE BooksSound'
  <2>1. /\ NoteStale(u) /\ Rest(u) /\ UNCHANGED <<rows, payments, booked, journals>>
        /\ work[u].op \in {"edit", "submit", "reject", "cancel"}
    BY <1>3 DEF WriteStep, Edit, Submit, Reject, Cancel, SetStatus, On, money
  <2>2. \A v \in Users : On(v, "approved")' => On(v, "approved") /\ work'[v] = work[v]
    BY <1>0, <2>1 DEF On, Rest, NoWork
  <2>3. CASE stale' # {}
    BY <2>3 DEF BooksSound
  <2>4. CASE stale' = {}
    <3>1. stale = {} /\ inv.status \in {"draft", "submitted"}
      BY <2>1, <2>4, InTime DEF WorkSound
    <3>2. inv' \in InvType
      BY <1>t DEF TypeOK, InvType
    <3> QED
      BY <1>a, <1>b, <2>1, <2>2, <3>1, <3>2
  <2> QED
    BY <2>3, <2>4
<1>4. ASSUME NEW u \in Users, Approve(u) PROVE BooksSound'
  <2>1. /\ inv.status = "submitted" /\ inv'.net = inv.net /\ inv'.tax = inv.tax
        /\ UNCHANGED <<rows, payments, booked, journals, stale>>
        /\ work'[u].net = inv.net /\ work'[u].tax = inv.tax
        /\ \A v \in Users \ {u} : work'[v] = work[v]
    BY <1>0, <1>4 DEF Approve, InvType, money, history, Reads
  <2>2. TaxBooked' = TaxBooked
    BY <2>1 DEF TaxBooked
  <2> QED
    BY <2>1, <2>2 DEF BooksSound, On
<1>5. ASSUME NEW u \in Users, RequestJournal(u) PROVE BooksSound'
  <2>1. /\ work[u].op = "approved" /\ journals' = journals + 1
        /\ UNCHANGED <<inv, rows, payments, stale>> /\ booked'.debit = booked.debit
        /\ booked'.credit = booked.credit + work[u].net + work[u].tax
        /\ \A v \in Users : On(v, "approved")' => On(v, "approved") /\ work'[v] = work[v]
    BY <1>0, <1>5 DEF RequestJournal, history, Rest, NoWork, On
  <2>2. TaxBooked' = TaxBooked
    BY <2>1 DEF TaxBooked
  <2>3. CASE stale # {}
    BY <2>1, <2>3 DEF BooksSound
  <2>4. CASE stale = {}
    <3>1. journals <= 1 /\ journals # 1
      BY <2>1, <2>4 DEF Journaled, Reopened, Approving, On
    <3>2. journals = 0 /\ work[u].net = inv.net /\ work[u].tax = inv.tax /\ booked.credit = 0
      BY <1>0, <2>1, <2>4, <3>1 DEF BooksSound, On
    <3>3. inv.net \in Nat /\ inv.tax \in Nat
      BY <1>0, ConstantsAssumption DEF InvType, ConstantsAssumption
    <3>4. journals' = 1 /\ booked'.credit = inv.net + inv.tax
      BY <2>1, <3>2, <3>3
    <3> QED
      BY <2>1, <2>2, <2>4, <3>4 DEF BooksSound
  <2> QED
    BY <2>3, <2>4
<1>6. ASSUME NEW u \in Users, Pay(u) PROVE BooksSound'
  <2> SUFFICES ASSUME stale' = {} PROVE BooksSound'
    BY DEF BooksSound
  <2> DEFINE a == work[u].amount
             q == ProportionalTax(a, inv.net, inv.tax)
  <2>1. NoteStale(u) /\ work[u].op = "pay"
    BY <1>6 DEF Pay, On
  <2>2. stale = {} /\ work[u].net = inv.net /\ work[u].tax = inv.tax
    BY <2>1, InTime
  <2>3. /\ rows' = rows + a /\ payments' = payments + 1 /\ UNCHANGED journals
        /\ inv'.net = inv.net /\ inv'.tax = inv.tax
        /\ booked'.debit = booked.debit + a + q /\ booked'.credit = booked.credit
        /\ \A v \in Users : On(v, "approved")' => On(v, "approved") /\ work'[v] = work[v]
    BY <1>0, <1>6, <2>2 DEF Pay, InvType, Rest, NoWork, On
  <2>4. /\ inv.net \in Nat \ {0} /\ inv.tax \in Nat /\ a \in Nat
    BY <1>0, <2>1, <2>2, ConstantsAssumption DEF WorkSound, WorkType, InvType, ConstantsAssumption
  <2>5. q \in Nat
    BY <2>4, ShareIsNatural
  <2>6. TaxBooked \in Int /\ TaxBooked' = TaxBooked + q
    BY <1>0, <2>3, <2>4, <2>5 DEF TaxBooked
  <2>7. /\ 2 * (inv.net * q) - 2 * (a * inv.tax) <= inv.net
        /\ 2 * (a * inv.tax) - 2 * (inv.net * q) <= inv.net
    BY <2>4, Rounded
  <2>8. /\ 2 * (inv.net * (TaxBooked + q)) - 2 * ((rows + a) * inv.tax) <= inv.net * (payments + 1)
        /\ 2 * ((rows + a) * inv.tax) - 2 * (inv.net * (TaxBooked + q)) <= inv.net * (payments + 1)
    BY <1>0, <2>2, <2>4, <2>5, <2>6, <2>7, RoundingAdds DEF BooksSound
  <2> HIDE DEF a, q
  <2> QED
    BY <2>2, <2>3, <2>6, <2>8 DEF BooksSound
<1>7. ASSUME Stop PROVE BooksSound'
  <2>1. (\A v \in Users : ~On(v, "approved")') /\ UNCHANGED <<inv, rows, payments, booked, journals, stale>>
    BY <1>7 DEF Stop, NoWork, On, money
  <2> QED
    BY <2>1, BooksKept
<1>8. CASE UNCHANGED vars
  BY <1>8, BooksKept DEF vars, On
<1> QED
  BY <1>1, <1>2, <1>3, <1>4, <1>5, <1>6, <1>7, <1>8, Steps

-----------------------------------------------------------------------------
(* The theorems.                                                           *)

Inv == TypeOK /\ WorkSound /\ Money /\ Journaled /\ BooksSound

\* In every reachable state types, requests, money, journals and books agree.
THEOREM InvAlways == Spec => []Inv
<1>1. Init => Inv
  <2> SUFFICES ASSUME Init PROVE Inv
    OBVIOUS
  <2>1. TypeOK /\ WorkSound /\ Money
    BY InitSound
  <2>2. Journaled
    BY DEF Init, Journaled, Asked, Approving, On, NoWork, Owed
  <2>3. BooksSound
    BY DEF Init, BooksSound, TaxBooked, On, NoWork
  <2> QED
    BY <2>1, <2>2, <2>3 DEF Inv
<1>2. Inv /\ [Next]_vars => Inv'
  BY TypeStep, WorkStep, MoneyStep, JournaledStep, BooksStep DEF Inv, Money
<1> QED
  BY <1>1, <1>2, PTL DEF Spec

\* Every variable stays of its type.
THEOREM TypeCorrect == Spec => []TypeOK
<1>1. Inv => TypeOK
  BY DEF Inv
<1> QED
  BY <1>1, InvAlways, PTL

\* The sum of the payments is on the invoice, and no more than its net, unless
\* payments overlapped or an edit came late.
THEOREM AlwaysPaidOnce == Spec => []PaidOnce
<1>1. Inv => PaidOnce
  BY DEF Inv, Money
<1> QED
  BY <1>1, InvAlways, PTL

\* As long as no request was overtaken, the status tells what was paid.
THEOREM StatusAlwaysTellsPaid == Spec => []StatusTellsPaid
<1>1. Inv => StatusTellsPaid
  BY DEF Inv, Money
<1> QED
  BY <1>1, InvAlways, PTL

\* One approval asks for one journal, unless the service stopped in between;
\* a second one takes a submit or a reject that came after the approval.
THEOREM AlwaysJournalPerApproval == Spec => []JournalPerApproval
<1>1. Inv => JournalPerApproval
  BY JournaledSuffices DEF Inv
<1> QED
  BY <1>1, InvAlways, PTL

\* What a paid invoice leaves on the payable is rounding, half a cent for each
\* of its payments at most.
THEOREM PaidAlwaysClearsPayable == Spec => []PaidClearsPayable
<1>1. Inv => PaidClearsPayable
  <2> SUFFICES ASSUME Inv, stale = {}, inv.status = "paid", journals = 1
               PROVE  LET left == booked.credit - booked.debit
                      IN 2 * left <= payments /\ -2 * left <= payments
    BY DEF PaidClearsPayable
  <2>1. /\ inv \in InvType /\ rows \in Nat /\ payments \in Nat
        /\ booked \in [debit : Nat, credit : Nat]
    BY ConstantsAssumption DEF Inv, TypeOK, InvType, ConstantsAssumption
  <2>2. inv.net \in Nat \ {0} /\ inv.tax \in Nat
    BY <2>1, ConstantsAssumption DEF Inv, Money, InvSound, InvType, ConstantsAssumption
  <2>3. rows = inv.net
    BY DEF Inv, Money, PaidOnce, StatusTellsPaid
  <2>4. booked.credit = inv.net + inv.tax /\ TaxBooked \in Int /\ booked.debit = rows + TaxBooked
    BY <2>1 DEF Inv, BooksSound, TaxBooked
  <2>5. /\ 2 * (inv.net * TaxBooked) - 2 * (inv.net * inv.tax) <= inv.net * payments
        /\ 2 * (inv.net * inv.tax) - 2 * (inv.net * TaxBooked) <= inv.net * payments
    BY <2>3 DEF Inv, BooksSound
  <2>6. 2 * (inv.tax - TaxBooked) <= payments /\ -2 * (inv.tax - TaxBooked) <= payments
    BY <2>1, <2>2, <2>4, <2>5, RoundingLeft
  <2>7. booked.credit - booked.debit = inv.tax - TaxBooked
    BY <2>2, <2>3, <2>4
  <2> QED
    BY <2>6, <2>7
<1> QED
  BY <1>1, InvAlways, PTL
=============================================================================
