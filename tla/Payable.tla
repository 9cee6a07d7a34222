-------------------------------- MODULE Payable --------------------------------
(***************************************************************************)
(* One vendor invoice, from its draft to its last payment                  *)
(* (services/finance/src/routes/vendor-invoices.ts), and the journals the  *)
(* worker books for it (outbox-processor.ts).                              *)
(*                                                                         *)
(* approve tests the status in its UPDATE; every other handler reads the   *)
(* invoice, answers 400 on a wrong status, and writes by id afterwards.    *)
(* approve commits before it asks for the journal in a transaction of its  *)
(* own, and the service may stop in between.                               *)
(***************************************************************************)
EXTENDS Integers

CONSTANTS
  Users,        \* people with a request in progress
  MaxAmount,    \* bound: net_payable
  MaxTax,       \* bound: wht_amount
  MaxPayments,  \* bound: payments
  MaxLate       \* bound: writes of requests that were overtaken

ASSUME ConstantsAssumption ==
  MaxAmount \in Nat /\ MaxTax \in Nat /\ MaxPayments \in Nat /\ MaxLate \in Nat

VARIABLES
  inv,       \* the invoice
  work,      \* what the request of each user has read
  rows,      \* SUM(amount) of vendor_payments
  payments,  \* how many there are
  journals,  \* VENDOR_INVOICE_JOURNAL_REQUESTED rows
  booked,    \* the payable in the books
  stale,     \* history: the kinds of request that wrote after what they had read changed
  late,      \* history: how many
  lost       \* history: the service stopped before the journal was asked for

vars == <<inv, work, rows, payments, journals, booked, stale, late, lost>>

Amounts  == 1..MaxAmount
Owed     == {"approved", "partially_paid", "paid"}
Statuses == {"absent", "draft", "submitted", "cancelled"} \cup Owed

NoWork == [op |-> "none", status |-> "absent", net |-> 0, tax |-> 0, paid |-> 0, amount |-> 0]

TypeOK ==
  /\ inv \in [status : Statuses, net : 0..MaxAmount, tax : 0..MaxTax, paid : Nat]
  /\ work \in [Users -> [op : {"none", "edit", "submit", "reject", "cancel", "approved", "pay"},
                         status : Statuses, net : 0..MaxAmount, tax : 0..MaxTax,
                         paid : Nat, amount : 0..MaxAmount]]
  /\ rows \in Nat /\ payments \in 0..MaxPayments /\ journals \in Nat
  /\ booked \in [debit : Nat, credit : Nat]
  /\ stale \subseteq {"edit", "submit", "reject", "cancel", "pay"}
  /\ late \in 0..MaxLate /\ lost \in BOOLEAN

Init ==
  /\ inv = [status |-> "absent", net |-> 0, tax |-> 0, paid |-> 0]
  /\ work = [u \in Users |-> NoWork]
  /\ rows = 0 /\ payments = 0 /\ journals = 0
  /\ booked = [debit |-> 0, credit |-> 0]
  /\ stale = {} /\ late = 0 /\ lost = FALSE

money   == <<rows, payments, booked>>
history == <<stale, late, lost>>

-----------------------------------------------------------------------------
Idle(u)   == work[u].op = "none"
On(u, op) == work[u].op = op
Rest(u)   == work' = [work EXCEPT ![u] = NoWork]

Reads(u, op, a) ==
  work' = [work EXCEPT ![u] = [op |-> op, status |-> inv.status, net |-> inv.net,
                               tax |-> inv.tax, paid |-> inv.paid, amount |-> a]]

Asks(u, op, a) ==
  /\ Idle(u) /\ Reads(u, op, a)
  /\ UNCHANGED <<inv, rows, payments, journals, booked, stale, late, lost>>

Overtaken(u) ==
  LET w == work[u] IN
  \/ w.status # inv.status
  \/ w.op = "pay" /\ (w.net # inv.net \/ w.tax # inv.tax \/ w.paid # inv.paid)

NoteStale(u) ==
  /\ stale' = IF Overtaken(u) THEN stale \cup {work[u].op} ELSE stale
  /\ late' = IF Overtaken(u) THEN late + 1 ELSE late
  /\ late' <= MaxLate
  /\ UNCHANGED lost

-----------------------------------------------------------------------------
Create(n, w) ==
  /\ inv.status = "absent"
  /\ inv' = [inv EXCEPT !.status = "draft", !.net = n, !.tax = w]
  /\ UNCHANGED <<work, journals, money, history>>

AskEdit(u)   == inv.status = "draft" /\ Asks(u, "edit", 0)
AskSubmit(u) == inv.status = "draft" /\ Asks(u, "submit", 0)
\* Mutant: an approved invoice can be rejected.
AskRejectOwed(u) == inv.status \in {"submitted", "approved"} /\ Asks(u, "reject", 0)

AskReject(u) == inv.status = "submitted" /\ Asks(u, "reject", 0)
AskCancel(u) == inv.status \in {"draft", "submitted"} /\ Asks(u, "cancel", 0)

Edit(u, n, w) ==
  /\ On(u, "edit")
  /\ inv' = [inv EXCEPT !.net = n, !.tax = w]
  /\ NoteStale(u) /\ Rest(u)
  /\ UNCHANGED <<journals, money>>

\* The write of submit, reject and cancel.
SetStatus(u, op, status) ==
  /\ On(u, op)
  /\ inv' = [inv EXCEPT !.status = status]
  /\ NoteStale(u) /\ Rest(u)
  /\ UNCHANGED <<journals, money>>

\* Mutant: a status the table does not know.
SubmitPending(u) == SetStatus(u, "submit", "pending_approval")

Submit(u) == SetStatus(u, "submit", "submitted")
Reject(u) == SetStatus(u, "reject", "draft")
Cancel(u) == SetStatus(u, "cancel", "cancelled")

\* The invoice as approve returned it goes into the journal's payload.
Approve(u) ==
  /\ Idle(u) /\ inv.status = "submitted"
  /\ inv' = [inv EXCEPT !.status = "approved"]
  /\ Reads(u, "approved", 0)
  /\ UNCHANGED <<journals, money, history>>

\* The worker credits the total amount; it tests for no earlier journal.
RequestJournal(u) ==
  /\ On(u, "approved")
  /\ journals' = journals + 1
  /\ booked' = [booked EXCEPT !.credit = @ + work[u].net + work[u].tax]
  /\ Rest(u)
  /\ UNCHANGED <<inv, rows, payments, history>>

\* The finance service stops: its requests are gone, and nothing resumes them.
Stop ==
  /\ \E u \in Users : On(u, "approved")
  /\ work' = [u \in Users |-> NoWork]
  /\ lost' = TRUE
  /\ UNCHANGED <<inv, journals, money, stale, late>>

-----------------------------------------------------------------------------
(* Payments.                                                               *)

\* Mutant: earlier payments do not count.
AskPayWhole(u, a) ==
  /\ inv.status \in {"approved", "partially_paid"}
  /\ a <= inv.net
  /\ Asks(u, "pay", a)

AskPay(u, a) ==
  /\ inv.status \in {"approved", "partially_paid"}
  /\ a <= inv.net - inv.paid
  /\ Asks(u, "pay", a)

\* Mutant: each payment books the whole tax.
WholeTax(a, net, tax) == tax

\* Math.round((amount / netPayable) * wht * 100) / 100, in cents
ProportionalTax(a, net, tax) == (2 * a * tax + net) \div (2 * net)

\* Mutant: the last payment does not close the invoice.
PayStrict(u) ==
  LET w == work[u]
      paid == w.paid + w.amount
  IN /\ On(u, "pay") /\ payments < MaxPayments
     /\ rows' = rows + w.amount
     /\ payments' = payments + 1
     /\ inv' = [inv EXCEPT !.paid = paid,
                           !.status = IF paid > w.net THEN "paid" ELSE "partially_paid"]
     /\ booked' = [booked EXCEPT !.debit = @ + w.amount + ProportionalTax(w.amount, w.net, w.tax)]
     /\ NoteStale(u) /\ Rest(u)
     /\ UNCHANGED journals

Pay(u) ==
  LET w == work[u]
      paid == w.paid + w.amount
  IN /\ On(u, "pay") /\ payments < MaxPayments
     /\ rows' = rows + w.amount
     /\ payments' = payments + 1
     /\ inv' = [inv EXCEPT !.paid = paid,
                           !.status = IF paid >= w.net THEN "paid" ELSE "partially_paid"]
     /\ booked' = [booked EXCEPT !.debit = @ + w.amount + ProportionalTax(w.amount, w.net, w.tax)]
     /\ NoteStale(u) /\ Rest(u)
     /\ UNCHANGED journals

Next ==
  \/ \E n \in Amounts, w \in 0..MaxTax : Create(n, w) \/ \E u \in Users : Edit(u, n, w)
  \/ \E u \in Users :
       \/ AskEdit(u) \/ AskSubmit(u) \/ AskReject(u) \/ AskCancel(u)
       \/ Submit(u) \/ Reject(u) \/ Cancel(u) \/ Approve(u) \/ RequestJournal(u)
       \/ Pay(u) \/ \E a \in Amounts : AskPay(u, a)
  \/ Stop

Spec == Init /\ [][Next]_vars

-----------------------------------------------------------------------------
Approving == \E u \in Users : On(u, "approved")

(* One approval, one journal, though the handlers before and after approve *)
(* test too early: only a submit or a reject that comes after the approval *)
(* reopens the invoice for a second one (vendor-invoices.ts:661).  What is *)
(* owed has its journal asked for, unless the service stopped in between.  *)
JournalPerApproval ==
  /\ journals > 1 => stale \cap {"submit", "reject"} # {}
  /\ inv.status \in Owed /\ ~Approving /\ ~lost => journals > 0
  /\ stale = {} /\ journals > 0 => inv.status \in Owed

(* amount_paid is the sum of the payments, and no more than the net was    *)
(* paid, unless payments overlapped, or an edit moved the net under an     *)
(* approved invoice.                                                       *)
PaidOnce ==
  /\ "pay" \notin stale => inv.paid = rows
  /\ stale = {} => rows <= inv.net

(* The status tells how much was paid, as long as nothing was overtaken.   *)
StatusTellsPaid ==
  stale = {} =>
    /\ inv.status \in {"draft", "submitted", "approved", "cancelled"} => inv.paid = 0
    /\ inv.status = "partially_paid" => 0 < inv.paid /\ inv.paid < inv.net
    /\ inv.status = "paid" => inv.paid = inv.net

(* A paid invoice leaves on the payable no more than rounding: each of its *)
(* payments books its share of the tax, off by half a cent at most.        *)
PaidClearsPayable ==
  LET left == booked.credit - booked.debit IN
  stale = {} /\ inv.status = "paid" /\ journals = 1 =>
    2 * left <= payments /\ -2 * left <= payments
=============================================================================
