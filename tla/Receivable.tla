------------------------------ MODULE Receivable ------------------------------
(***************************************************************************)
(* What a customer owes on one project invoice, from its issue on: the     *)
(* receipts of services/projects/src/routes/payments.ts, those of the      *)
(* gateway's recordInvoicePayment, the edits that stay possible, and the   *)
(* journals the worker books (outbox-processor.ts).                        *)
(*                                                                         *)
(* Both ways to record a receipt read the invoice and the sum of the       *)
(* receipts first and write afterwards.  The tax the customer withholds    *)
(* (wht_scenario 'client_withholds') is no cash, but clears the receivable.*)
(***************************************************************************)
EXTENDS Integers

CONSTANTS
  Users,       \* people with a request in progress
  MaxAmount,   \* bound: net_payable
  MaxReceipts, \* bound: receipts
  MaxEdits     \* bound: edits

ASSUME ConstantsAssumption ==
  MaxAmount \in Nat /\ MaxReceipts \in Nat /\ MaxEdits \in Nat

VARIABLES
  inv,       \* the invoice
  paid,      \* SUM(amount) of project_invoice_payments
  work,      \* what the request of each user has read
  booked,    \* the receivable in the books
  receipts,  \* history: receipts recorded
  edits,     \* history: edits
  revised,   \* history: an edit after the journal
  overlap,   \* history: a request wrote after what it had read changed
  offBooks   \* history: a receipt no journal books

vars == <<inv, paid, work, booked, receipts, edits, revised, overlap, offBooks>>

Amounts  == 1..MaxAmount
Statuses == {"approved", "issued", "partial", "paid"}

NoWork == [op |-> "none", status |-> "approved", net |-> 0, paid |-> 0, amount |-> 0]

TypeOK ==
  /\ inv \in [status : Statuses, net : Amounts, withheld : 0..MaxAmount]
  /\ paid \in Nat
  /\ work \in [Users -> [op : {"none", "receive", "record", "recorded", "edit"},
                         status : Statuses, net : 0..MaxAmount, paid : Nat, amount : 0..MaxAmount]]
  /\ booked \in [debit : Nat, credit : Nat]
  /\ receipts \in 0..MaxReceipts /\ edits \in 0..MaxEdits
  /\ revised \in BOOLEAN /\ overlap \in BOOLEAN /\ offBooks \in BOOLEAN

Init ==
  /\ inv \in [status : {"approved"}, net : Amounts, withheld : 0..MaxAmount]
  /\ inv.withheld < inv.net
  /\ paid = 0 /\ work = [u \in Users |-> NoWork]
  /\ booked = [debit |-> 0, credit |-> 0]
  /\ receipts = 0 /\ edits = 0 /\ revised = FALSE /\ overlap = FALSE /\ offBooks = FALSE

-----------------------------------------------------------------------------
Idle(u)   == work[u].op = "none"
On(u, op) == work[u].op = op
Rest(u)   == work' = [work EXCEPT ![u] = NoWork]

Reads(u, op, a) ==
  work' = [work EXCEPT ![u] = [op |-> op, status |-> inv.status, net |-> inv.net,
                               paid |-> paid, amount |-> a]]

NoteOverlap(u) ==
  overlap' = (overlap \/ work[u].status # inv.status \/ work[u].net # inv.net
                      \/ work[u].paid # paid)

\* Mutant: a full payment that is not one.
PaidStatusStrict(total, target) == IF total > target THEN "paid" ELSE "partial"

PaidStatus(total, target) == IF total >= target THEN "paid" ELSE "partial"
CashTarget(net)           == net - inv.withheld
CanReceive                == inv.status \in {"issued", "partial"}

\* Issued by Billing's IssueInvoice; the journal debits the net.
Issue ==
  /\ inv.status = "approved"
  /\ inv' = [inv EXCEPT !.status = "issued"]
  /\ booked' = [booked EXCEPT !.debit = inv.net]
  /\ UNCHANGED <<paid, work, receipts, edits, revised, overlap, offBooks>>

\* Mutant: earlier receipts do not count.
AskReceiveAny(u, a) ==
  /\ Idle(u) /\ CanReceive
  /\ a <= CashTarget(inv.net)
  /\ Reads(u, "receive", a)
  /\ UNCHANGED <<inv, paid, booked, receipts, edits, revised, overlap, offBooks>>

AskReceive(u, a) ==
  /\ Idle(u) /\ CanReceive
  /\ a <= CashTarget(inv.net) - paid
  /\ Reads(u, "receive", a)
  /\ UNCHANGED <<inv, paid, booked, receipts, edits, revised, overlap, offBooks>>

\* Mutant: the journal credits the cash and forgets the tax.
ReceiveCashOnly(u) ==
  LET w == work[u] IN
  /\ On(u, "receive") /\ receipts < MaxReceipts
  /\ paid' = paid + w.amount
  /\ inv' = [inv EXCEPT !.status = PaidStatus(w.paid + w.amount, CashTarget(w.net))]
  /\ booked' = [booked EXCEPT !.credit = @ + w.amount]
  /\ receipts' = receipts + 1
  /\ NoteOverlap(u) /\ Rest(u)
  /\ UNCHANGED <<edits, revised, offBooks>>

\* One transaction: the receipt, the status from the sum that was read, and
\* the request for its journal, which credits the whole tax each time.
Receive(u) ==
  LET w == work[u] IN
  /\ On(u, "receive") /\ receipts < MaxReceipts
  /\ paid' = paid + w.amount
  /\ inv' = [inv EXCEPT !.status = PaidStatus(w.paid + w.amount, CashTarget(w.net))]
  /\ booked' = [booked EXCEPT !.credit = @ + w.amount + inv.withheld]
  /\ receipts' = receipts + 1
  /\ NoteOverlap(u) /\ Rest(u)
  /\ UNCHANGED <<edits, revised, offBooks>>

\* The gateway's mutation knows no tax, asks for no journal, and writes the
\* receipt and the status in two statements on their own.
AskRecordPayment(u, a) ==
  /\ Idle(u) /\ CanReceive
  /\ a <= inv.net - paid
  /\ Reads(u, "record", a)
  /\ UNCHANGED <<inv, paid, booked, receipts, edits, revised, overlap, offBooks>>

RecordPayment(u) ==
  LET w == work[u] IN
  /\ On(u, "record") /\ receipts < MaxReceipts
  /\ paid' = paid + w.amount
  /\ receipts' = receipts + 1
  /\ offBooks' = TRUE
  /\ NoteOverlap(u)
  /\ work' = [work EXCEPT ![u].op = "recorded", ![u].paid = @ + w.amount]
  /\ UNCHANGED <<inv, booked, edits, revised>>

RecordPaymentStatus(u) ==
  LET w == work[u] IN
  /\ On(u, "recorded")
  /\ inv' = [inv EXCEPT !.status = PaidStatus(w.paid, w.net)]
  /\ NoteOverlap(u) /\ Rest(u)
  /\ UNCHANGED <<paid, booked, receipts, edits, revised, offBooks>>

\* updateProjectInvoice takes any status, sets the net from the lines and
\* keeps the status in step with the receipts, where it read one that counts.
AskEdit(u) ==
  /\ Idle(u)
  /\ Reads(u, "edit", 0)
  /\ UNCHANGED <<inv, paid, booked, receipts, edits, revised, overlap, offBooks>>

UpdateProjectInvoice(u, n) ==
  LET w == work[u]
      status == PaidStatus(paid, CashTarget(n))
      recalculated == w.status \in {"issued", "partial", "paid"} /\ paid > 0 /\ status # w.status
  IN /\ On(u, "edit") /\ edits < MaxEdits
     /\ inv' = [inv EXCEPT !.net = n, !.status = IF recalculated THEN status ELSE @]
     /\ edits' = edits + 1
     /\ revised' = (revised \/ inv.status # "approved")
     /\ NoteOverlap(u) /\ Rest(u)
     /\ UNCHANGED <<paid, booked, receipts, offBooks>>

Next ==
  \/ Issue
  \/ \E u \in Users :
       \/ \E a \in Amounts : AskReceive(u, a) \/ AskRecordPayment(u, a) \/ UpdateProjectInvoice(u, a)
       \/ Receive(u) \/ RecordPayment(u) \/ RecordPaymentStatus(u) \/ AskEdit(u)

Spec == Init /\ [][Next]_vars

-----------------------------------------------------------------------------
Between == \E u \in Users : On(u, "recorded")

(* As long as no request wrote over what another had changed, the status   *)
(* tells what was received: nothing, some of it, or all that is asked for  *)
(* in cash.  Edits keep it so, up and down; only between the gateway's two *)
(* statements, and after its receipts of an invoice with tax, which aim at *)
(* the net, it may lag.                                                    *)
StatusTellsPaid ==
  (~overlap /\ ~Between /\ (inv.withheld = 0 \/ ~offBooks)) =>
    /\ inv.status \in {"approved", "issued"} => paid = 0
    /\ inv.status = "partial" => 0 < paid /\ paid < CashTarget(inv.net)
    /\ inv.status = "paid" => CashTarget(inv.net) <= paid

(* No receipt takes the customer's money twice: only two receipts that     *)
(* overlap, or a net that an edit lowered, leave more than the net.        *)
NeverOverpaid ==
  ~overlap /\ ~revised => paid <= inv.net

(* Once an invoice is paid, the journals of its receipts have credited the *)
(* receivable with what its own journal debited, and with the withheld tax *)
(* once more for each receipt after the first, since each journal credits  *)
(* the whole tax (outbox-processor.ts:810): nothing is left on it without  *)
(* tax or with a single receipt only.  Edits after the journal and the     *)
(* gateway's receipts are in no book, overlapping receipts may exceed it.  *)
PaidClearsReceivable ==
  inv.status = "paid" /\ ~overlap /\ ~revised /\ ~offBooks =>
    booked.credit = booked.debit + (receipts - 1) * inv.withheld
=============================================================================
