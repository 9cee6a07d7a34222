------------------------------- MODULE Advances -------------------------------
(***************************************************************************)
(* Cash advances of employees, the settlements and the returns that clear  *)
(* them (services/finance/src/routes/employee-advances.ts), and the two    *)
(* other ways to clear one: purchase order lines it paid, and an expense   *)
(* claim posted against it (expense-claims.ts).                            *)
(*                                                                         *)
(* One advance.  Settlements and returns are documents of two kinds.  The  *)
(* approval of a document is cut where other transactions come between:    *)
(* its query takes a snapshot, waits for the row of the advance (FOR       *)
(* UPDATE OF a) and rechecks that row only, then reads the lines and       *)
(* writes.  A handler that tests the status before its transaction is two  *)
(* steps.  The tests that only advise (of submit, of a new document) and   *)
(* their writes are one step: the states in between are also reached by    *)
(* the same steps in another order.                                        *)
(***************************************************************************)
EXTENDS Integers, FiniteSets

CONSTANTS
  Docs,       \* advance_settlements and advance_returns
  NoDoc,      \* the settlement of a purchase order line without one
  PoLines,    \* lines of completed purchase orders the advance paid, of price 1
  Advance,    \* the advance, where it stands beside its documents
  Users,      \* people with a request in progress
  NoUser,
  MaxAmount,  \* bound: the largest amount
  MaxLate     \* bound: late edits

ASSUME ConstantsAssumption ==
  /\ NoDoc \notin Docs /\ Advance \notin Docs /\ NoUser \notin Users
  /\ IsFiniteSet(PoLines)
  /\ MaxAmount \in Nat /\ MaxLate \in Nat

VARIABLES
  adv,       \* employee_advances
  doc,       \* the documents; the lines of one add up to its total
  po,        \* po_lines.advance_settlement_id
  work,      \* what each user's request has read
  lock,      \* who holds the row of the advance across steps
  issued,    \* journal: what the issuance debits to the advance account
  credited,  \* journal: what the documents credit to it
  posted,    \* journals of each document: how many, the last one's two sides
  late,      \* history: what was edited after it had left draft, or a
             \* document while its approval was on
  overlapped \* history: documents two requests were approving at once

money   == <<issued, credited, posted>>
history == <<late, overlapped>>
vars    == <<adv, doc, po, work, lock, issued, credited, posted, late, overlapped>>

Amounts == 1..MaxAmount
Kinds   == {"settlement", "return"}

NoWork == [op |-> "none", on |-> NoDoc, total |-> 0]

\* outstanding_amount GENERATED ALWAYS AS (amount - settled_amount - returned_amount)
Outstanding == adv.amount - adv.settled - adv.returned

OpenToClear   == adv.status \in {"approved", "partially_settled"}
HandedOut     == adv.status \in {"approved", "partially_settled", "settled"}
Unlocked      == lock = NoUser
\* Mutant: an approved settlement can be approved.
ApprovableAgain(d) == \/ doc[d].kind = "settlement" /\ doc[d].status \in {"submitted", "approved"}
                      \/ doc[d].kind = "return" /\ doc[d].status = "draft"

Approvable(d) == \/ doc[d].kind = "settlement" /\ doc[d].status = "submitted"
                 \/ doc[d].kind = "return" /\ doc[d].status = "draft"

AdvanceType ==
  [status : {"absent", "draft", "pending_approval", "approved", "rejected",
             "partially_settled", "settled", "cancelled"},
   amount : Nat, settled : Nat, returned : Nat]

DocType ==
  [kind   : Kinds \cup {"none"}, total : Nat,
   status : {"absent", "draft", "submitted", "approved", "rejected", "cancelled"}]

TypeOK ==
  /\ adv \in AdvanceType
  /\ doc \in [Docs -> DocType]
  /\ po \in [PoLines -> Docs \cup {NoDoc}]
  /\ work \in [Users -> [op : {"none", "edit", "read", "locked"},
                         on : Docs \cup {NoDoc, Advance}, total : Nat]]
  /\ lock \in Users \cup {NoUser}
  /\ issued \in Nat /\ credited \in Nat
  /\ posted \in [Docs -> [times : Nat, debit : Nat, credit : Nat]]
  /\ late \in SUBSET (Docs \cup {Advance}) /\ overlapped \in SUBSET Docs

Init ==
  /\ adv = [status |-> "absent", amount |-> 0, settled |-> 0, returned |-> 0]
  /\ doc = [d \in Docs |-> [kind |-> "none", total |-> 0, status |-> "absent"]]
  /\ po = [l \in PoLines |-> NoDoc]
  /\ work = [u \in Users |-> NoWork]
  /\ lock = NoUser
  /\ issued = 0 /\ credited = 0
  /\ posted = [d \in Docs |-> [times |-> 0, debit |-> 0, credit |-> 0]]
  /\ late = {} /\ overlapped = {}

-----------------------------------------------------------------------------
(* The advance itself.                                                     *)

CreateAdvance(n) ==
  /\ adv.status = "absent"
  /\ adv' = [adv EXCEPT !.status = "draft", !.amount = n]
  /\ UNCHANGED <<doc, po, work, lock, money, history>>

RequestSelfAdvance(n) ==
  /\ adv.status = "absent"
  /\ adv' = [adv EXCEPT !.status = "pending_approval", !.amount = n]
  /\ UNCHANGED <<doc, po, work, lock, money, history>>

BeingApproved(d) == \E u \in Users : work[u].op \in {"read", "locked"} /\ work[u].on = d

MayBeLate(x, early) ==
  IF early THEN late' = late
           ELSE late' = late \cup {x} /\ Cardinality(late') <= MaxLate

\* PUT /:id tests the status first and writes by id.
AskEditAdvance(u) ==
  /\ work[u].op = "none" /\ adv.status = "draft"
  /\ work' = [work EXCEPT ![u] = [op |-> "edit", on |-> Advance, total |-> 0]]
  /\ UNCHANGED <<adv, doc, po, lock, money, history>>

\* The table's CHECK refuses an amount below what is settled and returned.
EditAdvance(u, n) ==
  /\ work[u].op = "edit" /\ work[u].on = Advance /\ Unlocked
  /\ adv.settled + adv.returned <= n
  /\ adv' = [adv EXCEPT !.amount = n]
  /\ MayBeLate(Advance, adv.status = "draft")
  /\ work' = [work EXCEPT ![u] = NoWork]
  /\ UNCHANGED <<doc, po, lock, money, overlapped>>

SubmitAdvance ==
  /\ adv.status = "draft" /\ Unlocked
  /\ adv' = [adv EXCEPT !.status = "pending_approval"]
  /\ UNCHANGED <<doc, po, work, lock, money, history>>

ApproveAdvance ==
  /\ adv.status = "pending_approval" /\ Unlocked
  /\ adv' = [adv EXCEPT !.status = "approved"]
  /\ issued' = adv.amount
  /\ UNCHANGED <<doc, po, work, lock, credited, posted, history>>

RejectAdvance ==
  /\ adv.status = "pending_approval" /\ Unlocked
  /\ adv' = [adv EXCEPT !.status = "rejected"]
  /\ UNCHANGED <<doc, po, work, lock, money, history>>

\* Mutant: an advance is voided whatever was cleared.
VoidUsedAdvance ==
  /\ OpenToClear /\ Unlocked
  /\ adv' = [adv EXCEPT !.status = "cancelled"]
  /\ issued' = 0
  /\ UNCHANGED <<doc, po, work, lock, credited, posted, history>>

\* The issuance is reversed, which only an untouched advance allows.
VoidAdvance ==
  /\ adv.status = "approved" /\ Unlocked
  /\ adv.settled = 0 /\ adv.returned = 0
  /\ adv' = [adv EXCEPT !.status = "cancelled"]
  /\ issued' = 0
  /\ UNCHANGED <<doc, po, work, lock, credited, posted, history>>

-----------------------------------------------------------------------------
(* Documents before their approval.                                        *)

Write(d, kind, status, n) ==
  doc' = [doc EXCEPT ![d] = [kind |-> kind, total |-> n, status |-> status]]

CreateSettlement(d, n) ==
  /\ doc[d].status = "absent" /\ OpenToClear
  /\ Write(d, "settlement", "draft", n)
  /\ UNCHANGED <<adv, po, work, lock, money, history>>

RequestSelfSettlement(d, n) ==
  /\ doc[d].status = "absent" /\ OpenToClear /\ Unlocked
  /\ n <= Outstanding
  /\ Write(d, "settlement", "submitted", n)
  /\ UNCHANGED <<adv, po, work, lock, money, history>>

CreateReturn(d, n) ==
  /\ doc[d].status = "absent" /\ OpenToClear
  /\ n <= Outstanding
  /\ Write(d, "return", "draft", n)
  /\ UNCHANGED <<adv, po, work, lock, money, history>>

\* PUT /settlements/:id and PUT /returns/:id; the second tests the amount too.
AskEditDoc(u, d, n) ==
  /\ work[u].op = "none" /\ doc[d].status = "draft"
  /\ doc[d].kind = "return" => n <= Outstanding
  /\ work' = [work EXCEPT ![u] = [op |-> "edit", on |-> d, total |-> n]]
  /\ UNCHANGED <<adv, doc, po, lock, money, history>>

EditDoc(u, d) ==
  /\ work[u].op = "edit" /\ work[u].on = d
  /\ doc' = [doc EXCEPT ![d].total = work[u].total]
  /\ MayBeLate(d, doc[d].status = "draft" /\ ~BeingApproved(d))
  /\ work' = [work EXCEPT ![u] = NoWork]
  /\ UNCHANGED <<adv, po, lock, money, overlapped>>

SubmitSettlement(d) ==
  /\ doc[d].kind = "settlement" /\ doc[d].status = "draft"
  /\ doc[d].total <= Outstanding
  /\ doc' = [doc EXCEPT ![d].status = "submitted"]
  /\ UNCHANGED <<adv, po, work, lock, money, history>>

RejectSettlement(d) ==
  /\ doc[d].kind = "settlement" /\ doc[d].status = "submitted"
  /\ doc' = [doc EXCEPT ![d].status = "rejected"]
  /\ UNCHANGED <<adv, po, work, lock, money, history>>

\* Mutant: an approved return is cancelled too.
CancelAnyReturn(d) ==
  /\ doc[d].kind = "return" /\ doc[d].status \in {"draft", "approved"}
  /\ doc' = [doc EXCEPT ![d].status = "cancelled"]
  /\ UNCHANGED <<adv, po, work, lock, money, history>>

CancelReturn(d) ==
  /\ doc[d].kind = "return" /\ doc[d].status = "draft"
  /\ doc' = [doc EXCEPT ![d].status = "cancelled"]
  /\ UNCHANGED <<adv, po, work, lock, money, history>>

-----------------------------------------------------------------------------
(* Clearing the advance.                                                   *)

\* Mutant: the status forgets the other kind.
ClearByKind(kind, n) ==
  adv' = [adv EXCEPT
            !.settled  = IF kind = "settlement" THEN @ + n ELSE @,
            !.returned = IF kind = "return" THEN @ + n ELSE @,
            !.status   = IF (IF kind = "return" THEN adv.returned ELSE adv.settled) + n >= adv.amount
                         THEN "settled" ELSE "partially_settled"]

\* The amount n goes to settled_amount or returned_amount, with the status.
Clear(kind, n) ==
  adv' = [adv EXCEPT
            !.settled  = IF kind = "settlement" THEN @ + n ELSE @,
            !.returned = IF kind = "return" THEN @ + n ELSE @,
            !.status   = IF adv.settled + adv.returned + n >= adv.amount
                         THEN "settled" ELSE "partially_settled"]

\* A journal that debits the lines and credits the advance account.
Post(d, debit, credit) ==
  /\ posted' = [posted EXCEPT ![d] = [times |-> @.times + 1, debit |-> debit, credit |-> credit]]
  /\ credited' = credited + credit
  /\ UNCHANGED issued

\* The snapshot of the approval's query.
ReadForApproval(u, d) ==
  /\ work[u].op = "none" /\ Approvable(d) /\ OpenToClear
  /\ work' = [work EXCEPT ![u] = [op |-> "read", on |-> d, total |-> doc[d].total]]
  /\ overlapped' = IF BeingApproved(d) THEN overlapped \cup {d} ELSE overlapped
  /\ UNCHANGED <<adv, doc, po, lock, money, late>>

\* Mutant: the balance is not compared again under the lock.
LockUnchecked(u) ==
  /\ work[u].op = "read" /\ Unlocked
  /\ IF OpenToClear
     THEN work' = [work EXCEPT ![u].op = "locked"] /\ lock' = u
     ELSE work' = [work EXCEPT ![u] = NoWork] /\ lock' = lock
  /\ UNCHANGED <<adv, doc, po, money, history>>

\* The advance's row, once nobody else holds it, as it is now.
LockForApproval(u) ==
  /\ work[u].op = "read" /\ Unlocked
  /\ IF OpenToClear /\ work[u].total <= Outstanding
     THEN work' = [work EXCEPT ![u].op = "locked"] /\ lock' = u
     ELSE work' = [work EXCEPT ![u] = NoWork] /\ lock' = lock
  /\ UNCHANGED <<adv, doc, po, money, history>>

\* The lines of a settlement are read only now; the status is written by id.
FinishApproval(u) ==
  LET d == work[u].on IN
  /\ work[u].op = "locked"
  /\ Post(d, IF doc[d].kind = "settlement" THEN doc[d].total ELSE work[u].total, work[u].total)
  /\ doc' = [doc EXCEPT ![d].status = "approved"]
  /\ Clear(doc[d].kind, work[u].total)
  /\ work' = [work EXCEPT ![u] = NoWork] /\ lock' = NoUser
  /\ UNCHANGED <<po, history>>

RollBack(u) ==
  /\ work[u].op = "locked"
  /\ work' = [work EXCEPT ![u] = NoWork] /\ lock' = NoUser
  /\ UNCHANGED <<adv, doc, po, money, history>>

\* Mutant: lines of an earlier settlement are taken too.
SettleLinesAgain(d, ls) ==
  /\ doc[d].status = "absent" /\ OpenToClear /\ Unlocked
  /\ ls # {} /\ Cardinality(ls) <= Outstanding
  /\ Write(d, "settlement", "approved", Cardinality(ls))
  /\ Post(d, Cardinality(ls), Cardinality(ls))
  /\ Clear("settlement", Cardinality(ls))
  /\ po' = [l \in PoLines |-> IF l \in ls THEN d ELSE po[l]]
  /\ UNCHANGED <<work, lock, history>>

SettleFromPOLines(d, ls) ==
  /\ doc[d].status = "absent" /\ OpenToClear /\ Unlocked
  /\ ls # {} /\ \A l \in ls : po[l] = NoDoc
  /\ Cardinality(ls) <= Outstanding
  /\ Write(d, "settlement", "approved", Cardinality(ls))
  /\ Post(d, Cardinality(ls), Cardinality(ls))
  /\ Clear("settlement", Cardinality(ls))
  /\ po' = [l \in PoLines |-> IF l \in ls THEN d ELSE po[l]]
  /\ UNCHANGED <<work, lock, history>>

\* An audited claim of the employee is posted with the advance as its source.
SettleFromClaim(d, n) ==
  /\ doc[d].status = "absent" /\ OpenToClear /\ Unlocked
  /\ n <= Outstanding
  /\ Write(d, "settlement", "approved", n)
  /\ Post(d, n, n)
  /\ Clear("settlement", n)
  /\ UNCHANGED <<po, work, lock, history>>

-----------------------------------------------------------------------------
AdvanceStep ==
  \/ \E n \in Amounts : CreateAdvance(n) \/ RequestSelfAdvance(n)
  \/ \E u \in Users : AskEditAdvance(u) \/ \E n \in Amounts : EditAdvance(u, n)
  \/ SubmitAdvance \/ ApproveAdvance \/ RejectAdvance \/ VoidAdvance

DocStep(d) ==
  \/ \E n \in Amounts : CreateSettlement(d, n) \/ RequestSelfSettlement(d, n) \/ CreateReturn(d, n)
  \/ \E u \in Users : EditDoc(u, d) \/ \E n \in Amounts : AskEditDoc(u, d, n)
  \/ SubmitSettlement(d) \/ RejectSettlement(d) \/ CancelReturn(d)

ClearStep ==
  \/ \E u \in Users : \/ LockForApproval(u) \/ FinishApproval(u) \/ RollBack(u)
                      \/ \E d \in Docs : ReadForApproval(u, d)
  \/ \E d \in Docs : \/ \E ls \in SUBSET PoLines : SettleFromPOLines(d, ls)
                     \/ \E n \in Amounts : SettleFromClaim(d, n)

Next == AdvanceStep \/ ClearStep \/ \E d \in Docs : DocStep(d)

Spec == Init /\ [][Next]_vars
-----------------------------------------------------------------------------
\* Nothing is lost between approvals that overlap: what the advance says is
\* cleared is what the journals credited to its account.
LedgerAgrees == adv.settled + adv.returned = credited

\* The employee is never credited with more than was handed out, and the
\* balance on the advance is the balance in the books.  Exception: the
\* advance was edited after it had left draft (employee-advances.ts 459).
NeverOverdrawn ==
  Advance \notin late =>
    /\ credited <= issued
    /\ HandedOut => Outstanding = issued - credited

\* The status tells the balance: 'settled' exactly when nothing is left,
\* 'approved' exactly when nothing was cleared, so that a void finds an
\* untouched advance and no advance with a balance is closed.
StatusTellsBalance ==
  Advance \notin late =>
    /\ HandedOut => (adv.status = "settled") = (Outstanding = 0)
    /\ HandedOut => (adv.status = "approved") = (credited = 0)
    /\ ~HandedOut => credited = 0 /\ issued = 0

\* A document's journal balances and books what the document says.
\* Exceptions: it was edited after it had left draft or during its approval,
\* or is posted twice.
PostedAsApproved ==
  \A d \in Docs \ late :
    /\ doc[d].status = "approved" <=> posted[d].times > 0
    /\ posted[d].times = 1 => posted[d].debit = doc[d].total /\ posted[d].credit = doc[d].total

\* A document is posted twice only when two people were approving it at the
\* same moment (the approval locks the advance, not the document).
PostedOnce == \A d \in Docs : posted[d].times > 1 => d \in overlapped

\* A purchase order line is paid by one approved settlement, whose total is
\* the price of its lines.
LinesSettledOnce ==
  \A d \in Docs :
    LET ls == {l \in PoLines : po[l] = d}
    IN ls # {} => doc[d].status = "approved" /\ doc[d].total = Cardinality(ls)

\* The advance implements the account of Account.tla: however approvals,
\* claims and purchase orders overlap, each withdraws what fits into the
\* balance at that moment.
Balance == INSTANCE Account WITH
  phase <- CASE adv.status = "cancelled" -> "closed" [] HandedOut -> "open" [] OTHER -> "new",
  limit <- IF HandedOut THEN adv.amount ELSE 0,
  spent <- adv.settled + adv.returned
ImplementsAccount == Balance!Spec
=============================================================================
