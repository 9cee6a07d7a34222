----------------------------- MODULE Reservation -----------------------------
(***************************************************************************)
(* Stock reservations of the ERP: stock_balances.qty_on_hand and           *)
(* qty_reserved, the requisitions that reserve stock at their inventory    *)
(* check, and the Store Outs (project_material_issues) that take it out    *)
(* (services/gateway/src/graphql/resolvers.ts).                            *)
(*                                                                         *)
(* One balance (a product at a location) shared by all, and one stock line *)
(* per requisition.  An operation that tests something before its          *)
(* transaction is two actions, Ask and Do; a transaction is one step.      *)
(***************************************************************************)
EXTENDS Integers, FiniteSets

CONSTANTS
  Reqs,       \* requisitions; also the name of their one line in po_lines
  NoReq,      \* a Store Out, or a Store Out line, of no requisition
  Users,      \* people with a request in progress
  Sizes,      \* values of qty_ordered
  MaxOnHand,  \* bound: units the location can hold
  MaxOuts,    \* bound: Store Outs
  MaxManual,  \* bound: Store Outs of no requisition
  MaxItems,   \* bound: lines of Store Outs that exist at once
  MaxUnusual  \* bound: kinds of unusual events in one behaviour

ASSUME ConstantsAssumption ==
  /\ NoReq \notin Reqs /\ IsFiniteSet(Reqs)
  /\ Sizes \subseteq Nat \ {0} /\ Sizes # {}
  /\ MaxOnHand \in Nat /\ MaxOuts \in Nat /\ MaxManual \in Nat
  /\ MaxItems \in Nat /\ MaxUnusual \in Nat

VARIABLES
  onHand,    \* stock_balances.qty_on_hand
  reserved,  \* stock_balances.qty_reserved
  req,       \* requisitions, with their line in po_lines and its child order
  so,        \* project_material_issues
  item,      \* project_material_issue_lines
  session,   \* what each user's request read before its transaction
  taken,     \* history: how often stock left for each Store Out
  unusual    \* history: kinds of events the invariants make exceptions for

stock == <<onHand, reserved>>
vars  == <<stock, req, so, item, session, taken, unusual>>

Outs  == 1..MaxOuts
Items == 1..MaxItems
Lines == Reqs \cup {NoReq}

NoOut   == [status |-> "absent", req |-> NoReq]
NoItem  == [out |-> 0, line |-> NoReq, qty |-> 0]
NoAsk   == [op |-> "none", id |-> NoReq, status |-> "none", stock |-> 0, bought |-> 0,
            qty |-> 0]

IsNextOut(i)  == so[i] = NoOut /\ \A j \in 1..(i - 1) : so[j] # NoOut
\* The place of a deleted line is not used again while a request names it.
IsNextItem(k) ==
  /\ item[k] = NoItem /\ \A j \in 1..(k - 1) : item[j] # NoItem
  /\ \A u \in Users : session[u].op = "delete" => session[u].id # k

\* The sum of f[x] over S, as the number of units that the members of S hold.
Units(f, S) == UNION {{x} \X (1..f[x]) : x \in S}
Total(f, S) == Cardinality(Units(f, S))

\* SUM(qty_issued) over some lines of Store Outs.
Amounts == [k \in Items |-> item[k].qty]
Qty(S)  == Total(Amounts, S)

ItemsIn(i)    == {k \in Items : item[k].out = i /\ item[k] # NoItem}
LineIn(r, ss) == {k \in Items : item[k].line = r /\ item[k] # NoItem
                                /\ so[item[k].out].status \in ss}

Drafted(r) == Qty(LineIn(r, {"draft"}))
Issued(r)  == Qty(LineIn(r, {"issued"}))
Covered(r) == Qty(LineIn(r, {"draft", "issued"}))

\* Mutant: what a cancelled Store Out gave back is released a second time.
RemainingUnissued(r) == req[r].stock - Issued(r)

\* What releaseRequisitionStockReservations takes to be still reserved.
Remaining(r) == req[r].stock - Qty(LineIn(r, {"issued", "cancelled"}))

AtLeast0(n) == IF n > 0 THEN n ELSE 0

\* qty_reserved = GREATEST(qty_reserved - n, 0), for n > 0 only.
Less(n) == IF n > 0 THEN AtLeast0(reserved - n) ELSE reserved

Available == onHand - reserved

-----------------------------------------------------------------------------
Init ==
  /\ onHand \in 0..MaxOnHand
  /\ reserved = 0
  /\ \E size \in [Reqs -> Sizes] :
       req = [r \in Reqs |-> [status |-> "draft", ordered |-> size[r], stock |-> 0,
               bought |-> 0, short |-> FALSE, closed |-> {}, po |-> "none",
               onPO |-> FALSE]]
  /\ so = [i \in Outs |-> NoOut]
  /\ item = [k \in Items |-> NoItem]
  /\ session = [u \in Users |-> NoAsk]
  /\ taken = [i \in Outs |-> 0]
  /\ unusual = {}

Note(kinds) == /\ unusual' = unusual \cup kinds
               /\ Cardinality(unusual') <= MaxUnusual

Ask(u, op, id, status, l, qty) ==
  /\ session[u] = NoAsk
  /\ session' = [session EXCEPT ![u] = [op |-> op, id |-> id, status |-> status,
                   stock |-> l.stock, bought |-> l.bought, qty |-> qty]]
  /\ UNCHANGED <<stock, req, so, item, taken, unusual>>

Doing(u, op) == /\ session[u].op = op
                /\ session' = [session EXCEPT ![u] = NoAsk]

\* The transaction finds an error and rolls back, or the request dies.
GiveUp(u) ==
  /\ session[u] # NoAsk
  /\ session' = [session EXCEPT ![u] = NoAsk]
  /\ UNCHANGED <<stock, req, so, item, taken, unusual>>

\* createStockAdjustment, stock moves and receipts look at qty_on_hand only.
Adjust(n) ==
  /\ n # onHand
  /\ onHand' = n
  /\ Note(IF n < reserved THEN {"drained"} ELSE {})
  /\ UNCHANGED <<reserved, req, so, item, session, taken>>

-----------------------------------------------------------------------------
(* The requisition up to its approval.  These operations end in            *)
(* reqTransition, which locks the requisition and tests its status.        *)

SubmitToInventoryCheck(r) ==
  /\ req[r].status = "draft"
  /\ req' = [req EXCEPT ![r].status = "inventory_check"]
  /\ UNCHANGED <<stock, so, item, session, taken, unusual>>

\* Mutant: the stock that others reserved is promised again.
ConfirmOnHand(r, q) ==
  /\ req[r].status = "inventory_check"
  /\ q = 0 \/ onHand >= q
  /\ reserved' = reserved + q
  /\ req' = [req EXCEPT ![r].stock = q,
       ![r].status = IF q < req[r].ordered THEN "pricing" ELSE "pending_approval"]
  /\ UNCHANGED <<onHand, so, item, session, taken, unusual>>

\* confirmRequisitionInventoryCheck reserves what the store can give.
ConfirmInventoryCheck(r, q) ==
  /\ req[r].status = "inventory_check"
  /\ q = 0 \/ Available >= q
  /\ reserved' = reserved + q
  /\ req' = [req EXCEPT ![r].stock = q,
       ![r].status = IF q < req[r].ordered THEN "pricing" ELSE "pending_approval"]
  /\ UNCHANGED <<onHand, so, item, session, taken, unusual>>

\* A line that the request leaves out keeps the quantity from stock that an
\* earlier confirmation gave it, whose reservation was released since.
ConfirmOmitting(r) ==
  /\ req[r].status = "inventory_check"
  /\ req' = [req EXCEPT ![r].status =
       IF req[r].stock < req[r].ordered THEN "pricing" ELSE "pending_approval"]
  /\ Note(IF req[r].stock > 0 THEN {"omitted"} ELSE {})
  /\ UNCHANGED <<stock, so, item, session, taken>>

\* Market pricing and price verification, which move no stock.
VerifyPrices(r) ==
  /\ req[r].status = "pricing"
  /\ req' = [req EXCEPT ![r].status = "pending_approval"]
  /\ UNCHANGED <<stock, so, item, session, taken, unusual>>

RejectToMarketPricing(r) ==
  /\ req[r].status = "pending_approval"
  /\ req' = [req EXCEPT ![r].status = "pricing"]
  /\ UNCHANGED <<stock, so, item, session, taken, unusual>>

\* Back to draft or to the inventory check: the reservation is released, and
\* qty_from_stock stays on the line.
Reject(r, to) ==
  /\ req[r].status \in {"pricing", "pending_approval"}
  /\ reserved' = Less(Remaining(r))
  /\ req' = [req EXCEPT ![r].status = to]
  /\ UNCHANGED <<onHand, so, item, session, taken, unusual>>

\* The oldest open draft of the requisition that has a line, or a new one.
OpenDrafts(r) == {i \in Outs : so[i].status = "draft" /\ so[i].req = r /\ ItemsIn(i) # {}}
CoverOut(r, i) == IF OpenDrafts(r) = {} THEN IsNextOut(i)
                  ELSE i \in OpenDrafts(r) /\ \A j \in OpenDrafts(r) : i <= j

\* Mutant: what earlier Store Outs cover is drafted again.
CoverAgain(r, s) ==
  \E i \in Outs, k \in Items :
    /\ CoverOut(r, i) /\ IsNextItem(k)
    /\ so' = [so EXCEPT ![i] = [status |-> "draft", req |-> r]]
    /\ item' = [item EXCEPT ![k] = [out |-> i, line |-> r, qty |-> s]]

\* coverRequisitionStockLines, for a line whose qty_from_stock is now s.
Cover(r, s) ==
  \/ s <= Covered(r) /\ UNCHANGED <<so, item>>
  \/ /\ s > Covered(r)
     /\ \E i \in Outs, k \in Items :
          /\ CoverOut(r, i) /\ IsNextItem(k)
          /\ so' = [so EXCEPT ![i] = [status |-> "draft", req |-> r]]
          /\ item' = [item EXCEPT ![k] = [out |-> i, line |-> r, qty |-> s - Covered(r)]]

Approve(r) ==
  /\ req[r].status = "pending_approval"
  /\ Cover(r, req[r].stock)
  /\ req' = [req EXCEPT ![r].status =
       IF req[r].stock < req[r].ordered THEN "items_bought" ELSE "sourcing"]
  /\ UNCHANGED <<stock, session, taken, unusual>>

-----------------------------------------------------------------------------
(* Items bought. *)

Missing(r) == req[r].ordered - req[r].stock - req[r].bought
CanBuy(r)  == req[r].status = "items_bought" /\ ~req[r].short

\* recordLinePurchase tests the status outside its transaction ...
AskBuy(u, r) == CanBuy(r) /\ Ask(u, "buy", r, "none", NoAsk, 0)

\* Mutant: what others bought meanwhile is not read under the lock.
BuyUnlocked(u, q) ==
  LET r == session[u].id IN
  /\ Doing(u, "buy")
  /\ ~req[r].short /\ q <= req[r].ordered - req[r].stock
  /\ req' = [req EXCEPT ![r].bought = @ + q]
  /\ Note(IF CanBuy(r) THEN {} ELSE {"late"})
  /\ UNCHANGED <<stock, so, item, taken>>

\* ... and inside, under the line's lock, how much is still missing.
Buy(u, q) ==
  LET r == session[u].id IN
  /\ Doing(u, "buy")
  /\ ~req[r].short /\ q <= Missing(r)
  /\ req' = [req EXCEPT ![r].bought = @ + q]
  /\ Note(IF CanBuy(r) THEN {} ELSE {"late"})
  /\ UNCHANGED <<stock, so, item, taken>>

AskShort(u, r) == CanBuy(r) /\ Missing(r) > 0 /\ Ask(u, "short", r, "none", NoAsk, 0)

MarkShort(u) ==
  /\ Doing(u, "short")
  /\ req' = [req EXCEPT ![session[u].id].short = TRUE]
  /\ UNCHANGED <<stock, so, item, taken, unusual>>

\* resolveRequisitionLineFromStock reads the line ...
AskResolve(u, r, q) ==
  /\ CanBuy(r) /\ q <= Missing(r)
  /\ Ask(u, "resolve", r, "none", req[r], q)

\* ... then reserves q, writes what it read plus q, and covers the line,
\* without a look at what was bought or covered since.
Resolve(u) ==
  LET r == session[u].id
      q == session[u].qty
      s == session[u].stock + q
      sawOld == \/ ~CanBuy(r)
                \/ session[u].stock # req[r].stock \/ session[u].bought # req[r].bought
      again == s > Covered(r) /\ LineIn(r, {"cancelled"}) # {} IN
  /\ Doing(u, "resolve")
  /\ Available >= q
  /\ reserved' = reserved + q
  /\ req' = [req EXCEPT ![r].stock = s]
  /\ Cover(r, s)
  /\ Note((IF sawOld THEN {"late"} ELSE {}) \cup (IF again THEN {"redrafted"} ELSE {}))
  /\ UNCHANGED <<onHand, taken>>

\* rejectTolerancePurchase deletes a purchase that is too dear.  That nobody has
\* approved it is read before the transaction, which deletes by id: approved in
\* between, it is deleted all the same.  (If the buying has ended too, it leaves
\* no trace here: nothing reads `bought' any more.)
RejectPurchase(r, q) ==
  /\ req[r].status = "items_bought" /\ q <= req[r].bought
  /\ req' = [req EXCEPT ![r].bought = @ - q]
  /\ UNCHANGED <<stock, so, item, session, taken, unusual>>

\* finishBuyingRequisition forks the child order.  A line with nothing from
\* stock moves to it; else the original keeps what was not bought.
FinishBuying(r) ==
  LET moves == req[r].stock = 0 /\ ~req[r].short IN
  /\ req[r].status = "items_bought"
  /\ req[r].short \/ Missing(r) <= 0
  /\ req' = [req EXCEPT ![r].status = "sourcing",
       ![r].po = IF req[r].bought > 0 THEN "bought" ELSE "none",
       ![r].onPO = req[r].bought > 0 /\ moves,
       ![r].ordered = IF req[r].bought > 0 /\ ~moves THEN @ - req[r].bought ELSE @]
  /\ UNCHANGED <<stock, so, item, session, taken, unusual>>

-----------------------------------------------------------------------------
(* Completion and cancellation. *)

\* The part of the line that moved to the child order: the line itself, or a
\* copy of it for what was bought.
BoughtLine(l) == IF l.onPO THEN "own" ELSE "bought"

BoughtResolved(l) == l.po \in {"none", "closed", "cancelled"} \/ BoughtLine(l) \in l.closed

\* Mutant: the rule of a fix that was undone: a draft Store Out is enough.
ResolvedByDraft(l, n) == BoughtResolved(l)

\* Every line is closed, issued from stock, or on a finished child order.
Resolved(l, n) ==
  /\ "own" \in l.closed \/ l.onPO \/ l.stock <= n
  /\ BoughtResolved(l)

\* evaluateRequisitionCompletion on the record l, n units being issued.
Evaluated(l, n) == IF l.status = "sourcing" /\ Resolved(l, n)
                   THEN [l EXCEPT !.status = "completed"] ELSE l

\* The child order is received, then completed by completePO.
ReceiveChild(r) ==
  /\ req[r].po = "bought"
  /\ req' = [req EXCEPT ![r].po = "received"]
  /\ UNCHANGED <<stock, so, item, session, taken, unusual>>

CompleteChild(r) ==
  /\ req[r].po = "received"
  /\ req' = [req EXCEPT ![r] = Evaluated([@ EXCEPT !.po = "closed"], Issued(r))]
  /\ UNCHANGED <<stock, so, item, session, taken, unusual>>

CancelChild(r) ==
  /\ req[r].po = "bought"
  /\ req' = [req EXCEPT ![r] = Evaluated([@ EXCEPT !.po = "cancelled"], Issued(r))]
  /\ UNCHANGED <<stock, so, item, session, taken, unusual>>

\* closeRequisitionLine: a supervisor gives up the line, or what was bought.
CloseLine(r, part) ==
  /\ req[r].status = "sourcing" /\ part \notin req[r].closed
  /\ part = "own" \/ (req[r].po # "none" /\ part = BoughtLine(req[r]))
  /\ LET l == [req[r] EXCEPT !.closed = req[r].closed \cup {part}] IN
     req' = [req EXCEPT ![r] = Evaluated(l, Issued(r))]
  /\ UNCHANGED <<stock, so, item, session, taken, unusual>>

\* cancelRequisition reads the status and looks for received child orders ...
AskCancel(u, r) ==
  /\ req[r].status \notin {"completed", "cancelled"}
  /\ req[r].po \notin {"received", "closed"}
  /\ Ask(u, "cancel", r, req[r].status, NoAsk, 0)

\* ... releases what the line seems to hold and cancels the draft Store Outs,
\* all undone if the status is no longer the one read.
Cancel(u) ==
  LET r == session[u].id IN
  /\ Doing(u, "cancel")
  /\ req[r].status = session[u].status
  /\ reserved' = Less(Remaining(r))
  /\ so' = [i \in Outs |-> IF so[i].req = r /\ so[i].status = "draft"
                           THEN [so[i] EXCEPT !.status = "cancelled"] ELSE so[i]]
  /\ req' = [req EXCEPT ![r].status = "cancelled",
                        ![r].po = IF @ = "bought" THEN "cancelled" ELSE @]
  /\ Note(IF req[r].status \in {"draft", "inventory_check"} /\ Remaining(r) > 0
          THEN {"rereleased"} ELSE {})
  /\ UNCHANGED <<onHand, item, taken>>

-----------------------------------------------------------------------------
(* Store Outs.  Each operation reads the status before its transaction, and *)
(* the transaction does not look at it again.                               *)

CreateStoreOut ==
  /\ Cardinality({i \in Outs : so[i].status # "absent" /\ so[i].req = NoReq}) < MaxManual
  /\ \E i \in Outs : IsNextOut(i) /\ so' = [so EXCEPT ![i].status = "draft"]
  /\ UNCHANGED <<stock, req, item, session, taken, unusual>>

AskAddLine(u, i) == so[i].status = "draft" /\ Ask(u, "add", i, "draft", NoAsk, 0)

\* addMaterialIssueLine, by hand, with or without a requisition's line.
AddLine(u, l, q) ==
  LET i == session[u].id IN
  /\ Doing(u, "add")
  /\ \E k \in Items : /\ IsNextItem(k)
                      /\ item' = [item EXCEPT ![k] = [out |-> i, line |-> l, qty |-> q]]
  /\ Note((IF l # NoReq THEN {"byhand"} ELSE {})
          \cup (IF so[i].status # "draft" THEN {"late"} ELSE {}))
  /\ UNCHANGED <<stock, req, so, taken>>

AskDeleteLine(u, k) ==
  /\ item[k] # NoItem /\ so[item[k].out].status = "draft"
  /\ Ask(u, "delete", k, "draft", NoAsk, 0)

\* deleteMaterialIssueLine releases the whole of what the line still holds.
DeleteLine(u) ==
  LET k == session[u].id
      l == item[k].line IN
  /\ Doing(u, "delete")
  /\ item[k] # NoItem
  /\ reserved' = IF l = NoReq THEN reserved ELSE Less(Remaining(l))
  /\ item' = [item EXCEPT ![k] = NoItem]
  /\ Note((IF l # NoReq THEN {"discarded"} ELSE {})
          \cup (IF so[item[k].out].status # "draft" THEN {"late"} ELSE {}))
  /\ UNCHANGED <<onHand, req, so, taken>>

AskIssue(u, i) == so[i].status = "draft" /\ Ask(u, "issue", i, "draft", NoAsk, 0)

Linked(i) == {k \in ItemsIn(i) : item[k].line # NoReq}
Manual(i) == ItemsIn(i) \ Linked(i)

\* Mutant: a line added by hand may take units that are reserved.
EnoughOnHand(i) == Qty(Linked(i)) <= reserved /\ Qty(ItemsIn(i)) <= onHand

\* A linked line needs its units on hand and in the reservation, one added by
\* hand needs them on hand and not reserved.
Enough(i) ==
  /\ Qty(Linked(i)) <= reserved /\ Qty(Linked(i)) <= onHand
  /\ Qty(Manual(i)) = 0 \/ Qty(Manual(i)) <= Available

\* SUM(qty_issued) of the issued lines, once Store Out i is one of them.
IssuedWith(r, i) ==
  Qty(LineIn(r, {"issued"}) \cup {k \in ItemsIn(i) : item[k].line = r})

\* issueMaterialIssue takes the units out and evaluates the requisition.
Issue(u) ==
  LET i == session[u].id IN
  /\ Doing(u, "issue")
  /\ Enough(i)
  /\ reserved' = reserved - Qty(Linked(i))
  /\ onHand' = onHand - Qty(Linked(i)) - Qty(Manual(i))
  /\ so' = [so EXCEPT ![i].status = "issued"]
  /\ req' = [r \in Reqs |-> IF r = so[i].req THEN Evaluated(req[r], IssuedWith(r, i))
                                            ELSE req[r]]
  /\ taken' = IF ItemsIn(i) = {} THEN taken ELSE [taken EXCEPT ![i] = @ + 1]
  /\ Note(IF so[i].status # "draft" THEN {"late"} ELSE {})
  /\ UNCHANGED item

AskCancelStoreOut(u, i) ==
  /\ so[i].status \in {"draft", "issued"}
  /\ Ask(u, "cancelOut", i, so[i].status, NoAsk, 0)

\* What the lines of a draft still hold, all requisitions together.
Held(i) == Total([r \in Reqs |-> AtLeast0(Remaining(r))],
                 {item[k].line : k \in Linked(i)})

\* Mutant: the status is changed first, and nothing is left to release.
CancelFirst(u) ==
  LET i == session[u].id IN
  /\ Doing(u, "cancelOut")
  /\ so' = [so EXCEPT ![i].status = "cancelled"]
  /\ Note(IF so[i].status # session[u].status THEN {"late"} ELSE {})
  /\ UNCHANGED <<stock, req, item, taken>>

\* cancelMaterialIssue gives a draft's reservation back; an issued Store Out
\* is cancelled on paper only.
CancelStoreOut(u) ==
  LET i == session[u].id IN
  /\ Doing(u, "cancelOut")
  /\ reserved' = IF session[u].status = "draft" THEN Less(Held(i)) ELSE reserved
  /\ so' = [so EXCEPT ![i].status = "cancelled"]
  /\ Note(IF so[i].status # session[u].status THEN {"late"} ELSE {})
  /\ UNCHANGED <<onHand, req, item, taken>>

-----------------------------------------------------------------------------
Quantities == 1..MaxOnHand

Requisition(r) ==
  \/ SubmitToInventoryCheck(r) \/ VerifyPrices(r) \/ RejectToMarketPricing(r)
  \/ ConfirmOmitting(r) \/ \E q \in 0..MaxOnHand : ConfirmInventoryCheck(r, q)
  \/ \E to \in {"draft", "inventory_check"} : Reject(r, to)
  \/ Approve(r) \/ FinishBuying(r)
  \/ \E q \in Quantities : RejectPurchase(r, q)
  \/ ReceiveChild(r) \/ CompleteChild(r) \/ CancelChild(r)
  \/ \E part \in {"own", "bought"} : CloseLine(r, part)

AskAny(u) ==
  \/ \E r \in Reqs : AskBuy(u, r) \/ AskShort(u, r) \/ AskCancel(u, r)
  \/ \E r \in Reqs, q \in Quantities : AskResolve(u, r, q)
  \/ \E i \in Outs : AskAddLine(u, i) \/ AskIssue(u, i) \/ AskCancelStoreOut(u, i)
  \/ \E k \in Items : AskDeleteLine(u, k)

DoAny(u) ==
  \/ \E q \in Quantities : Buy(u, q) \/ \E l \in Lines : AddLine(u, l, q)
  \/ MarkShort(u) \/ Resolve(u) \/ Cancel(u)
  \/ DeleteLine(u) \/ Issue(u) \/ CancelStoreOut(u)
  \/ GiveUp(u)

Next ==
  \/ \E r \in Reqs : Requisition(r)
  \/ \E u \in Users : AskAny(u) \/ DoAny(u)
  \/ CreateStoreOut
  \/ \E n \in 0..MaxOnHand : Adjust(n)

Spec == Init /\ [][Next]_vars

-----------------------------------------------------------------------------
(* Properties. *)

Statuses == {"draft", "inventory_check", "pricing", "pending_approval",
             "items_bought", "sourcing", "completed", "cancelled"}

ReqType ==
  [status : Statuses, ordered : Int, stock : Nat, bought : Nat, short : BOOLEAN,
   closed : SUBSET {"own", "bought"}, po : {"none", "bought", "received", "closed", "cancelled"},
   onPO : BOOLEAN]

AskType ==
  {NoAsk}
  \cup [op : {"buy", "short", "resolve", "cancel"}, id : Reqs,
        status : Statuses \cup {"none"}, stock : Nat, bought : Nat, qty : Nat]
  \cup [op : {"add", "issue", "cancelOut"}, id : Outs,
        status : {"draft", "issued"}, stock : {0}, bought : {0}, qty : {0}]
  \cup [op : {"delete"}, id : Items, status : {"draft"}, stock : {0}, bought : {0},
        qty : {0}]

\* Every variable holds what its column, or the request's memory, can hold.
TypeOK ==
  /\ onHand \in 0..MaxOnHand /\ reserved \in Nat
  /\ req \in [Reqs -> ReqType]
  /\ so \in [Outs -> [status : {"absent", "draft", "issued", "cancelled"}, req : Lines]]
  /\ item \in [Items -> [out : 0..MaxOuts, line : Lines, qty : Nat]]
  /\ session \in [Users -> AskType]
  /\ taken \in [Outs -> Nat]

\* No order of concurrent checks, releases, Store Outs and stale requests
\* reserves more than there is: only an adjustment or a move, which look at
\* what is on hand alone, can leave the store short of what it promised.
ReservedWithinOnHand == "drained" \notin unusual => reserved <= onHand

\* Every reserved unit is promised: to a requisition on its way to approval,
\* or to a draft Store Out that will take it out.  Nothing is stranded and
\* nothing is promised twice, except through the kinds of event listed.
Waiting(r)   == req[r].status \in {"pricing", "pending_approval"}
Promise(r)   == IF Waiting(r) THEN req[r].stock ELSE Drafted(r)
Promised     == Total([r \in Reqs |-> Promise(r)], Reqs)
PromisesKept == unusual \subseteq {"drained"} => reserved = Promised

\* The units of a Store Out leave the store once, when it leaves the drafts.
TakenOnce == \A i \in Outs : taken[i] <= 1 /\ (so[i].status = "draft" => taken[i] = 0)

\* The kinds of events that leave the Store Outs what the lines say.
Harmless == {"drained", "rereleased", "omitted"}

\* Whatever is covered from stock has its Store Outs, for exactly that much,
\* from the approval on, through purchases, later coverage and cancelled
\* drafts (playbook.md 44: it ALWAYS gets a draft Store Out), and a Store Out
\* takes its units out of the store once, when it leaves the drafts.
CoveredOnce ==
  unusual \subseteq Harmless =>
    /\ \A r \in Reqs :
         req[r].status \in {"items_bought", "sourcing", "completed"}
         => req[r].stock = Qty(LineIn(r, {"draft", "issued", "cancelled"}))
    /\ TakenOnce

\* Buyers and the store never provide more than was ordered.  Two buyers may
\* overtake each other, since the lock of the line makes the second read again.
\* Nothing does so for the store (resolvers.ts:36520-36578): a coverage counts
\* as late, and ends the promise, when the line is no longer what it had read.
NeverOverbought ==
  \A r \in Reqs : req[r].status = "items_bought" /\ "late" \notin unusual
                  => req[r].stock + req[r].bought <= req[r].ordered

\* Why NeverOverbought holds: nothing is bought before the approval, the lock of
\* the line keeps what is bought within the order, and what a coverage will
\* write fits into the order with what it has read.
BeforeApproval == {"draft", "inventory_check", "pricing", "pending_approval"}
WithinOrder(l) ==
  /\ l.status \in BeforeApproval => l.bought = 0
  /\ l.status = "items_bought" => l.stock + l.bought <= l.ordered
ReadWithinOrder(a, l) ==
  /\ l.status \notin BeforeApproval
  /\ l.status = "items_bought" => a.stock + a.bought + a.qty <= l.ordered
Within == "late" \notin unusual => \A r \in Reqs : WithinOrder(req[r])
Asked  == \A u \in Users : session[u].op = "resolve"
                            => ReadWithinOrder(session[u], req[session[u].id])
BuyInv == TypeOK /\ Within /\ Asked

\* Why TakenOnce holds: nothing has left the store for a Store Out before it
\* leaves the drafts, unless a request tested its status and came late.
TakenInv ==
  TypeOK /\ ("late" \notin unusual =>
    \A i \in Outs : /\ taken[i] <= 1
                    /\ so[i].status \in {"absent", "draft"} => taken[i] = 0)

\* A requisition completes only when no draft Store Out of it is left, unless
\* a supervisor closed its line (the rule of playbook.md 44).
CompletesAfterIssue ==
  [][\A r \in Reqs :
       /\ req[r].status # "completed" /\ req'[r].status = "completed"
       /\ unusual' \subseteq Harmless
       => "own" \in req'[r].closed \/ Drafted(r)' = 0]_vars

\* The documents as a store: a requisition is a customer, and what it is
\* promised is what it has covered on its way to approval and what its draft
\* Store Out holds.
Store == INSTANCE Stock WITH
  Customers <- Reqs,
  free      <- Available,
  promised  <- [r \in Reqs |-> Promise(r)],
  disturbed <- unusual

\* Inventory checks, rejections, approvals, coverages, Store Outs confirmed or
\* cancelled and cancelled requisitions, in any order and overtaking each
\* other, are a store where each unit is free or promised to one requisition:
\* a promise is made of free units, handed out or released as a whole, and by
\* nobody but its requisition.
ImplementsStock == Store!Spec

-----------------------------------------------------------------------------
(* Why CoveredOnce, CompletesAfterIssue and PromisesKept hold. *)

\* The lines of Store Outs that name requisition r.
Own(r) == {k \in Items : item[k] # NoItem /\ item[k].line = r}

\* A line that names a requisition is on a Store Out of it.
Placed(k) ==
  item[k] # NoItem =>
    /\ item[k].out \in Outs /\ so[item[k].out].status # "absent"
    /\ item[k].line # NoReq => so[item[k].out].req = item[k].line

\* A requisition has one draft Store Out at most, and a line of its own on it:
\* to release all that a requisition holds is to release what its draft holds.
OneDraft ==
  /\ \A i, j \in Outs : so[i].status = "draft" /\ so[j].status = "draft"
                        /\ so[i].req = so[j].req /\ so[i].req \in Reqs => i = j
  /\ \A i \in Outs : so[i].status = "draft" /\ so[i].req \in Reqs
                    => \E k \in Own(so[i].req) : item[k].out = i

\* What the Store Outs of requisition r hold when its record is l.
LineSound(l, r) ==
  /\ l.status \in {"draft", "inventory_check", "pricing", "pending_approval"} => Own(r) = {}
  /\ l.status \in {"items_bought", "sourcing", "completed"} => l.stock = Qty(Own(r))
  /\ l.status = "cancelled" => LineIn(r, {"draft"}) = {}
  /\ l.onPO => l.stock = 0 /\ l.status \in {"sourcing", "completed", "cancelled"}

Covering == (\A k \in Items : Placed(k)) /\ OneDraft /\ \A r \in Reqs : LineSound(req[r], r)

\* Nobody asks to cancel what is over.
Cancelling ==
  \A u \in Users : session[u].op = "cancel"
                   => session[u].status \notin {"completed", "cancelled"}

CoverInv   == TypeOK /\ Cancelling /\ (unusual \subseteq Harmless => Covering)
PromiseInv == CoverInv /\ PromisesKept
=============================================================================
