-------------------------- MODULE ReservationProofs --------------------------
(***************************************************************************)
(* Theorems about Reservation for every number of requisitions, users,     *)
(* Store Outs and lines, and every quantity.                               *)
(***************************************************************************)
EXTENDS Reservation, FiniteSetTheorems, FunctionTheorems, TLAPS

-----------------------------------------------------------------------------
(* Quantities. *)

\* The units of S are finitely many.
LEMMA UnitsAreFinite ==
  ASSUME NEW f, NEW S, IsFiniteSet(S), \A x \in S : f[x] \in Nat
  PROVE  IsFiniteSet(Units(f, S))
<1> DEFINE g == [x \in S |-> {x} \X (1..f[x])]
           T == {{x} \X (1..f[x]) : x \in S}
<1>1. g \in Surjection(S, T)
  BY DEF Surjection
<1>2. IsFiniteSet(T)
  BY <1>1, FS_Surjection
<1>3. ASSUME NEW x \in S PROVE IsFiniteSet({x} \X (1..f[x]))
  <2>1. IsFiniteSet({x})
    BY FS_Singleton, Zenon
  <2>2. IsFiniteSet(1..f[x])
    BY FS_Interval
  <2> QED
    BY <2>1, <2>2, FS_Product
<1>4. \A U \in T : IsFiniteSet(U)
  BY <1>3
<1> HIDE DEF T
<1>5. IsFiniteSet(UNION T)
  BY <1>2, <1>4, FS_UNION
<1> QED
  BY <1>5 DEF Units, T

\* A sum is a natural number.
LEMMA TotalIsNatural ==
  ASSUME NEW f, NEW S, IsFiniteSet(S), \A x \in S : f[x] \in Nat
  PROVE  Total(f, S) \in Nat
  BY UnitsAreFinite, FS_CardinalityType DEF Total

\* Sums over disjoint sets add up.
LEMMA TotalOfUnion ==
  ASSUME NEW f, NEW S, NEW T, IsFiniteSet(S), IsFiniteSet(T), S \cap T = {},
         \A x \in S \cup T : f[x] \in Nat
  PROVE  Total(f, S \cup T) = Total(f, S) + Total(f, T)
<1>1. IsFiniteSet(Units(f, S)) /\ IsFiniteSet(Units(f, T))
  BY UnitsAreFinite
<1>2. Units(f, S \cup T) = Units(f, S) \cup Units(f, T)
  BY DEF Units
<1>3. Units(f, S) \cap Units(f, T) = {}
  BY DEF Units
<1>4. Cardinality(Units(f, S)) \in Nat /\ Cardinality(Units(f, T)) \in Nat
  BY <1>1, FS_CardinalityType
<1>5. Cardinality(Units(f, S) \cap Units(f, T)) = 0
  BY <1>3, FS_EmptySet
<1>6. Cardinality(Units(f, S) \cup Units(f, T))
        = Cardinality(Units(f, S)) + Cardinality(Units(f, T))
          - Cardinality(Units(f, S) \cap Units(f, T))
  BY <1>1, FS_Union
<1>7. Cardinality(Units(f, S) \cup Units(f, T))
        = Cardinality(Units(f, S)) + Cardinality(Units(f, T))
  BY <1>4, <1>5, <1>6
<1> QED
  BY <1>2, <1>7 DEF Total

\* The sum over nothing is zero.
LEMMA TotalOfNone == ASSUME NEW f PROVE Total(f, {}) = 0
<1>1. Units(f, {}) = {}
  BY DEF Units
<1> QED
  BY <1>1, FS_EmptySet DEF Total

\* The sum over one member is its value.
LEMMA TotalOfOne == ASSUME NEW f, NEW x, f[x] \in Nat PROVE Total(f, {x}) = f[x]
<1>1. Units(f, {x}) = {x} \X (1..f[x])
  BY DEF Units
<1>2. IsFiniteSet({x}) /\ Cardinality({x}) = 1
  BY FS_Singleton, Zenon
<1>3. IsFiniteSet(1..f[x]) /\ Cardinality(1..f[x]) = f[x]
  BY FS_Interval
<1>4. Cardinality({x} \X (1..f[x])) = Cardinality({x}) * Cardinality(1..f[x])
  BY <1>2, <1>3, FS_Product
<1>5. Cardinality({x} \X (1..f[x])) = f[x]
  BY <1>2, <1>3, <1>4
<1> QED
  BY <1>1, <1>5 DEF Total

\* Only the values on S matter.
LEMMA TotalOfSame ==
  ASSUME NEW f, NEW g, NEW S, \A x \in S : f[x] = g[x]
  PROVE  Total(f, S) = Total(g, S)
<1>1. Units(f, S) = Units(g, S)
  BY DEF Units
<1> QED
  BY <1>1 DEF Total

\* What is issued is a natural number on every line.
LEMMA AmountsType ==
  ASSUME TypeOK
  PROVE  Amounts \in [Items -> Nat]
<1>1. ASSUME NEW k \in Items PROVE item[k].qty \in Nat
  BY <1>1 DEF TypeOK
<1> QED
  BY <1>1 DEF Amounts

\* There are finitely many lines of Store Outs.
LEMMA ItemsAreFinite == ASSUME NEW S \in SUBSET Items PROVE IsFiniteSet(S)
<1>1. IsFiniteSet(Items)
  BY ConstantsAssumption, FS_Interval DEF Items, ConstantsAssumption
<1> QED
  BY <1>1, FS_Subset

\* So is a quantity on Store Outs.
LEMMA QtyIsNatural ==
  ASSUME TypeOK, NEW S \in SUBSET Items
  PROVE  Qty(S) \in Nat
<1>1. IsFiniteSet(S) /\ \A k \in S : Amounts[k] \in Nat
  BY AmountsType, ItemsAreFinite
<1> QED
  BY <1>1, TotalIsNatural DEF Qty

\* A release leaves a natural number, and no more than there was.
LEMMA LessReserved ==
  ASSUME reserved \in Nat, NEW n \in Int
  PROVE  Less(n) \in Nat /\ Less(n) <= reserved
  BY DEF Less, AtLeast0

\* What remains reserved is an integer.
LEMMA RemainingIsInteger ==
  ASSUME TypeOK, NEW r \in Reqs
  PROVE  Remaining(r) \in Int
<1>1. req[r].stock \in Nat
  BY DEF TypeOK, ReqType
<1>2. Qty(LineIn(r, {"issued", "cancelled"})) \in Nat
  BY QtyIsNatural DEF LineIn
<1> QED
  BY <1>1, <1>2 DEF Remaining

\* So is what the lines of a Store Out still hold.
LEMMA HeldIsNatural ==
  ASSUME TypeOK, NEW i
  PROVE  Held(i) \in Nat
<1> DEFINE f == [r \in Reqs |-> AtLeast0(Remaining(r))]
           S == {item[k].line : k \in Linked(i)}
<1>1. S \subseteq Reqs
  BY DEF TypeOK, Linked, ItemsIn, Lines
<1>2. IsFiniteSet(S)
  BY <1>1, ConstantsAssumption, FS_Subset DEF ConstantsAssumption
<1>3. \A r \in S : f[r] \in Nat
  BY <1>1, RemainingIsInteger DEF AtLeast0
<1> HIDE DEF f, S
<1>4. Total(f, S) \in Nat
  BY <1>2, <1>3, TotalIsNatural
<1> QED
  BY <1>4 DEF Held, f, S

-----------------------------------------------------------------------------
(* Records. *)

\* What each kind of statement makes of a requisition and its line.
LEMMA StatusSet ==
  ASSUME NEW l \in ReqType, NEW status \in Statuses
  PROVE  [l EXCEPT !.status = status] \in ReqType
  BY DEF ReqType

\* Entries of a requisition stay in its type.
LEMMA StockSet ==
  ASSUME NEW l \in ReqType, NEW n \in Nat
  PROVE  [l EXCEPT !.stock = n] \in ReqType
  BY DEF ReqType

\* The quantity bought.
LEMMA BoughtSet ==
  ASSUME NEW l \in ReqType, NEW n \in Nat
  PROVE  [l EXCEPT !.bought = n] \in ReqType
  BY DEF ReqType

\* The outcome of the inventory check.
LEMMA CheckSet ==
  ASSUME NEW l \in ReqType, NEW n \in Nat, NEW status \in Statuses
  PROVE  [l EXCEPT !.stock = n, !.status = status] \in ReqType
  BY DEF ReqType

\* A cancellation.
LEMMA CancelSet ==
  ASSUME NEW l \in ReqType, NEW status \in Statuses,
         NEW po \in {"none", "bought", "received", "closed", "cancelled"}
  PROVE  [l EXCEPT !.status = status, !.po = po] \in ReqType
  BY DEF ReqType

\* The end of buying.
LEMMA FinishSet ==
  ASSUME NEW l \in ReqType, NEW status \in Statuses, NEW ordered \in Int,
         NEW po \in {"none", "bought", "received", "closed", "cancelled"},
         NEW onPO \in BOOLEAN
  PROVE  [l EXCEPT !.status = status, !.po = po, !.onPO = onPO, !.ordered = ordered]
           \in ReqType
  BY DEF ReqType

\* The evaluation of completion.
LEMMA EvaluatedType ==
  ASSUME NEW l \in ReqType, NEW n
  PROVE  Evaluated(l, n) \in ReqType
<1>1. "completed" \in Statuses
  BY DEF Statuses
<1>2. [l EXCEPT !.status = "completed"] \in ReqType
  BY <1>1 DEF ReqType
<1> QED
  BY <1>2 DEF Evaluated

\* What a request remembers is of the kind its operation asks for.
LEMMA AskKinds ==
  ASSUME NEW a \in AskType
  PROVE  /\ a.op \in {"buy", "short", "resolve", "cancel"} =>
              a.id \in Reqs /\ a.stock \in Nat /\ a.bought \in Nat /\ a.qty \in Nat
         /\ a.op \in {"add", "issue", "cancelOut"} => a.id \in Outs
         /\ a.op = "delete" => a.id \in Items
  BY DEF AskType, NoAsk

\* No request is a request of its type.
LEMMA NoAskType == NoAsk \in AskType
  BY DEF AskType

-----------------------------------------------------------------------------
(* Type correctness. *)

\* The initial state has the right types.
LEMMA InitType == Init => TypeOK
<1> SUFFICES ASSUME Init PROVE TypeOK
  OBVIOUS
<1>1. onHand \in 0..MaxOnHand /\ reserved \in Nat
  BY DEF Init
<1>2. req \in [Reqs -> ReqType]
  <2>1. PICK size \in [Reqs -> Sizes] :
          req = [r \in Reqs |-> [status |-> "draft", ordered |-> size[r], stock |-> 0,
                  bought |-> 0, short |-> FALSE, closed |-> {}, po |-> "none",
                  onPO |-> FALSE]]
    BY DEF Init
  <2>2. ASSUME NEW r \in Reqs PROVE size[r] \in Int
    <3>1. size[r] \in Sizes /\ Sizes \subseteq Int
      BY ConstantsAssumption DEF ConstantsAssumption
    <3> QED
      BY <3>1
  <2> QED
    BY <2>1, <2>2 DEF ReqType, Statuses
<1>3. so \in [Outs -> [status : {"absent", "draft", "issued", "cancelled"}, req : Lines]]
  BY DEF Init, NoOut, Lines
<1>4. item \in [Items -> [out : 0..MaxOuts, line : Lines, qty : Nat]]
  <2>1. NoItem \in [out : 0..MaxOuts, line : Lines, qty : Nat]
    BY ConstantsAssumption DEF NoItem, Lines, ConstantsAssumption
  <2> QED
    BY <2>1 DEF Init
<1>5. session \in [Users -> AskType] /\ taken \in [Outs -> Nat]
  BY NoAskType DEF Init
<1> QED
  BY <1>1, <1>2, <1>3, <1>4, <1>5 DEF TypeOK

\* The request ends: its session is empty again.
LEMMA DoneType ==
  ASSUME TypeOK, NEW u \in Users, NEW op, Doing(u, op)
  PROVE  session' \in [Users -> AskType] /\ session[u] \in AskType /\ session[u].op = op
  BY NoAskType DEF TypeOK, Doing

\* The lines and Store Outs after covering a requisition.
LEMMA CoverType ==
  ASSUME TypeOK, NEW r \in Reqs, NEW s \in Nat, Cover(r, s)
  PROVE  /\ so' \in [Outs -> [status : {"absent", "draft", "issued", "cancelled"},
                              req : Lines]]
         /\ item' \in [Items -> [out : 0..MaxOuts, line : Lines, qty : Nat]]
<1>1. CASE s <= Covered(r) /\ UNCHANGED <<so, item>>
  BY <1>1 DEF TypeOK
<1>2. CASE s > Covered(r) /\ \E i \in Outs, k \in Items :
               /\ CoverOut(r, i) /\ IsNextItem(k)
               /\ so' = [so EXCEPT ![i] = [status |-> "draft", req |-> r]]
               /\ item' = [item EXCEPT ![k] = [out |-> i, line |-> r, qty |-> s - Covered(r)]]
  <2>1. PICK i \in Outs, k \in Items :
          /\ so' = [so EXCEPT ![i] = [status |-> "draft", req |-> r]]
          /\ item' = [item EXCEPT ![k] = [out |-> i, line |-> r, qty |-> s - Covered(r)]]
    BY <1>2
  <2>2. Covered(r) \in Nat
    BY QtyIsNatural DEF Covered, LineIn
  <2>3. s - Covered(r) \in Nat
    BY <1>2, <2>2
  <2>4. [out |-> i, line |-> r, qty |-> s - Covered(r)]
          \in [out : 0..MaxOuts, line : Lines, qty : Nat]
    BY <2>3, ConstantsAssumption DEF Outs, Lines, ConstantsAssumption
  <2>5. [status |-> "draft", req |-> r]
          \in [status : {"absent", "draft", "issued", "cancelled"}, req : Lines]
    BY DEF Lines
  <2> QED
    BY <2>1, <2>4, <2>5 DEF TypeOK
<1> QED
  BY <1>1, <1>2 DEF Cover

\* The operations that are one step on a requisition.
LEMMA RequisitionType ==
  ASSUME TypeOK, NEW r \in Reqs, Requisition(r)
  PROVE  TypeOK'
<1> DEFINE l == req[r]
<1>1. l \in ReqType /\ req \in [Reqs -> ReqType] /\ reserved \in Nat
  BY DEF TypeOK
<1>2. ASSUME NEW s \in Statuses PROVE [req EXCEPT ![r].status = s] \in [Reqs -> ReqType]
  <2>1. [l EXCEPT !.status = s] \in ReqType
    BY <1>1, StatusSet
  <2> QED
    BY <1>1, <2>1
<1>3. {"draft", "inventory_check", "pricing", "pending_approval", "items_bought",
       "sourcing"} \subseteq Statuses
  BY DEF Statuses
<1>4. ASSUME SubmitToInventoryCheck(r) \/ VerifyPrices(r) \/ RejectToMarketPricing(r)
      PROVE  TypeOK'
  <2>1. req' \in [Reqs -> ReqType]
    BY <1>2, <1>3, <1>4 DEF SubmitToInventoryCheck, VerifyPrices, RejectToMarketPricing
  <2>2. UNCHANGED <<stock, so, item, session, taken>>
    BY <1>4 DEF SubmitToInventoryCheck, VerifyPrices, RejectToMarketPricing
  <2> QED
    BY <2>1, <2>2 DEF TypeOK, stock
<1>5. ASSUME NEW q \in 0..MaxOnHand, ConfirmInventoryCheck(r, q)
      PROVE  TypeOK'
  <2> DEFINE s == IF q < req[r].ordered THEN "pricing" ELSE "pending_approval"
  <2>1. q \in Nat /\ s \in Statuses
    BY <1>3, ConstantsAssumption DEF ConstantsAssumption
  <2>2. req' = [req EXCEPT ![r] = [l EXCEPT !.stock = q, !.status = s]]
    BY <1>5, <1>1 DEF ConfirmInventoryCheck
  <2>3. [l EXCEPT !.stock = q, !.status = s] \in ReqType
    <3> HIDE DEF s, l
    <3> QED
      BY <1>1, <2>1, CheckSet
  <2>4. req' \in [Reqs -> ReqType]
    BY <1>1, <2>2, <2>3
  <2>5. reserved' \in Nat /\ UNCHANGED <<onHand, so, item, session, taken>>
    BY <1>1, <1>5, <2>1 DEF ConfirmInventoryCheck
  <2> QED
    BY <2>4, <2>5 DEF TypeOK
<1>11. ASSUME ConfirmOmitting(r)
       PROVE  TypeOK'
  <2> DEFINE s == IF req[r].stock < req[r].ordered THEN "pricing" ELSE "pending_approval"
  <2>1. s \in Statuses
    BY <1>3
  <2>2. req' = [req EXCEPT ![r].status = s] /\ UNCHANGED <<stock, so, item, session, taken>>
    BY <1>11 DEF ConfirmOmitting
  <2> HIDE DEF s
  <2>3. req' \in [Reqs -> ReqType]
    BY <1>2, <2>1, <2>2
  <2> QED
    BY <2>2, <2>3 DEF TypeOK, stock
<1>6. ASSUME NEW to \in {"draft", "inventory_check"}, Reject(r, to)
      PROVE  TypeOK'
  <2>1. req' \in [Reqs -> ReqType]
    BY <1>2, <1>3, <1>6 DEF Reject
  <2>2. reserved' \in Nat
    BY <1>1, <1>6, LessReserved, RemainingIsInteger DEF Reject
  <2> QED
    BY <1>6, <2>1, <2>2 DEF TypeOK, Reject
<1>7. ASSUME Approve(r)
      PROVE  TypeOK'
  <2>1. req' \in [Reqs -> ReqType]
    BY <1>2, <1>3, <1>7 DEF Approve
  <2>2. l.stock \in Nat
    BY <1>1 DEF ReqType
  <2>3. Cover(r, l.stock) /\ UNCHANGED <<stock, session, taken>>
    BY <1>7 DEF Approve
  <2> QED
    BY <2>1, <2>2, <2>3, CoverType DEF TypeOK, stock
<1>8. ASSUME FinishBuying(r)
      PROVE  TypeOK'
  <2>1. PICK po, c, ordered :
          /\ req' = [req EXCEPT ![r] = [l EXCEPT !.status = "sourcing", !.po = po,
                                                 !.onPO = c, !.ordered = ordered]]
          /\ po \in {"bought", "none"} /\ c \in BOOLEAN /\ ordered \in Int
    <3> DEFINE moves == l.stock = 0 /\ ~l.short
               po == IF l.bought > 0 THEN "bought" ELSE "none"
               c == l.bought > 0 /\ moves
               ordered == IF l.bought > 0 /\ ~moves THEN l.ordered - l.bought
                                                    ELSE l.ordered
    <3>1. req' = [req EXCEPT ![r] = [l EXCEPT !.status = "sourcing", !.po = po,
                                              !.onPO = c, !.ordered = ordered]]
      BY <1>1, <1>8 DEF FinishBuying
    <3>2. ordered \in Int
      BY <1>1 DEF ReqType
    <3>3. po \in {"bought", "none"} /\ c \in BOOLEAN
      OBVIOUS
    <3> HIDE DEF po, c, ordered
    <3> QED
      BY <3>1, <3>2, <3>3
  <2>2. [l EXCEPT !.status = "sourcing", !.po = po, !.onPO = c, !.ordered = ordered]
          \in ReqType
    <3> HIDE DEF l
    <3> QED
      BY <1>1, <1>3, <2>1, FinishSet
  <2>3. req' \in [Reqs -> ReqType]
    BY <1>1, <2>1, <2>2
  <2> QED
    BY <1>8, <2>3 DEF TypeOK, FinishBuying, stock
<1>9. ASSUME \/ ReceiveChild(r) \/ CompleteChild(r) \/ CancelChild(r)
             \/ \E part \in {"own", "bought"} : CloseLine(r, part)
      PROVE  TypeOK'
  <2>1. /\ [l EXCEPT !.po = "received"] \in ReqType
        /\ [l EXCEPT !.po = "closed"] \in ReqType
        /\ [l EXCEPT !.po = "cancelled"] \in ReqType
        /\ \A part \in {"own", "bought"} :
             [l EXCEPT !.closed = l.closed \cup {part}] \in ReqType
    BY <1>1 DEF ReqType
  <2>2. PICK m \in ReqType : req' = [req EXCEPT ![r] = m]
    <3>1. CASE ReceiveChild(r)
      BY <2>1, <3>1 DEF ReceiveChild
    <3>2. CASE CompleteChild(r)
      <4>1. Evaluated([l EXCEPT !.po = "closed"], Issued(r)) \in ReqType
        BY <2>1, EvaluatedType
      <4> QED
        BY <3>2, <4>1, <1>1 DEF CompleteChild
    <3>3. CASE CancelChild(r)
      <4>1. Evaluated([l EXCEPT !.po = "cancelled"], Issued(r)) \in ReqType
        BY <2>1, EvaluatedType
      <4> QED
        BY <3>3, <4>1, <1>1 DEF CancelChild
    <3>4. CASE \E part \in {"own", "bought"} : CloseLine(r, part)
      <4>1. PICK part \in {"own", "bought"} : CloseLine(r, part)
        BY <3>4
      <4>2. Evaluated([l EXCEPT !.closed = l.closed \cup {part}], Issued(r)) \in ReqType
        BY <2>1, EvaluatedType
      <4> QED
        BY <4>1, <4>2, <1>1 DEF CloseLine
    <3> QED
      BY <1>9, <3>1, <3>2, <3>3, <3>4
  <2>3. UNCHANGED <<stock, so, item, session, taken>>
    BY <1>9 DEF ReceiveChild, CompleteChild, CancelChild, CloseLine
  <2> QED
    BY <1>1, <2>2, <2>3 DEF TypeOK, stock
<1>10. ASSUME NEW q \in Quantities, RejectPurchase(r, q)
       PROVE  TypeOK'
  <2>1. q \in Nat /\ l.bought \in Nat /\ q <= l.bought
    BY <1>1, <1>10, ConstantsAssumption
    DEF RejectPurchase, ReqType, Quantities, ConstantsAssumption
  <2>2. l.bought - q \in Nat
    BY <2>1
  <2>3. [l EXCEPT !.bought = l.bought - q] \in ReqType
    <3> HIDE DEF l
    <3> QED
      BY <1>1, <2>2, BoughtSet
  <2>4. req' = [req EXCEPT ![r] = [l EXCEPT !.bought = l.bought - q]]
    BY <1>1, <1>10 DEF RejectPurchase
  <2>5. req' \in [Reqs -> ReqType]
    BY <1>1, <2>3, <2>4
  <2> QED
    BY <1>10, <2>5 DEF TypeOK, RejectPurchase, stock
<1> QED
  BY <1>4, <1>5, <1>6, <1>7, <1>8, <1>9, <1>10, <1>11 DEF Requisition

\* A request begins: what it read is of its operation's kind.
LEMMA AskAnyType ==
  ASSUME TypeOK, NEW u \in Users, AskAny(u)
  PROVE  TypeOK'
<1>1. ASSUME NEW a \in AskType, session' = [session EXCEPT ![u] = a],
             UNCHANGED <<stock, req, so, item, taken>>
      PROVE  TypeOK'
  BY <1>1 DEF TypeOK, stock
<1>2. ASSUME NEW r \in Reqs, AskBuy(u, r) \/ AskShort(u, r) \/ AskCancel(u, r)
      PROVE  TypeOK'
  <2>1. req[r].status \in Statuses
    BY DEF TypeOK, ReqType
  <2>2. PICK op \in {"buy", "short", "cancel"}, s \in Statuses \cup {"none"} :
          Ask(u, op, r, s, NoAsk, 0)
    BY <1>2, <2>1 DEF AskBuy, AskShort, AskCancel
  <2>3. [op |-> op, id |-> r, status |-> s, stock |-> 0, bought |-> 0, qty |-> 0] \in AskType
    BY DEF AskType
  <2> QED
    BY <1>1, <2>2, <2>3 DEF Ask, NoAsk
<1>3. ASSUME NEW r \in Reqs, NEW q \in Quantities, AskResolve(u, r, q)
      PROVE  TypeOK'
  <2>1. req[r].stock \in Nat /\ req[r].bought \in Nat /\ q \in Nat
    BY ConstantsAssumption DEF TypeOK, ReqType, Quantities, ConstantsAssumption
  <2>2. [op |-> "resolve", id |-> r, status |-> "none", stock |-> req[r].stock,
         bought |-> req[r].bought, qty |-> q] \in AskType
    BY <2>1 DEF AskType
  <2> QED
    BY <1>1, <1>3, <2>2 DEF AskResolve, Ask
<1>4. ASSUME NEW i \in Outs, AskAddLine(u, i) \/ AskIssue(u, i) \/ AskCancelStoreOut(u, i)
      PROVE  TypeOK'
  <2>1. PICK op \in {"add", "issue", "cancelOut"}, s \in {"draft", "issued"} :
          Ask(u, op, i, s, NoAsk, 0)
    BY <1>4 DEF AskAddLine, AskIssue, AskCancelStoreOut
  <2>2. [op |-> op, id |-> i, status |-> s, stock |-> 0, bought |-> 0, qty |-> 0] \in AskType
    BY DEF AskType
  <2> QED
    BY <1>1, <2>1, <2>2 DEF Ask, NoAsk
<1>5. ASSUME NEW k \in Items, AskDeleteLine(u, k)
      PROVE  TypeOK'
  <2>1. [op |-> "delete", id |-> k, status |-> "draft", stock |-> 0, bought |-> 0, qty |-> 0]
          \in AskType
    BY DEF AskType
  <2> QED
    BY <1>1, <1>5, <2>1 DEF AskDeleteLine, Ask, NoAsk
<1> QED
  BY <1>2, <1>3, <1>4, <1>5 DEF AskAny

\* A request's transaction on a requisition.
LEMMA DoRequisitionType ==
  ASSUME TypeOK, NEW u \in Users,
         \/ \E q \in Quantities : Buy(u, q)
         \/ MarkShort(u) \/ Resolve(u) \/ Cancel(u)
  PROVE  TypeOK'
<1> DEFINE r == session[u].id
           l == req[r]
<1>1. /\ req \in [Reqs -> ReqType] /\ reserved \in Nat /\ session[u] \in AskType
      /\ so \in [Outs -> [status : {"absent", "draft", "issued", "cancelled"},
                          req : Lines]]
  BY DEF TypeOK
<1>2. ASSUME NEW q \in Quantities, Buy(u, q)
      PROVE  TypeOK'
  <2>1. Doing(u, "buy")
    BY <1>2 DEF Buy
  <2>2. r \in Reqs /\ session' \in [Users -> AskType]
    BY <2>1, DoneType, AskKinds
  <2>3. l \in ReqType
    BY <1>1, <2>2
  <2>4. l.bought + q \in Nat
    BY <2>3, ConstantsAssumption DEF ReqType, Quantities, ConstantsAssumption
  <2>5. [l EXCEPT !.bought = l.bought + q] \in ReqType
    <3> HIDE DEF l
    <3> QED
      BY <2>3, <2>4, BoughtSet
  <2>6. req' = [req EXCEPT ![r] = [l EXCEPT !.bought = l.bought + q]]
    BY <1>1, <1>2, <2>2 DEF Buy
  <2>7. req' \in [Reqs -> ReqType]
    BY <1>1, <2>2, <2>5, <2>6
  <2> QED
    BY <1>2, <2>2, <2>7 DEF TypeOK, Buy, stock
<1>3. ASSUME MarkShort(u)
      PROVE  TypeOK'
  <2>1. Doing(u, "short")
    BY <1>3 DEF MarkShort
  <2>2. r \in Reqs /\ session' \in [Users -> AskType]
    BY <2>1, DoneType, AskKinds
  <2>3. [l EXCEPT !.short = TRUE] \in ReqType
    <3>1. l \in ReqType
      BY <1>1, <2>2
    <3> HIDE DEF l
    <3> QED
      BY <3>1 DEF ReqType
  <2>4. req' = [req EXCEPT ![r] = [l EXCEPT !.short = TRUE]]
    BY <1>1, <1>3, <2>2 DEF MarkShort
  <2>5. req' \in [Reqs -> ReqType]
    BY <1>1, <2>2, <2>3, <2>4
  <2> QED
    BY <1>3, <2>2, <2>5 DEF TypeOK, MarkShort, stock
<1>4. ASSUME Resolve(u)
      PROVE  TypeOK'
  <2> DEFINE s == session[u].stock + session[u].qty
  <2>1. Doing(u, "resolve")
    BY <1>4 DEF Resolve
  <2>2. /\ r \in Reqs /\ session' \in [Users -> AskType]
        /\ session[u].stock \in Nat /\ session[u].qty \in Nat
    BY <2>1, DoneType, AskKinds
  <2>3. s \in Nat /\ l \in ReqType
    BY <1>1, <2>2
  <2>4. [l EXCEPT !.stock = s] \in ReqType
    <3> HIDE DEF l, s
    <3> QED
      BY <2>3, StockSet
  <2>5. req' = [req EXCEPT ![r] = [l EXCEPT !.stock = s]]
    BY <1>1, <1>4, <2>2 DEF Resolve
  <2>6. req' \in [Reqs -> ReqType]
    BY <1>1, <2>2, <2>4, <2>5
  <2>7. Cover(r, s) /\ reserved' = reserved + session[u].qty /\ UNCHANGED <<onHand, taken>>
    BY <1>4 DEF Resolve
  <2>8. reserved' \in Nat
    BY <1>1, <2>2, <2>7
  <2> HIDE DEF r, s
  <2> QED
    BY <2>2, <2>3, <2>6, <2>7, <2>8, CoverType DEF TypeOK
<1>5. ASSUME Cancel(u)
      PROVE  TypeOK'
  <2>1. Doing(u, "cancel")
    BY <1>5 DEF Cancel
  <2>2. r \in Reqs /\ session' \in [Users -> AskType]
    BY <2>1, DoneType, AskKinds
  <2> DEFINE po == IF l.po = "bought" THEN "cancelled" ELSE l.po
  <2>3. /\ l \in ReqType /\ "cancelled" \in Statuses
        /\ po \in {"none", "bought", "received", "closed", "cancelled"}
    BY <1>1, <2>2 DEF ReqType, Statuses
  <2>4. [l EXCEPT !.status = "cancelled", !.po = po] \in ReqType
    <3> HIDE DEF l, po
    <3> QED
      BY <2>3, CancelSet
  <2>5. req' = [req EXCEPT ![r] = [l EXCEPT !.status = "cancelled", !.po = po]]
    BY <1>1, <1>5, <2>2 DEF Cancel
  <2>6. req' \in [Reqs -> ReqType]
    BY <1>1, <2>2, <2>4, <2>5
  <2>7. reserved' \in Nat
    BY <1>1, <1>5, <2>2, LessReserved, RemainingIsInteger DEF Cancel
  <2>8. so' \in [Outs -> [status : {"absent", "draft", "issued", "cancelled"}, req : Lines]]
    <3>1. ASSUME NEW i \in Outs
          PROVE  [so[i] EXCEPT !.status = "cancelled"]
                   \in [status : {"absent", "draft", "issued", "cancelled"}, req : Lines]
      BY <1>1
    <3> QED
      BY <1>1, <1>5, <3>1 DEF Cancel
  <2> QED
    BY <1>5, <2>2, <2>6, <2>7, <2>8 DEF TypeOK, Cancel
<1> QED
  BY <1>2, <1>3, <1>4, <1>5

\* A request's transaction on a Store Out.
LEMMA DoStoreOutType ==
  ASSUME TypeOK, NEW u \in Users,
         \/ \E l \in Lines, q \in Quantities : AddLine(u, l, q)
         \/ DeleteLine(u) \/ Issue(u) \/ CancelStoreOut(u)
  PROVE  TypeOK'
<1> DEFINE i == session[u].id
<1>1. /\ req \in [Reqs -> ReqType] /\ reserved \in Nat /\ onHand \in 0..MaxOnHand
      /\ so \in [Outs -> [status : {"absent", "draft", "issued", "cancelled"},
                          req : Lines]]
      /\ item \in [Items -> [out : 0..MaxOuts, line : Lines, qty : Nat]]
  BY DEF TypeOK
<1>2. ASSUME NEW st \in {"issued", "cancelled"}, i \in Outs
      PROVE  [so EXCEPT ![i].status = st]
               \in [Outs -> [status : {"absent", "draft", "issued", "cancelled"}, req : Lines]]
  <2>1. [so[i] EXCEPT !.status = st]
          \in [status : {"absent", "draft", "issued", "cancelled"}, req : Lines]
    BY <1>1, <1>2
  <2> QED
    BY <1>1, <2>1
<1>3. ASSUME NEW l \in Lines, NEW q \in Quantities, AddLine(u, l, q)
      PROVE  TypeOK'
  <2>1. Doing(u, "add")
    BY <1>3 DEF AddLine
  <2>2. i \in Outs /\ session' \in [Users -> AskType]
    BY <2>1, DoneType, AskKinds
  <2>3. [out |-> i, line |-> l, qty |-> q] \in [out : 0..MaxOuts, line : Lines, qty : Nat]
    BY <2>2, ConstantsAssumption DEF Outs, Quantities, ConstantsAssumption
  <2>4. item' \in [Items -> [out : 0..MaxOuts, line : Lines, qty : Nat]]
    BY <1>1, <1>3, <2>3 DEF AddLine
  <2> QED
    BY <1>3, <2>2, <2>4 DEF TypeOK, AddLine, stock
<1>4. ASSUME DeleteLine(u)
      PROVE  TypeOK'
  <2>1. Doing(u, "delete")
    BY <1>4 DEF DeleteLine
  <2>2. i \in Items /\ session' \in [Users -> AskType]
    BY <2>1, DoneType, AskKinds
  <2>3. item[i].line \in Lines
    BY <1>1, <2>2
  <2>4. reserved' \in Nat
    <3>1. CASE item[i].line = NoReq
      BY <1>1, <1>4, <3>1 DEF DeleteLine
    <3>2. CASE item[i].line \in Reqs /\ item[i].line # NoReq
      <4>1. Less(Remaining(item[i].line)) \in Nat
        BY <1>1, <3>2, LessReserved, RemainingIsInteger
      <4> QED
        BY <1>4, <3>2, <4>1 DEF DeleteLine
    <3> QED
      BY <2>3, <3>1, <3>2 DEF Lines
  <2>5. NoItem \in [out : 0..MaxOuts, line : Lines, qty : Nat]
    BY ConstantsAssumption DEF NoItem, Lines, ConstantsAssumption
  <2>6. item' \in [Items -> [out : 0..MaxOuts, line : Lines, qty : Nat]]
    BY <1>1, <1>4, <2>5 DEF DeleteLine
  <2> QED
    BY <1>4, <2>2, <2>4, <2>6 DEF TypeOK, DeleteLine
<1>5. ASSUME Issue(u)
      PROVE  TypeOK'
  <2>1. Doing(u, "issue")
    BY <1>5 DEF Issue
  <2>2. i \in Outs /\ session' \in [Users -> AskType]
    BY <2>1, DoneType, AskKinds
  <2>3. /\ Enough(i)
        /\ reserved' = reserved - Qty(Linked(i))
        /\ onHand' = onHand - Qty(Linked(i)) - Qty(Manual(i))
        /\ so' = [so EXCEPT ![i].status = "issued"]
        /\ UNCHANGED item
    BY <1>5 DEF Issue
  <2>4. reserved' \in Nat /\ onHand' \in 0..MaxOnHand
    <3> DEFINE n == Qty(Linked(i))
               m == Qty(Manual(i))
    <3>1. n \in Nat /\ m \in Nat /\ onHand \in Nat /\ onHand <= MaxOnHand /\ MaxOnHand \in Nat
      BY <1>1, QtyIsNatural, ConstantsAssumption DEF ConstantsAssumption, Linked, Manual, ItemsIn
    <3>2. n <= reserved /\ n <= onHand /\ (m = 0 \/ m <= onHand - reserved)
      BY <2>3 DEF Enough, Available
    <3>3. reserved' = reserved - n /\ onHand' = onHand - n - m
      BY <2>3
    <3> HIDE DEF n, m
    <3> QED
      BY <1>1, <3>1, <3>2, <3>3
  <2>5. req' \in [Reqs -> ReqType]
    <3>1. ASSUME NEW r \in Reqs
          PROVE  Evaluated(req[r], IssuedWith(r, i)) \in ReqType /\ req[r] \in ReqType
      BY <1>1, EvaluatedType
    <3> QED
      BY <1>5, <3>1 DEF Issue
  <2>6. taken' \in [Outs -> Nat]
    BY <1>5, <2>2 DEF Issue, TypeOK
  <2>7. so' \in [Outs -> [status : {"absent", "draft", "issued", "cancelled"}, req : Lines]]
    BY <1>2, <2>2, <2>3
  <2> QED
    BY <1>1, <2>2, <2>3, <2>4, <2>5, <2>6, <2>7 DEF TypeOK
<1>6. ASSUME CancelStoreOut(u)
      PROVE  TypeOK'
  <2>1. Doing(u, "cancelOut")
    BY <1>6 DEF CancelStoreOut
  <2>2. i \in Outs /\ session' \in [Users -> AskType]
    BY <2>1, DoneType, AskKinds
  <2>3. Held(i) \in Nat
    BY HeldIsNatural
  <2>4. Less(Held(i)) \in Nat
    BY <1>1, <2>3, LessReserved
  <2>5. reserved' \in Nat
    BY <1>1, <1>6, <2>4 DEF CancelStoreOut
  <2>6. so' \in [Outs -> [status : {"absent", "draft", "issued", "cancelled"}, req : Lines]]
    BY <1>2, <1>6, <2>2 DEF CancelStoreOut
  <2> QED
    BY <1>6, <2>2, <2>5, <2>6 DEF TypeOK, CancelStoreOut
<1> QED
  BY <1>3, <1>4, <1>5, <1>6

\* TypeOK is inductive.
LEMMA StepType == TypeOK /\ [Next]_vars => TypeOK'
<1> SUFFICES ASSUME TypeOK, [Next]_vars PROVE TypeOK'
  OBVIOUS
<1>1. ASSUME NEW r \in Reqs, Requisition(r) PROVE TypeOK'
  BY <1>1, RequisitionType
<1>2. ASSUME NEW u \in Users, AskAny(u) PROVE TypeOK'
  BY <1>2, AskAnyType
<1>3. ASSUME NEW u \in Users, DoAny(u) PROVE TypeOK'
  <2>1. CASE GiveUp(u)
    BY <2>1, NoAskType DEF TypeOK, GiveUp, stock
  <2>2. CASE ~GiveUp(u)
    BY <1>3, <2>2, DoRequisitionType, DoStoreOutType DEF DoAny
  <2> QED
    BY <2>1, <2>2
<1>4. CASE CreateStoreOut
  <2>1. PICK i \in Outs : so' = [so EXCEPT ![i].status = "draft"]
    BY <1>4 DEF CreateStoreOut
  <2>2. [so[i] EXCEPT !.status = "draft"]
          \in [status : {"absent", "draft", "issued", "cancelled"}, req : Lines]
    BY DEF TypeOK
  <2>3. so' \in [Outs -> [status : {"absent", "draft", "issued", "cancelled"}, req : Lines]]
    BY <2>1, <2>2 DEF TypeOK
  <2> QED
    BY <1>4, <2>3 DEF TypeOK, CreateStoreOut, stock
<1>5. ASSUME NEW n \in 0..MaxOnHand, Adjust(n) PROVE TypeOK'
  BY <1>5 DEF TypeOK, Adjust
<1>6. CASE UNCHANGED vars
  BY <1>6 DEF TypeOK, vars, stock
<1> QED
  BY <1>1, <1>2, <1>3, <1>4, <1>5, <1>6 DEF Next

\* Every variable always holds what its column can hold: in particular the
\* releases and Store Outs never take qty_reserved or qty_on_hand below zero.
THEOREM TypeCorrect == Spec => []TypeOK
<1>1. Init => TypeOK
  BY InitType
<1>2. TypeOK /\ [Next]_vars => TypeOK'
  BY StepType
<1> QED
  BY <1>1, <1>2, PTL DEF Spec

-----------------------------------------------------------------------------
(* The reservation never exceeds the stock. *)

\* ReservedWithinOnHand is inductive, given the types.
LEMMA ReservedStep ==
  ASSUME TypeOK, ReservedWithinOnHand, [Next]_vars
  PROVE  ReservedWithinOnHand'
<1>1. /\ onHand \in Int /\ reserved \in Nat /\ req \in [Reqs -> ReqType]
      /\ session \in [Users -> AskType]
      /\ item \in [Items -> [out : 0..MaxOuts, line : Lines, qty : Nat]]
  BY ConstantsAssumption DEF TypeOK, ConstantsAssumption
<1>2. ASSUME unusual \subseteq unusual', onHand' = onHand, reserved' <= reserved,
             reserved' \in Nat
      PROVE  ReservedWithinOnHand'
  BY <1>1, <1>2 DEF ReservedWithinOnHand
<1>3. ASSUME unusual \subseteq unusual', UNCHANGED stock
      PROVE  ReservedWithinOnHand'
  BY <1>1, <1>3 DEF ReservedWithinOnHand, stock
<1>4. ASSUME NEW r \in Reqs, NEW q \in 0..MaxOnHand, ConfirmInventoryCheck(r, q)
      PROVE  ReservedWithinOnHand'
  <2>1. q \in Nat
    BY ConstantsAssumption DEF ConstantsAssumption
  <2>2. /\ q = 0 \/ onHand - reserved >= q
        /\ reserved' = reserved + q /\ onHand' = onHand /\ unusual' = unusual
    BY <1>4 DEF ConfirmInventoryCheck, Available
  <2> QED
    BY <1>1, <2>1, <2>2 DEF ReservedWithinOnHand
<1>5. ASSUME NEW r \in Reqs, NEW to \in {"draft", "inventory_check"}, Reject(r, to)
      PROVE  ReservedWithinOnHand'
  <2>1. Less(Remaining(r)) \in Nat /\ Less(Remaining(r)) <= reserved
    BY <1>1, LessReserved, RemainingIsInteger
  <2> QED
    BY <1>2, <1>5, <2>1 DEF Reject
<1>6. ASSUME NEW r \in Reqs, Requisition(r)
      PROVE  ReservedWithinOnHand'
  <2>1. \/ \E q \in 0..MaxOnHand : ConfirmInventoryCheck(r, q)
        \/ \E to \in {"draft", "inventory_check"} : Reject(r, to)
        \/ UNCHANGED stock /\ unusual \subseteq unusual'
    BY <1>6 DEF Requisition, SubmitToInventoryCheck, VerifyPrices, RejectToMarketPricing,
         ConfirmOmitting, Note, Approve, RejectPurchase, FinishBuying, ReceiveChild, CompleteChild, CancelChild,
         CloseLine
  <2> QED
    BY <1>3, <1>4, <1>5, <2>1
<1>7. ASSUME NEW u \in Users, AskAny(u)
      PROVE  ReservedWithinOnHand'
  <2>1. UNCHANGED <<stock, unusual>>
    BY <1>7 DEF AskAny, AskBuy, AskShort, AskCancel, AskResolve, AskAddLine, AskIssue,
         AskCancelStoreOut, AskDeleteLine, Ask
  <2> QED
    BY <1>3, <2>1
<1>8. ASSUME NEW u \in Users, Resolve(u)
      PROVE  ReservedWithinOnHand'
  <2>1. Doing(u, "resolve")
    BY <1>8 DEF Resolve
  <2>2. session[u].qty \in Nat
    BY <2>1, DoneType, AskKinds
  <2>3. /\ onHand - reserved >= session[u].qty
        /\ reserved' = reserved + session[u].qty
        /\ onHand' = onHand /\ unusual \subseteq unusual'
    BY <1>8 DEF Resolve, Available, Note
  <2> QED
    BY <1>1, <2>2, <2>3 DEF ReservedWithinOnHand
<1>9. ASSUME NEW u \in Users, Cancel(u)
      PROVE  ReservedWithinOnHand'
  <2>1. Doing(u, "cancel")
    BY <1>9 DEF Cancel
  <2>2. session[u].id \in Reqs
    BY <2>1, DoneType, AskKinds
  <2>3. /\ Less(Remaining(session[u].id)) \in Nat
        /\ Less(Remaining(session[u].id)) <= reserved
    BY <1>1, <2>2, LessReserved, RemainingIsInteger
  <2> QED
    BY <1>2, <1>9, <2>3 DEF Cancel, Note
<1>10. ASSUME NEW u \in Users, DeleteLine(u)
      PROVE  ReservedWithinOnHand'
  <2> DEFINE k == session[u].id
  <2>1. Doing(u, "delete")
    BY <1>10 DEF DeleteLine
  <2>2. k \in Items
    BY <2>1, DoneType, AskKinds
  <2>3. item[k].line \in Lines
    BY <1>1, <2>2
  <2>4. reserved' \in Nat /\ reserved' <= reserved
    <3>1. CASE item[k].line = NoReq
      BY <1>1, <1>10, <3>1 DEF DeleteLine
    <3>2. CASE item[k].line \in Reqs /\ item[k].line # NoReq
      <4>1. /\ Less(Remaining(item[k].line)) \in Nat
            /\ Less(Remaining(item[k].line)) <= reserved
        BY <1>1, <3>2, LessReserved, RemainingIsInteger
      <4> QED
        BY <1>10, <3>2, <4>1 DEF DeleteLine
    <3> QED
      BY <2>3, <3>1, <3>2 DEF Lines
  <2> QED
    BY <1>2, <1>10, <2>4 DEF DeleteLine, Note
<1>11. ASSUME NEW u \in Users, Issue(u)
      PROVE  ReservedWithinOnHand'
  <2> DEFINE n == Qty(Linked(session[u].id))
             m == Qty(Manual(session[u].id))
  <2>1. n \in Nat /\ m \in Nat
    BY QtyIsNatural DEF Linked, Manual, ItemsIn
  <2>2. m = 0 \/ m <= onHand - reserved
    BY <1>11 DEF Issue, Enough, Available
  <2>3. reserved' = reserved - n /\ onHand' = onHand - n - m /\ unusual \subseteq unusual'
    BY <1>11 DEF Issue, Note
  <2> HIDE DEF n, m
  <2> QED
    BY <1>1, <2>1, <2>2, <2>3 DEF ReservedWithinOnHand
<1>12. ASSUME NEW u \in Users, CancelStoreOut(u)
      PROVE  ReservedWithinOnHand'
  <2>1. Held(session[u].id) \in Nat
    BY HeldIsNatural
  <2>2. Less(Held(session[u].id)) \in Nat /\ Less(Held(session[u].id)) <= reserved
    BY <1>1, <2>1, LessReserved
  <2>3. /\ reserved' = IF session[u].status = "draft" THEN Less(Held(session[u].id))
                                                     ELSE reserved
        /\ onHand' = onHand /\ unusual \subseteq unusual'
    BY <1>12 DEF CancelStoreOut, Note
  <2>4. reserved' \in Nat /\ reserved' <= reserved
    BY <1>1, <2>2, <2>3
  <2> QED
    BY <1>2, <2>3, <2>4
<1>13. ASSUME NEW u \in Users, DoAny(u)
      PROVE  ReservedWithinOnHand'
  <2>1. \/ Resolve(u) \/ Cancel(u) \/ DeleteLine(u) \/ Issue(u) \/ CancelStoreOut(u)
        \/ (UNCHANGED stock /\ unusual \subseteq unusual')
    BY <1>13 DEF DoAny, Buy, MarkShort, AddLine, GiveUp, Note
  <2> QED
    BY <1>3, <1>8, <1>9, <1>10, <1>11, <1>12, <2>1
<1>14. ASSUME NEW n \in 0..MaxOnHand, Adjust(n)
      PROVE  ReservedWithinOnHand'
  <2>1. n \in Int /\ onHand' = n /\ reserved' = reserved
    BY <1>14, ConstantsAssumption DEF Adjust, ConstantsAssumption
  <2>2. n < reserved => "drained" \in unusual'
    BY <1>14 DEF Adjust, Note
  <2> QED
    BY <1>1, <2>1, <2>2 DEF ReservedWithinOnHand
<1>15. CASE CreateStoreOut
  BY <1>3, <1>15 DEF CreateStoreOut
<1>16. CASE UNCHANGED vars
  BY <1>3, <1>16 DEF vars
<1> QED
  BY <1>6, <1>7, <1>13, <1>14, <1>15, <1>16 DEF Next

\* However the inventory checks, releases, late coverage and Store Outs of any
\* number of people interleave, no more is reserved than there is, as long as
\* no adjustment takes away stock that is reserved.
THEOREM ReservedWithinOnHandAlways == Spec => []ReservedWithinOnHand
<1>1. Init => TypeOK /\ ReservedWithinOnHand
  <2>1. Init => onHand \in Nat /\ reserved = 0
    BY ConstantsAssumption DEF Init, ConstantsAssumption
  <2> QED
    BY <2>1, InitType DEF ReservedWithinOnHand
<1>2. TypeOK /\ ReservedWithinOnHand /\ [Next]_vars => (TypeOK /\ ReservedWithinOnHand)'
  BY StepType, ReservedStep
<1> QED
  BY <1>1, <1>2, PTL DEF Spec

-----------------------------------------------------------------------------
(* Nobody provides more than was ordered. *)

\* Completing a requisition says nothing about what was bought.
LEMMA EvaluatedWithin ==
  ASSUME NEW l \in ReqType, NEW n, WithinOrder(l)
  PROVE  WithinOrder(Evaluated(l, n))
<1>1. CASE Evaluated(l, n) = l
  BY <1>1
<1>2. CASE Evaluated(l, n) = [l EXCEPT !.status = "completed"]
  <2>1. [l EXCEPT !.status = "completed"].status = "completed"
    BY DEF ReqType
  <2> QED
    BY <1>2, <2>1 DEF WithinOrder, BeforeApproval
<1> QED
  BY <1>1, <1>2 DEF Evaluated

\* A step that writes one requisition keeps the invariant if what it writes is
\* within the order, or if it came late.
LEMMA WithinFrame ==
  ASSUME BuyInv, TypeOK', unusual \subseteq unusual', NEW r \in Reqs, NEW m,
         req' = [req EXCEPT ![r] = m],
         "late" \notin unusual' /\ WithinOrder(req[r]) => WithinOrder(m)
  PROVE  Within'
<1>1. req'[r] = m /\ \A q \in Reqs \ {r} : req'[q] = req[q]
  BY DEF BuyInv, TypeOK
<1>2. ASSUME "late" \notin unusual', NEW q \in Reqs
      PROVE  WithinOrder(req'[q])
  <2>1. WithinOrder(req[q])
    BY <1>2 DEF BuyInv, Within
  <2> QED
    BY <1>1, <1>2, <2>1
<1> QED
  BY <1>2 DEF Within, WithinOrder

\* The operations that are one step on a requisition.
LEMMA RequisitionWithin ==
  ASSUME BuyInv, TypeOK', NEW r \in Reqs, Requisition(r)
  PROVE  Within'
<1> DEFINE l == req[r]
<1>1. l \in ReqType /\ req \in [Reqs -> ReqType]
  BY DEF BuyInv, TypeOK
<1>2. unusual \subseteq unusual'
  BY DEF Requisition, SubmitToInventoryCheck, VerifyPrices, RejectToMarketPricing,
         ConfirmInventoryCheck, ConfirmOmitting, Note, Reject, Approve, RejectPurchase, FinishBuying, ReceiveChild,
         CompleteChild, CancelChild, CloseLine
<1>3. ASSUME NEW m, req' = [req EXCEPT ![r] = m], WithinOrder(l) => WithinOrder(m)
      PROVE  Within'
  BY <1>2, <1>3, WithinFrame
<1>4. ASSUME NEW s, l.status # "items_bought",
             l.status \in {"draft", "inventory_check", "pricing", "pending_approval"},
             s = "items_bought" => l.stock < l.ordered
      PROVE  WithinOrder(l) => WithinOrder([l EXCEPT !.status = s])
  BY <1>1, <1>4 DEF WithinOrder, BeforeApproval, ReqType
<1>5. CASE \/ SubmitToInventoryCheck(r) \/ VerifyPrices(r) \/ RejectToMarketPricing(r)
           \/ \E to \in {"draft", "inventory_check"} : Reject(r, to)
  <2>1. PICK s \in {"draft", "inventory_check", "pricing", "pending_approval"} :
          req' = [req EXCEPT ![r].status = s]
    BY <1>5 DEF SubmitToInventoryCheck, VerifyPrices, RejectToMarketPricing, Reject
  <2>2. l.status \in {"draft", "inventory_check", "pricing", "pending_approval"}
    BY <1>5 DEF SubmitToInventoryCheck, VerifyPrices, RejectToMarketPricing, Reject
  <2>3. WithinOrder(l) => WithinOrder([l EXCEPT !.status = s])
    BY <1>4, <2>2
  <2> QED
    BY <1>3, <2>1, <2>3
<1>6. ASSUME NEW q \in 0..MaxOnHand, ConfirmInventoryCheck(r, q)
      PROVE  Within'
  <2> DEFINE s == IF q < req[r].ordered THEN "pricing" ELSE "pending_approval"
  <2>1. req' = [req EXCEPT ![r] = [l EXCEPT !.stock = q, !.status = s]]
    BY <1>1, <1>6 DEF ConfirmInventoryCheck
  <2>2. l.status = "inventory_check"
    BY <1>6 DEF ConfirmInventoryCheck
  <2>3. s # "items_bought"
    OBVIOUS
  <2>4. WithinOrder(l) => WithinOrder([l EXCEPT !.stock = q, !.status = s])
    <3> HIDE DEF s
    <3> QED
      BY <1>1, <2>2, <2>3 DEF WithinOrder, BeforeApproval, ReqType
  <2> QED
    BY <1>3, <2>1, <2>4
<1>14. CASE ConfirmOmitting(r)
  <2> DEFINE s == IF req[r].stock < req[r].ordered THEN "pricing" ELSE "pending_approval"
  <2>1. req' = [req EXCEPT ![r].status = s] /\ l.status = "inventory_check"
    BY <1>14 DEF ConfirmOmitting
  <2>2. s # "items_bought"
    OBVIOUS
  <2> HIDE DEF s
  <2>3. WithinOrder(l) => WithinOrder([l EXCEPT !.status = s])
    BY <1>4, <2>1, <2>2
  <2> QED
    BY <1>3, <2>1, <2>3
<1>7. CASE Approve(r)
  <2>1. PICK s \in {"items_bought", "sourcing"} :
          /\ req' = [req EXCEPT ![r].status = s]
          /\ s = "items_bought" => l.stock < l.ordered
    BY <1>7 DEF Approve
  <2>2. l.status = "pending_approval"
    BY <1>7 DEF Approve
  <2>3. WithinOrder(l) => WithinOrder([l EXCEPT !.status = s])
    BY <1>4, <2>1, <2>2
  <2> QED
    BY <1>3, <2>1, <2>3
<1>8. ASSUME NEW q \in Quantities, RejectPurchase(r, q)
      PROVE  Within'
  <2>1. req' = [req EXCEPT ![r] = [l EXCEPT !.bought = l.bought - q]]
    BY <1>1, <1>8 DEF RejectPurchase
  <2>2. l.status = "items_bought" /\ q \in Nat
    BY <1>8, ConstantsAssumption DEF RejectPurchase, Quantities, ConstantsAssumption
  <2>3. WithinOrder(l) => WithinOrder([l EXCEPT !.bought = l.bought - q])
    BY <1>1, <2>2 DEF WithinOrder, BeforeApproval, ReqType
  <2> QED
    BY <1>3, <2>1, <2>3
<1>9. CASE FinishBuying(r)
  <2>1. PICK po, c, ordered :
          req' = [req EXCEPT ![r].status = "sourcing", ![r].po = po, ![r].onPO = c,
                             ![r].ordered = ordered]
    BY <1>9 DEF FinishBuying
  <2>2. req' = [req EXCEPT ![r] = [l EXCEPT !.status = "sourcing", !.po = po, !.onPO = c,
                                            !.ordered = ordered]]
    BY <1>1, <2>1
  <2>3. WithinOrder([l EXCEPT !.status = "sourcing", !.po = po, !.onPO = c, !.ordered = ordered])
    BY <1>1 DEF WithinOrder, BeforeApproval, ReqType
  <2> QED
    BY <1>3, <2>2, <2>3
<1>10. CASE ReceiveChild(r)
  <2>1. req' = [req EXCEPT ![r] = [l EXCEPT !.po = "received"]]
    BY <1>1, <1>10 DEF ReceiveChild
  <2>2. WithinOrder(l) => WithinOrder([l EXCEPT !.po = "received"])
    BY <1>1 DEF WithinOrder, BeforeApproval, ReqType
  <2> QED
    BY <1>3, <2>1, <2>2
<1>11. ASSUME NEW m \in ReqType, NEW n, req' = [req EXCEPT ![r] = Evaluated(m, n)],
              WithinOrder(l) => WithinOrder(m)
       PROVE  Within'
  BY <1>3, <1>11, EvaluatedWithin
<1>12. CASE CompleteChild(r) \/ CancelChild(r)
  <2>1. PICK po \in {"closed", "cancelled"} :
          req' = [req EXCEPT ![r] = Evaluated([l EXCEPT !.po = po], Issued(r))]
    BY <1>1, <1>12 DEF CompleteChild, CancelChild
  <2>2. /\ [l EXCEPT !.po = po] \in ReqType
        /\ WithinOrder(l) => WithinOrder([l EXCEPT !.po = po])
    BY <1>1 DEF WithinOrder, BeforeApproval, ReqType
  <2> QED
    BY <1>11, <2>1, <2>2
<1>13. ASSUME NEW part \in {"own", "bought"}, CloseLine(r, part)
       PROVE  Within'
  <2>1. req' = [req EXCEPT ![r] = Evaluated([l EXCEPT !.closed = l.closed \cup {part}], Issued(r))]
    BY <1>1, <1>13 DEF CloseLine
  <2>2. /\ [l EXCEPT !.closed = l.closed \cup {part}] \in ReqType
        /\ WithinOrder(l) => WithinOrder([l EXCEPT !.closed = l.closed \cup {part}])
    BY <1>1 DEF WithinOrder, BeforeApproval, ReqType
  <2> QED
    BY <1>11, <2>1, <2>2
<1> QED
  BY <1>5, <1>6, <1>7, <1>8, <1>9, <1>10, <1>12, <1>13, <1>14 DEF Requisition

\* A request's transaction: what it writes was tested under the lock, or late.
LEMMA DoWithin ==
  ASSUME BuyInv, TypeOK', NEW u \in Users, DoAny(u)
  PROVE  Within'
<1> DEFINE r == session[u].id
           l == req[r]
<1>1. /\ TypeOK /\ req \in [Reqs -> ReqType]
      /\ session[u].op \in {"buy", "short", "resolve", "cancel"} => r \in Reqs /\ l \in ReqType
  BY AskKinds DEF BuyInv, TypeOK
<1>2. ASSUME NEW q \in Quantities, Buy(u, q)
      PROVE  Within'
  <2>1. /\ r \in Reqs /\ l \in ReqType /\ q <= Missing(r) /\ unusual \subseteq unusual'
        /\ CanBuy(r) \/ "late" \in unusual'
    BY <1>1, <1>2 DEF Buy, Doing, Note
  <2>2. req' = [req EXCEPT ![r] = [l EXCEPT !.bought = l.bought + q]]
    BY <1>1, <1>2, <2>1 DEF Buy
  <2>3. q \in Nat
    BY ConstantsAssumption DEF Quantities, ConstantsAssumption
  <2>4. CanBuy(r) /\ WithinOrder(l) => WithinOrder([l EXCEPT !.bought = l.bought + q])
    BY <2>1, <2>3 DEF CanBuy, Missing, WithinOrder, BeforeApproval, ReqType
  <2> QED
    BY <2>1, <2>2, <2>4, WithinFrame
<1>3. CASE MarkShort(u)
  <2>1. r \in Reqs /\ l \in ReqType /\ unusual \subseteq unusual'
    BY <1>1, <1>3 DEF MarkShort, Doing
  <2>2. req' = [req EXCEPT ![r] = [l EXCEPT !.short = TRUE]]
    BY <1>1, <1>3, <2>1 DEF MarkShort
  <2>3. WithinOrder(l) => WithinOrder([l EXCEPT !.short = TRUE])
    BY <2>1 DEF WithinOrder, BeforeApproval, ReqType
  <2> QED
    BY <2>1, <2>2, <2>3, WithinFrame
<1>4. CASE Resolve(u)
  <2> DEFINE q == session[u].qty
             s == session[u].stock + q
  <2>1. /\ r \in Reqs /\ l \in ReqType /\ unusual \subseteq unusual' /\ q \in Nat
        /\ session[u].stock \in Nat /\ session[u].bought \in Nat
        /\ \/ CanBuy(r) /\ session[u].stock = l.stock /\ session[u].bought = l.bought
           \/ "late" \in unusual'
        /\ ReadWithinOrder(session[u], l)
    BY <1>1, <1>4, AskKinds DEF Resolve, Doing, Note, TypeOK, BuyInv, Asked
  <2>2. req' = [req EXCEPT ![r] = [l EXCEPT !.stock = s]]
    BY <1>1, <1>4, <2>1 DEF Resolve
  <2>3. CanBuy(r) /\ session[u].stock = l.stock /\ session[u].bought = l.bought
          => WithinOrder([l EXCEPT !.stock = s])
    BY <2>1 DEF CanBuy, WithinOrder, ReadWithinOrder, BeforeApproval, ReqType
  <2> HIDE DEF s
  <2> QED
    BY <2>1, <2>2, <2>3, WithinFrame
<1>5. CASE Cancel(u)
  <2>1. r \in Reqs /\ l \in ReqType /\ unusual \subseteq unusual'
    BY <1>1, <1>5 DEF Cancel, Doing, Note
  <2> DEFINE po == IF l.po = "bought" THEN "cancelled" ELSE l.po
  <2>2. req' = [req EXCEPT ![r] = [l EXCEPT !.status = "cancelled", !.po = po]]
    BY <1>1, <1>5, <2>1 DEF Cancel
  <2> HIDE DEF po
  <2>3. WithinOrder([l EXCEPT !.status = "cancelled", !.po = po])
    BY <2>1 DEF WithinOrder, BeforeApproval, ReqType
  <2> QED
    BY <2>1, <2>2, <2>3, WithinFrame
<1>6. CASE Issue(u)
  <2>1. /\ unusual \subseteq unusual'
        /\ \A q \in Reqs : req'[q] = req[q] \/ \E n : req'[q] = Evaluated(req[q], n)
    BY <1>6 DEF Issue, Note
  <2>2. ASSUME "late" \notin unusual', NEW q \in Reqs
        PROVE  WithinOrder(req'[q])
    <3>1. WithinOrder(req[q]) /\ req[q] \in ReqType
      BY <1>1, <2>1, <2>2 DEF BuyInv, Within
    <3> QED
      BY <2>1, <3>1, EvaluatedWithin
  <2> QED
    BY <2>2 DEF Within, WithinOrder
<1>7. CASE \/ \E k \in Lines, q \in Quantities : AddLine(u, k, q)
           \/ DeleteLine(u) \/ CancelStoreOut(u) \/ GiveUp(u)
  <2>1. req' = req /\ unusual \subseteq unusual'
    BY <1>7 DEF AddLine, DeleteLine, CancelStoreOut, GiveUp, Note
  <2> QED
    BY <2>1 DEF BuyInv, Within, WithinOrder
<1> QED
  BY <1>2, <1>3, <1>4, <1>5, <1>6, <1>7 DEF DoAny

\* A line that was approved gets a new order or another stage when its buying
\* ends, and never goes back.
Later(l, m) ==
  l.status \notin BeforeApproval =>
    /\ m.status \notin BeforeApproval
    /\ m.status = "items_bought" => l.status = "items_bought" /\ m.ordered = l.ordered

\* Completing a requisition is no way back.
LEMMA EvaluatedLater ==
  ASSUME NEW l, NEW m \in ReqType, NEW n, m.status = l.status, m.ordered = l.ordered
  PROVE  Later(l, Evaluated(m, n))
<1>1. CASE Evaluated(m, n) = m
  BY <1>1 DEF Later
<1>2. CASE Evaluated(m, n) = [m EXCEPT !.status = "completed"]
  <2>1. [m EXCEPT !.status = "completed"].status = "completed"
    BY DEF ReqType
  <2> QED
    BY <1>2, <2>1 DEF Later, BeforeApproval
<1> QED
  BY <1>1, <1>2 DEF Evaluated

\* No operation on a requisition goes back before the approval.
LEMMA RequisitionLater ==
  ASSUME TypeOK, NEW r \in Reqs, Requisition(r), NEW x \in Reqs
  PROVE  Later(req[x], req'[x])
<1> DEFINE l == req[r]
<1>1. l \in ReqType /\ req \in [Reqs -> ReqType]
  BY DEF TypeOK
<1>2. ASSUME NEW m, req' = [req EXCEPT ![r] = m], Later(l, m)
      PROVE  Later(req[x], req'[x])
  BY <1>1, <1>2 DEF Later
<1>3. ASSUME l.status \in BeforeApproval, \E m : req' = [req EXCEPT ![r] = m]
      PROVE  Later(req[x], req'[x])
  BY <1>2, <1>3 DEF Later
<1>4. CASE \/ SubmitToInventoryCheck(r) \/ VerifyPrices(r) \/ RejectToMarketPricing(r)
           \/ ConfirmOmitting(r) \/ Approve(r)
           \/ \E to \in {"draft", "inventory_check"} : Reject(r, to)
           \/ \E q \in 0..MaxOnHand : ConfirmInventoryCheck(r, q)
  <2>1. /\ l.status \in {"draft", "inventory_check", "pricing", "pending_approval"}
        /\ \/ \E s : req' = [req EXCEPT ![r].status = s]
           \/ \E s, q : req' = [req EXCEPT ![r].stock = q, ![r].status = s]
    BY <1>4 DEF SubmitToInventoryCheck, VerifyPrices, RejectToMarketPricing, ConfirmOmitting,
         Approve, Reject, ConfirmInventoryCheck
  <2>2. \E m : req' = [req EXCEPT ![r] = m]
    BY <1>1, <2>1
  <2> QED
    BY <1>3, <2>1, <2>2 DEF BeforeApproval
<1>5. ASSUME NEW q \in Quantities, RejectPurchase(r, q)
      PROVE  Later(req[x], req'[x])
  <2>1. req' = [req EXCEPT ![r] = [l EXCEPT !.bought = l.bought - q]]
    BY <1>1, <1>5 DEF RejectPurchase
  <2>2. Later(l, [l EXCEPT !.bought = l.bought - q])
    BY <1>1 DEF Later, ReqType
  <2> QED
    BY <1>2, <2>1, <2>2
<1>6. CASE FinishBuying(r)
  <2>1. PICK po, c, ordered :
          req' = [req EXCEPT ![r].status = "sourcing", ![r].po = po, ![r].onPO = c,
                             ![r].ordered = ordered]
    BY <1>6 DEF FinishBuying
  <2> DEFINE m == [l EXCEPT !.status = "sourcing", !.po = po, !.onPO = c, !.ordered = ordered]
  <2>2. req' = [req EXCEPT ![r] = m]
    BY <1>1, <2>1
  <2>3. m.status = "sourcing"
    BY <1>1 DEF ReqType
  <2> HIDE DEF m
  <2>4. Later(l, m)
    BY <2>3 DEF Later, BeforeApproval
  <2> QED
    BY <1>2, <2>2, <2>4
<1>7. ASSUME NEW m \in ReqType, m.status = l.status, m.ordered = l.ordered,
             \E n : req' = [req EXCEPT ![r] = Evaluated(m, n)]
      PROVE  Later(req[x], req'[x])
  BY <1>2, <1>7, EvaluatedLater
<1>8. CASE ReceiveChild(r)
  <2>1. req' = [req EXCEPT ![r] = [l EXCEPT !.po = "received"]]
    BY <1>1, <1>8 DEF ReceiveChild
  <2>2. Later(l, [l EXCEPT !.po = "received"])
    BY <1>1 DEF Later, ReqType
  <2> QED
    BY <1>2, <2>1, <2>2
<1>9. CASE CompleteChild(r) \/ CancelChild(r)
  <2>1. PICK po \in {"closed", "cancelled"} :
          req' = [req EXCEPT ![r] = Evaluated([l EXCEPT !.po = po], Issued(r))]
    BY <1>1, <1>9 DEF CompleteChild, CancelChild
  <2> DEFINE m == [l EXCEPT !.po = po]
  <2>2. m \in ReqType /\ m.status = l.status /\ m.ordered = l.ordered
    BY <1>1 DEF ReqType
  <2> HIDE DEF m
  <2> QED
    BY <1>7, <2>1, <2>2 DEF m
<1>10. ASSUME NEW part \in {"own", "bought"}, CloseLine(r, part)
       PROVE  Later(req[x], req'[x])
  <2> DEFINE m == [l EXCEPT !.closed = l.closed \cup {part}]
  <2>1. req' = [req EXCEPT ![r] = Evaluated(m, Issued(r))]
    BY <1>1, <1>10 DEF CloseLine
  <2>2. m \in ReqType /\ m.status = l.status /\ m.ordered = l.ordered
    BY <1>1 DEF ReqType
  <2> HIDE DEF m
  <2> QED
    BY <1>7, <2>1, <2>2
<1> QED
  BY <1>4, <1>5, <1>6, <1>8, <1>9, <1>10 DEF Requisition

\* Nor does a request.
LEMMA DoLater ==
  ASSUME TypeOK, NEW u \in Users, DoAny(u), NEW x \in Reqs
  PROVE  Later(req[x], req'[x])
<1> DEFINE r == session[u].id
           l == req[r]
<1>1. /\ req \in [Reqs -> ReqType] /\ req[x] \in ReqType
      /\ session[u].op \in {"buy", "short", "resolve", "cancel"} => r \in Reqs /\ l \in ReqType
  BY AskKinds DEF TypeOK
<1>2. ASSUME NEW m, r \in Reqs, req' = [req EXCEPT ![r] = m], Later(l, m)
      PROVE  Later(req[x], req'[x])
  BY <1>1, <1>2 DEF Later
<1>3. CASE (\E q \in Quantities : Buy(u, q)) \/ MarkShort(u) \/ Resolve(u)
  <2>1. r \in Reqs /\ l \in ReqType
    BY <1>1, <1>3 DEF Buy, MarkShort, Resolve, Doing
  <2>2. \/ \E n : req' = [req EXCEPT ![r] = [l EXCEPT !.bought = n]]
        \/ req' = [req EXCEPT ![r] = [l EXCEPT !.short = TRUE]]
        \/ \E n : req' = [req EXCEPT ![r] = [l EXCEPT !.stock = n]]
    BY <1>1, <1>3, <2>1 DEF Buy, MarkShort, Resolve
  <2>3. /\ \A n : Later(l, [l EXCEPT !.bought = n]) /\ Later(l, [l EXCEPT !.stock = n])
        /\ Later(l, [l EXCEPT !.short = TRUE])
    BY <2>1 DEF Later, ReqType
  <2> QED
    BY <1>2, <2>1, <2>2, <2>3
<1>4. CASE Cancel(u)
  <2>1. r \in Reqs /\ l \in ReqType
    BY <1>1, <1>4 DEF Cancel, Doing
  <2> DEFINE po == IF l.po = "bought" THEN "cancelled" ELSE l.po
             m  == [l EXCEPT !.status = "cancelled", !.po = po]
  <2>2. req' = [req EXCEPT ![r] = m]
    BY <1>1, <1>4, <2>1 DEF Cancel
  <2>3. m.status = "cancelled"
    BY <2>1 DEF ReqType
  <2> HIDE DEF m
  <2>4. Later(l, m)
    BY <2>3 DEF Later, BeforeApproval
  <2> QED
    BY <1>2, <2>1, <2>2, <2>4
<1>5. CASE Issue(u)
  <2>1. req'[x] = req[x] \/ \E n : req'[x] = Evaluated(req[x], n)
    BY <1>5 DEF Issue
  <2>2. \A n : Later(req[x], Evaluated(req[x], n))
    BY <1>1, EvaluatedLater
  <2> QED
    BY <2>1, <2>2 DEF Later
<1>6. CASE \/ \E k \in Lines, q \in Quantities : AddLine(u, k, q)
           \/ DeleteLine(u) \/ CancelStoreOut(u) \/ GiveUp(u)
  <2>1. req' = req
    BY <1>6 DEF AddLine, DeleteLine, CancelStoreOut, GiveUp
  <2> QED
    BY <2>1 DEF Later
<1> QED
  BY <1>3, <1>4, <1>5, <1>6 DEF DoAny

\* Only the request that reads a line for a coverage is one to cover it.
LEMMA SessionMoves ==
  ASSUME TypeOK, [Next]_vars, NEW u \in Users,
         session'[u].op = "resolve", session'[u] # session[u]
  PROVE  \E r \in Reqs, q \in Quantities : AskResolve(u, r, q)
<1>0. session \in [Users -> AskType] /\ NoAsk.op = "none"
  BY DEF TypeOK, NoAsk
<1>1. ASSUME NEW v \in Users, DoAny(v) PROVE session' = [session EXCEPT ![v] = NoAsk]
  BY <1>1 DEF DoAny, GiveUp, Buy, MarkShort, Resolve, Cancel, AddLine, DeleteLine, Issue,
     CancelStoreOut, Doing
<1>2. ASSUME NEW r \in Reqs, Requisition(r) PROVE UNCHANGED session
  BY <1>2 DEF Requisition, SubmitToInventoryCheck, VerifyPrices, RejectToMarketPricing,
     ConfirmInventoryCheck, ConfirmOmitting, Reject, Approve, FinishBuying, RejectPurchase,
     ReceiveChild, CompleteChild, CancelChild, CloseLine
<1>3. CreateStoreOut \/ (\E n \in 0..MaxOnHand : Adjust(n)) \/ UNCHANGED vars => UNCHANGED session
  BY DEF CreateStoreOut, Adjust, vars
<1>4. PICK v \in Users : AskAny(v)
  BY <1>0, <1>1, <1>2, <1>3 DEF Next
<1>5. ASSUME NEW op, NEW id, NEW st, NEW a, NEW q, Ask(v, op, id, st, a, q)
      PROVE  v = u /\ op = "resolve"
  BY <1>0, <1>5 DEF Ask
<1>6. CASE \E r \in Reqs, q \in Quantities : AskResolve(v, r, q)
  BY <1>5, <1>6 DEF AskResolve
<1>7. CASE ~\E r \in Reqs, q \in Quantities : AskResolve(v, r, q)
  <2>1. PICK op, id, st : op # "resolve" /\ Ask(v, op, id, st, NoAsk, 0)
    BY <1>4, <1>7 DEF AskAny, AskBuy, AskShort, AskCancel, AskAddLine, AskIssue,
       AskCancelStoreOut, AskDeleteLine
  <2> QED
    BY <1>5, <2>1
<1> QED
  BY <1>6, <1>7

\* What a coverage reads fits into the order, and the order is the same as long
\* as it can still be written.
LEMMA AskedStep == ASSUME BuyInv, [Next]_vars PROVE Asked'
<1>1. \A x \in Reqs : Later(req[x], req'[x])
  <2>1. ASSUME NEW u \in Users, AskAny(u) PROVE req' = req
    BY <2>1 DEF AskAny, AskBuy, AskShort, AskCancel, AskResolve, AskAddLine, AskIssue,
         AskCancelStoreOut, AskDeleteLine, Ask
  <2>2. CreateStoreOut \/ (\E n \in 0..MaxOnHand : Adjust(n)) \/ UNCHANGED vars => req' = req
    BY DEF CreateStoreOut, Adjust, vars
  <2>3. req' = req => \A x \in Reqs : Later(req[x], req'[x])
    BY DEF Later
  <2> QED
    BY <2>1, <2>2, <2>3, RequisitionLater, DoLater DEF Next, BuyInv
<1>2. ASSUME NEW u \in Users, session'[u].op = "resolve"
      PROVE  ReadWithinOrder(session'[u], req'[session'[u].id])
  <2>1. CASE session'[u] = session[u]
    <3>1. ReadWithinOrder(session[u], req[session[u].id]) /\ session[u].id \in Reqs
      BY <1>2, <2>1, AskKinds DEF BuyInv, Asked, TypeOK
    <3>2. Later(req[session[u].id], req'[session[u].id])
      BY <1>1, <3>1
    <3> QED
      BY <2>1, <3>1, <3>2 DEF ReadWithinOrder, Later
  <2>2. CASE session'[u] # session[u]
    <3>1. PICK r \in Reqs, q \in Quantities : AskResolve(u, r, q)
      BY <1>2, <2>2, SessionMoves DEF BuyInv
    <3>2. /\ req[r] \in ReqType /\ CanBuy(r) /\ q <= Missing(r) /\ req' = req
          /\ session' = [session EXCEPT ![u] = [op |-> "resolve", id |-> r, status |-> "none",
                           stock |-> req[r].stock, bought |-> req[r].bought, qty |-> q]]
      BY <3>1 DEF AskResolve, Ask, BuyInv, TypeOK
    <3>3. /\ session'[u].id = r /\ session'[u].stock = req[r].stock
          /\ session'[u].bought = req[r].bought /\ session'[u].qty = q
      BY <3>2 DEF BuyInv, TypeOK
    <3>4. q \in Nat
      BY ConstantsAssumption DEF Quantities, ConstantsAssumption
    <3>5. req[r].stock + req[r].bought + q <= req[r].ordered /\ req[r].status = "items_bought"
      BY <3>2, <3>4 DEF CanBuy, Missing, ReqType
    <3> QED
      BY <3>2, <3>3, <3>5 DEF ReadWithinOrder, BeforeApproval
  <2> QED
    BY <2>1, <2>2
<1> QED
  BY <1>2 DEF Asked

\* Buyers, who may overtake each other, and the store never provide more than was
\* ordered, unless a coverage wrote to a line that had changed since it was read,
\* or a purchase to one that was no longer bought for.
THEOREM NeverOverboughtAlways == Spec => []NeverOverbought
<1>1. Init => BuyInv
  <2> SUFFICES ASSUME Init PROVE BuyInv
    OBVIOUS
  <2>1. \A r \in Reqs : req[r].status = "draft" /\ req[r].bought = 0
    BY DEF Init
  <2> QED
    BY <2>1, InitType DEF Init, NoAsk, BuyInv, Within, WithinOrder, Asked
<1>2. BuyInv /\ [Next]_vars => BuyInv'
  <2> SUFFICES ASSUME BuyInv, [Next]_vars PROVE BuyInv'
    OBVIOUS
  <2>1. TypeOK'
    BY StepType DEF BuyInv
  <2>2. ASSUME NEW u \in Users, AskAny(u)
        PROVE  UNCHANGED <<req, unusual>>
    BY <2>2 DEF AskAny, AskBuy, AskShort, AskCancel, AskResolve, AskAddLine, AskIssue,
         AskCancelStoreOut, AskDeleteLine, Ask
  <2>3. req' = req /\ unusual \subseteq unusual' => Within'
    BY DEF BuyInv, Within, WithinOrder
  <2>4. ASSUME CreateStoreOut \/ (\E n \in 0..MaxOnHand : Adjust(n)) \/ UNCHANGED vars
        PROVE  req' = req /\ unusual \subseteq unusual'
    BY <2>4 DEF CreateStoreOut, Adjust, Note, vars
  <2>5. Within'
    BY <2>1, <2>2, <2>3, <2>4, RequisitionWithin, DoWithin DEF Next
  <2> QED
    BY <2>1, <2>5, AskedStep DEF BuyInv
<1>3. BuyInv => NeverOverbought
  BY DEF BuyInv, Within, WithinOrder, NeverOverbought
<1> QED
  BY <1>1, <1>2, <1>3, PTL DEF Spec

-----------------------------------------------------------------------------
(* A Store Out takes its units once. *)

\* A step that takes nothing and makes no draft of what has left the drafts.
LEMMA TakenFrame ==
  ASSUME TakenInv, TypeOK', unusual \subseteq unusual', taken' = taken,
         \A i \in Outs : so'[i].status \in {"absent", "draft"}
                          => so[i].status \in {"absent", "draft"}
  PROVE  TakenInv'
BY DEF TakenInv

\* Covering a requisition adds to a draft Store Out, or makes a new one.
LEMMA CoverTaken ==
  ASSUME TypeOK, NEW r \in Reqs, NEW s, Cover(r, s)
  PROVE  \A i \in Outs : so'[i].status \in {"absent", "draft"}
                          => so[i].status \in {"absent", "draft"}
<1>1. CASE UNCHANGED so
  BY <1>1
<1>2. ASSUME NEW j \in Outs, CoverOut(r, j), so' = [so EXCEPT ![j] = [status |-> "draft", req |-> r]]
      PROVE  \A i \in Outs : so'[i].status \in {"absent", "draft"}
                              => so[i].status \in {"absent", "draft"}
  <2>1. so[j].status \in {"absent", "draft"}
    BY <1>2 DEF CoverOut, IsNextOut, NoOut, OpenDrafts
  <2> QED
    BY <1>2, <2>1 DEF TypeOK
<1> QED
  BY <1>1, <1>2 DEF Cover

\* An issue finds its Store Out among the drafts, or comes late.
LEMMA IssueTaken ==
  ASSUME TakenInv, TypeOK', NEW u \in Users, Issue(u)
  PROVE  TakenInv'
<1> DEFINE i == session[u].id
<1>1. TypeOK /\ i \in Outs
  BY AskKinds DEF TakenInv, TypeOK, Issue, Doing
<1>2. /\ so' = [so EXCEPT ![i].status = "issued"] /\ unusual \subseteq unusual'
      /\ taken' = taken \/ taken' = [taken EXCEPT ![i] = taken[i] + 1]
      /\ so[i].status = "draft" \/ "late" \in unusual'
  BY <1>1 DEF Issue, Note, TypeOK
<1>3. so'[i].status = "issued" /\ \A j \in Outs \ {i} : so'[j] = so[j]
  BY <1>1, <1>2 DEF TypeOK
<1> HIDE DEF i
<1>4. ASSUME "late" \notin unusual', NEW j \in Outs
      PROVE  /\ taken'[j] <= 1
             /\ so'[j].status \in {"absent", "draft"} => taken'[j] = 0
  <2>1. /\ taken[j] <= 1 /\ taken[j] \in Nat /\ taken[i] = 0
        /\ so[j].status \in {"absent", "draft"} => taken[j] = 0
    BY <1>1, <1>2, <1>4 DEF TakenInv, TypeOK
  <2>2. CASE j = i
    BY <1>1, <1>2, <1>3, <2>1, <2>2 DEF TypeOK
  <2>3. CASE j # i
    BY <1>1, <1>2, <1>3, <2>1, <2>3 DEF TypeOK
  <2> QED
    BY <2>2, <2>3
<1> QED
  BY <1>4 DEF TakenInv

\* The units of a Store Out leave the store at most once, and never while it is
\* a draft, as long as no request tested a status that has changed since.
LEMMA TakenOnceAlways == Spec => []("late" \notin unusual => TakenOnce)
<1>1. Init => TakenInv
  <2> SUFFICES ASSUME Init PROVE TakenInv
    OBVIOUS
  <2>1. \A i \in Outs : taken[i] = 0
    BY DEF Init
  <2> QED
    BY <2>1, InitType DEF TakenInv
<1>2. TakenInv /\ [Next]_vars => TakenInv'
  <2> SUFFICES ASSUME TakenInv, [Next]_vars PROVE TakenInv'
    OBVIOUS
  <2>1. TypeOK /\ TypeOK'
    BY StepType DEF TakenInv
  <2>2. ASSUME NEW r \in Reqs, Requisition(r)
        PROVE  TakenInv'
    <3>1. CASE Approve(r)
      <4>1. Cover(r, req[r].stock) /\ unusual' = unusual /\ taken' = taken
        BY <3>1 DEF Approve
      <4> QED
        BY <2>1, <4>1, CoverTaken, TakenFrame
    <3>2. CASE ~Approve(r)
      <4>1. UNCHANGED <<so, taken>> /\ unusual \subseteq unusual'
        BY <2>2, <3>2 DEF Requisition, SubmitToInventoryCheck, VerifyPrices, RejectToMarketPricing,
         ConfirmInventoryCheck, ConfirmOmitting, Note, Reject, RejectPurchase, FinishBuying, ReceiveChild, CompleteChild,
         CancelChild, CloseLine
      <4> QED
        BY <2>1, <4>1, TakenFrame
    <3> QED
      BY <3>1, <3>2
  <2>3. ASSUME NEW u \in Users, AskAny(u) \/ GiveUp(u)
        PROVE  UNCHANGED <<so, taken, unusual>>
    BY <2>3 DEF AskAny, AskBuy, AskShort, AskCancel, AskResolve, AskAddLine, AskIssue,
         AskCancelStoreOut, AskDeleteLine, Ask, GiveUp
  <2>4. ASSUME NEW u \in Users, Resolve(u)
        PROVE  TakenInv'
    <3>1. session[u].id \in Reqs
      BY <2>1, <2>4, AskKinds DEF Resolve, Doing, TypeOK
    <3>2. /\ Cover(session[u].id, session[u].stock + session[u].qty)
          /\ unusual \subseteq unusual' /\ taken' = taken
      BY <2>4 DEF Resolve, Note
    <3> QED
      BY <2>1, <3>1, <3>2, CoverTaken, TakenFrame
  <2>5. ASSUME NEW u \in Users, Cancel(u) \/ CancelStoreOut(u)
        PROVE  TakenInv'
    <3>1. /\ unusual \subseteq unusual' /\ taken' = taken
          /\ \A i \in Outs : so'[i].status \in {"absent", "draft"}
                              => so[i].status \in {"absent", "draft"}
      <4>1. CASE Cancel(u)
        BY <2>1, <4>1 DEF Cancel, Note, TypeOK
      <4>2. CASE CancelStoreOut(u)
        <5>1. so' = [so EXCEPT ![session[u].id].status = "cancelled"]
          BY <4>2 DEF CancelStoreOut
        <5>2. \A i \in Outs : so'[i] = so[i] \/ so'[i].status = "cancelled"
          BY <2>1, <5>1 DEF TypeOK
        <5> QED
          BY <4>2, <5>2 DEF CancelStoreOut, Note
      <4> QED
        BY <2>5, <4>1, <4>2
    <3> QED
      BY <2>1, <3>1, TakenFrame
  <2>6. ASSUME NEW u \in Users, \/ \E q \in Quantities : Buy(u, q) \/ \E l \in Lines : AddLine(u, l, q)
                                \/ MarkShort(u) \/ DeleteLine(u)
        PROVE  UNCHANGED <<so, taken>> /\ unusual \subseteq unusual'
    BY <2>6 DEF Buy, AddLine, MarkShort, DeleteLine, Note
  <2>7. CASE CreateStoreOut
    <3>1. PICK j \in Outs : so[j].status = "absent" /\ so' = [so EXCEPT ![j].status = "draft"]
      <4>1. PICK j \in Outs : IsNextOut(j) /\ so' = [so EXCEPT ![j].status = "draft"]
        BY <2>7 DEF CreateStoreOut
      <4>2. so[j].status = "absent"
        BY <4>1 DEF IsNextOut, NoOut
      <4> QED
        BY <4>1, <4>2
    <3>2. unusual' = unusual /\ taken' = taken
      BY <2>7 DEF CreateStoreOut
    <3>3. \A i \in Outs : so'[i].status \in {"absent", "draft"}
                           => so[i].status \in {"absent", "draft"}
      BY <2>1, <3>1 DEF TypeOK
    <3> QED
      BY <2>1, <3>2, <3>3, TakenFrame
  <2>8. ASSUME (\E n \in 0..MaxOnHand : Adjust(n)) \/ UNCHANGED vars
        PROVE  UNCHANGED <<so, taken>> /\ unusual \subseteq unusual'
    BY <2>8 DEF Adjust, Note, vars
  <2>9. CASE UNCHANGED <<so, taken>> /\ unusual \subseteq unusual'
    BY <2>1, <2>9, TakenFrame
  <2> QED
    BY <2>1, <2>2, <2>3, <2>4, <2>5, <2>6, <2>7, <2>8, <2>9, IssueTaken DEF Next, DoAny
<1>3. TakenInv => ("late" \notin unusual => TakenOnce)
  BY DEF TakenInv, TakenOnce
<1> QED
  BY <1>1, <1>2, <1>3, PTL DEF Spec

-----------------------------------------------------------------------------
(* Sums over the lines of Store Outs. *)

\* A sum follows the change of one of its terms, and is no less than a term.
LEMMA TotalOfChange ==
  ASSUME NEW S, IsFiniteSet(S), NEW x \in S, NEW f, NEW g,
         \A y \in S : f[y] \in Nat /\ g[y] \in Nat,
         \A y \in S \ {x} : g[y] = f[y]
  PROVE  /\ Total(f, S) \in Nat /\ f[x] <= Total(f, S)
         /\ Total(g, S) = Total(f, S) - f[x] + g[x]
<1> DEFINE R == S \ {x}
<1>1. S = R \cup {x} /\ R \cap {x} = {} /\ R \subseteq S
  OBVIOUS
<1>2. IsFiniteSet(R) /\ IsFiniteSet({x})
  BY <1>1, FS_Subset
<1>3. Total(f, R) \in Nat /\ Total(g, R) = Total(f, R)
  BY <1>1, <1>2, TotalIsNatural, TotalOfSame
<1>4. Total(f, {x}) = f[x] /\ Total(g, {x}) = g[x]
  BY TotalOfOne
<1> HIDE DEF R
<1>5. Total(f, R \cup {x}) = Total(f, R) + Total(f, {x})
  BY <1>1, <1>2, TotalOfUnion
<1>6. Total(g, R \cup {x}) = Total(g, R) + Total(g, {x})
  BY <1>1, <1>2, TotalOfUnion
<1>7. Total(f, S) = Total(f, R) + f[x] /\ Total(g, S) = Total(f, R) + g[x]
  BY <1>1, <1>3, <1>4, <1>5, <1>6
<1> QED
  BY <1>3, <1>7

\* Quantities of disjoint sets of lines add up.
LEMMA QtyOfUnion ==
  ASSUME TypeOK, NEW S \in SUBSET Items, NEW T \in SUBSET Items, S \cap T = {}
  PROVE  Qty(S \cup T) = Qty(S) + Qty(T)
<1>1. IsFiniteSet(S) /\ IsFiniteSet(T) /\ \A k \in S \cup T : Amounts[k] \in Nat
  BY AmountsType, ItemsAreFinite
<1> QED
  BY <1>1, TotalOfUnion DEF Qty

\* No line, no quantity.
LEMMA QtyOfNone == Qty({}) = 0
  BY TotalOfNone DEF Qty

\* The lines of a requisition are drafted, issued or cancelled.
LEMMA OwnSplit ==
  ASSUME TypeOK, \A k \in Items : Placed(k), NEW r \in Reqs
  PROVE  /\ Own(r) = LineIn(r, {"draft", "issued", "cancelled"})
         /\ Drafted(r) \in Nat /\ Issued(r) \in Nat /\ Qty(LineIn(r, {"cancelled"})) \in Nat
         /\ Covered(r) = Drafted(r) + Issued(r)
         /\ Qty(LineIn(r, {"issued", "cancelled"}))
              = Issued(r) + Qty(LineIn(r, {"cancelled"}))
         /\ Qty(Own(r)) = Drafted(r) + Issued(r) + Qty(LineIn(r, {"cancelled"}))
<1> DEFINE D == LineIn(r, {"draft"})
           I == LineIn(r, {"issued"})
           C == LineIn(r, {"cancelled"})
<1>1. Own(r) = LineIn(r, {"draft", "issued", "cancelled"})
  <2>1. ASSUME NEW k \in Own(r) PROVE so[item[k].out].status \in {"draft", "issued", "cancelled"}
    BY <2>1, ConstantsAssumption DEF Own, Placed, TypeOK, ConstantsAssumption
  <2> QED
    BY <2>1 DEF Own, LineIn
<1>2. D \in SUBSET Items /\ I \in SUBSET Items /\ C \in SUBSET Items
  BY DEF LineIn
<1>3. D \cap I = {} /\ I \cap C = {} /\ D \cap (I \cup C) = {}
  BY DEF LineIn
<1>4. /\ LineIn(r, {"draft", "issued"}) = D \cup I
      /\ LineIn(r, {"issued", "cancelled"}) = I \cup C
      /\ LineIn(r, {"draft", "issued", "cancelled"}) = D \cup (I \cup C)
  BY DEF LineIn
<1>5. Qty(D) \in Nat /\ Qty(I) \in Nat /\ Qty(C) \in Nat
  BY <1>2, QtyIsNatural
<1> HIDE DEF D, I, C
<1>6. Qty(D \cup I) = Qty(D) + Qty(I) /\ Qty(I \cup C) = Qty(I) + Qty(C)
  BY <1>2, <1>3, QtyOfUnion
<1>7. Qty(D \cup (I \cup C)) = Qty(D) + Qty(I \cup C)
  BY <1>2, <1>3, QtyOfUnion
<1>8. Qty(D \cup (I \cup C)) = Qty(D) + Qty(I) + Qty(C)
  BY <1>5, <1>6, <1>7
<1> QED
  BY <1>1, <1>4, <1>5, <1>6, <1>8 DEF Drafted, Issued, Covered, D, I, C

\* A step that leaves the lines alone leaves what each requisition holds.
LEMMA OwnKept ==
  ASSUME item' = item
  PROVE  /\ Amounts' = Amounts
         /\ \A r \in Reqs : Own(r)' = Own(r) /\ Qty(Own(r))' = Qty(Own(r))
<1>1. Amounts' = Amounts /\ \A r \in Reqs : Own(r)' = Own(r)
  BY DEF Amounts, Own
<1> QED
  BY <1>1 DEF Qty

\* If the Store Outs stay too, every condition on them stays.
LEMMA LinesKept ==
  ASSUME UNCHANGED <<so, item>>
  PROVE  /\ \A k \in Items : Placed(k)' <=> Placed(k)
         /\ OneDraft' <=> OneDraft
         /\ \A r \in Reqs : /\ Drafted(r)' = Drafted(r) /\ Issued(r)' = Issued(r)
                            /\ LineIn(r, {"draft"})' = LineIn(r, {"draft"})
<1>1. \A r \in Reqs : /\ LineIn(r, {"draft"})' = LineIn(r, {"draft"})
                      /\ LineIn(r, {"issued"})' = LineIn(r, {"issued"})
  BY DEF LineIn
<1>2. Amounts' = Amounts
  BY OwnKept
<1>3. \A r \in Reqs : Drafted(r)' = Drafted(r) /\ Issued(r)' = Issued(r)
  BY <1>1, <1>2 DEF Drafted, Issued, Qty
<1> QED
  BY <1>1, <1>3 DEF Placed, OneDraft, Own

\* A step that writes one requisition, and no Store Out, needs a sound record.
LEMMA CoveringFrame ==
  ASSUME TypeOK, Covering, UNCHANGED <<so, item>>,
         NEW r \in Reqs, NEW m, LineSound(m, r), req' = [req EXCEPT ![r] = m]
  PROVE  Covering'
<1>1. (\A k \in Items : Placed(k)') /\ OneDraft'
  BY LinesKept DEF Covering
<1>2. ASSUME NEW x \in Reqs PROVE LineSound(req[x], x)'
  <2>1. /\ Own(x)' = Own(x) /\ Qty(Own(x))' = Qty(Own(x))
        /\ LineIn(x, {"draft"})' = LineIn(x, {"draft"})
    BY OwnKept, LinesKept
  <2>2. LineSound(req'[x], x)
    BY DEF Covering, TypeOK
  <2> QED
    BY <2>1, <2>2 DEF LineSound
<1> QED
  BY <1>1, <1>2 DEF Covering

\* Completing a sound requisition leaves it sound.
LEMMA EvaluatedSound ==
  ASSUME NEW l \in ReqType, NEW n, NEW r \in Reqs, LineSound(l, r)
  PROVE  LineSound(Evaluated(l, n), r)
<1>1. CASE Evaluated(l, n) = l
  BY <1>1
<1>2. CASE l.status = "sourcing" /\ Evaluated(l, n) = [l EXCEPT !.status = "completed"]
  <2> DEFINE m == [l EXCEPT !.status = "completed"]
  <2>1. m.status = "completed" /\ m.stock = l.stock /\ m.onPO = l.onPO
    BY DEF ReqType
  <2> HIDE DEF m
  <2>2. LineSound(m, r)
    BY <1>2, <2>1 DEF LineSound
  <2> QED
    BY <1>2, <2>2 DEF m
<1> QED
  BY <1>1, <1>2 DEF Evaluated

\* Quantities of lines that a step leaves alone, and of one that it writes.
LEMMA QtyFrame ==
  ASSUME TypeOK, TypeOK', NEW S \in SUBSET Items, \A q \in S : item'[q] = item[q]
  PROVE  /\ Total(Amounts', S) = Qty(S)
         /\ \A k \in Items \ S : Total(Amounts', S \cup {k}) = Qty(S) + item'[k].qty
<1>1. \A q \in S : Amounts'[q] = Amounts[q]
  BY DEF Amounts
<1>2. Total(Amounts', S) = Qty(S)
  BY <1>1, TotalOfSame DEF Qty
<1>3. \A k \in Items : Amounts'[k] \in Nat /\ Amounts'[k] = item'[k].qty
  BY DEF Amounts, TypeOK
<1>4. ASSUME NEW k \in Items \ S
      PROVE  Total(Amounts', S \cup {k}) = Qty(S) + item'[k].qty
  <2>1. S \cap {k} = {} /\ IsFiniteSet(S) /\ IsFiniteSet({k})
    BY ItemsAreFinite
  <2>2. \A q \in S \cup {k} : Amounts'[q] \in Nat
    BY <1>3
  <2>3. Total(Amounts', S \cup {k}) = Total(Amounts', S) + Total(Amounts', {k})
    BY <2>1, <2>2, TotalOfUnion
  <2>4. Total(Amounts', {k}) = Amounts'[k]
    BY <1>3, TotalOfOne
  <2> QED
    BY <1>2, <1>3, <2>3, <2>4
<1> QED
  BY <1>2, <1>4

\* Covering a requisition brings its Store Outs to what is on its line.
LEMMA Covers ==
  ASSUME TypeOK, TypeOK', \A k \in Items : Placed(k), OneDraft,
         NEW r \in Reqs, NEW s \in Nat, Cover(r, s),
         Covered(r) = Qty(Own(r)), Covered(r) <= s
  PROVE  /\ (\A k \in Items : Placed(k)') /\ OneDraft'
         /\ Qty(Own(r))' = s /\ Drafted(r)' = Drafted(r) + s - Covered(r)
         /\ \A x \in Reqs \ {r} :
              /\ Own(x)' = Own(x) /\ Qty(Own(x))' = Qty(Own(x))
              /\ LineIn(x, {"draft"})' = LineIn(x, {"draft"}) /\ Drafted(x)' = Drafted(x)
<1>1. Covered(r) \in Nat /\ Drafted(r) \in Nat
  BY QtyIsNatural DEF Covered, Drafted, LineIn
<1>2. CASE s <= Covered(r) /\ UNCHANGED <<so, item>>
  <2>1. s = Covered(r)
    BY <1>1, <1>2
  <2> QED
    BY <1>1, <1>2, <2>1, LinesKept, OwnKept
<1>3. CASE s > Covered(r) /\ \E i \in Outs, k \in Items :
               /\ CoverOut(r, i) /\ IsNextItem(k)
               /\ so' = [so EXCEPT ![i] = [status |-> "draft", req |-> r]]
               /\ item' = [item EXCEPT ![k] = [out |-> i, line |-> r, qty |-> s - Covered(r)]]
  <2> DEFINE n == s - Covered(r)
  <2>1. PICK i \in Outs, k \in Items :
          /\ CoverOut(r, i) /\ IsNextItem(k)
          /\ so' = [so EXCEPT ![i] = [status |-> "draft", req |-> r]]
          /\ item' = [item EXCEPT ![k] = [out |-> i, line |-> r, qty |-> n]]
    BY <1>3
  <2>2. /\ item[k] = NoItem /\ item'[k] = [out |-> i, line |-> r, qty |-> n]
        /\ \A q \in Items \ {k} : item'[q] = item[q]
    BY <2>1 DEF IsNextItem, TypeOK
  <2>3. item'[k] # NoItem
    BY <2>2, ConstantsAssumption DEF NoItem, ConstantsAssumption
  <2>4. /\ so'[i] = [status |-> "draft", req |-> r]
        /\ \A j \in Outs \ {i} : so'[j] = so[j]
    BY <2>1 DEF TypeOK
  <2>5. \/ OpenDrafts(r) # {} /\ i \in OpenDrafts(r) /\ so'[i] = so[i]
        \/ OpenDrafts(r) = {} /\ so[i] = NoOut
    <3>1. CASE OpenDrafts(r) = {}
      BY <2>1, <3>1 DEF CoverOut, IsNextOut
    <3>2. CASE OpenDrafts(r) # {}
      <4>1. i \in OpenDrafts(r)
        BY <2>1, <3>2 DEF CoverOut
      <4>2. so[i].status = "draft" /\ so[i].req = r
        BY <4>1 DEF OpenDrafts
      <4>3. so[i] = [status |-> "draft", req |-> r]
        BY <4>2 DEF TypeOK
      <4> QED
        BY <2>4, <3>2, <4>1, <4>3
    <3> QED
      BY <3>1, <3>2
  <2>6. \A j \in Outs : so[j].status # "absent" => so'[j] = so[j]
    BY <2>4, <2>5 DEF NoOut
  <2>7. ASSUME NEW q \in Items PROVE Placed(q)'
    <3>1. CASE q = k
      BY <2>2, <2>4, <3>1 DEF Placed
    <3>2. CASE q # k
      <4>1. item'[q] = item[q] /\ Placed(q)
        BY <2>2, <3>2
      <4> QED
        BY <2>6, <4>1 DEF Placed
    <3> QED
      BY <3>1, <3>2
  <2>8. ASSUME NEW j \in Outs, j # i \/ OpenDrafts(r) # {},
               so'[j].status = "draft", so'[j].req \in Reqs
        PROVE  so'[j] = so[j]
    BY <2>4, <2>5, <2>8
  <2>9. ASSUME NEW j \in Outs, OpenDrafts(r) = {}, so[j].status = "draft", so[j].req \in Reqs
        PROVE  so[j].req # r
    BY <2>9 DEF OneDraft, OpenDrafts, Own, ItemsIn
  <2>10. OneDraft'
    <3>1. ASSUME NEW a \in Outs, NEW b \in Outs,
                 so'[a].status = "draft", so'[b].status = "draft",
                 so'[a].req = so'[b].req, so'[a].req \in Reqs
          PROVE  a = b
      <4>1. CASE OpenDrafts(r) # {}
        BY <2>8, <3>1, <4>1 DEF OneDraft
      <4>2. CASE OpenDrafts(r) = {} /\ a # i /\ b # i
        BY <2>8, <3>1, <4>2 DEF OneDraft
      <4>3. CASE OpenDrafts(r) = {} /\ a = i /\ b # i
        BY <2>4, <2>9, <3>1, <4>3
      <4>4. CASE OpenDrafts(r) = {} /\ a # i /\ b = i
        BY <2>4, <2>9, <3>1, <4>4
      <4> QED
        BY <4>1, <4>2, <4>3, <4>4
    <3>2. ASSUME NEW j \in Outs, so'[j].status = "draft", so'[j].req \in Reqs
          PROVE  \E q \in Own(so[j].req)' : item'[q].out = j
      <4>1. CASE j = i
        <5>1. k \in Own(so[j].req)' /\ item'[k].out = j
          BY <2>2, <2>3, <2>4, <4>1 DEF Own
        <5> QED
          BY <5>1
      <4>2. CASE j # i
        <5>1. so'[j] = so[j]
          BY <2>4, <4>2
        <5>2. PICK q \in Own(so[j].req) : item[q].out = j
          BY <3>2, <5>1 DEF OneDraft
        <5>3. q \in Items \ {k} /\ item[q] # NoItem /\ item[q].line = so[j].req
          BY <2>2, <5>2 DEF Own
        <5>4. q \in Own(so[j].req)' /\ item'[q].out = j
          BY <2>2, <5>1, <5>2, <5>3 DEF Own
        <5> QED
          BY <5>4
      <4> QED
        BY <4>1, <4>2
    <3> QED
      BY <3>1, <3>2 DEF OneDraft
  <2>11. ASSUME NEW q \in Items \ {k}, item[q] # NoItem
         PROVE  item'[q] = item[q] /\ so'[item'[q].out] = so[item[q].out]
    BY <2>2, <2>6, <2>11 DEF Placed
  <2>12. /\ k \notin Own(r) /\ Own(r)' = Own(r) \cup {k}
         /\ k \notin LineIn(r, {"draft"})
         /\ LineIn(r, {"draft"})' = LineIn(r, {"draft"}) \cup {k}
    <3>1. /\ item'[k].line = r /\ so'[item'[k].out].status = "draft"
          /\ \A q \in Items \ {k} : /\ item'[q] = item[q]
                                   /\ item[q] # NoItem => so'[item'[q].out] = so[item[q].out]
      BY <2>2, <2>4, <2>11
    <3>2. k \notin Own(r) /\ k \notin LineIn(r, {"draft"})
      BY <2>2 DEF Own, LineIn
    <3>3. Own(r)' = Own(r) \cup {k}
      BY <2>2, <2>3, <3>1 DEF Own
    <3>4. LineIn(r, {"draft"})' = LineIn(r, {"draft"}) \cup {k}
      BY <2>2, <2>3, <3>1 DEF LineIn
    <3> QED
      BY <3>2, <3>3, <3>4
  <2>13. ASSUME NEW x \in Reqs \ {r}
         PROVE  /\ k \notin Own(x) /\ Own(x)' = Own(x)
                /\ k \notin LineIn(x, {"draft"})
                /\ LineIn(x, {"draft"})' = LineIn(x, {"draft"})
    BY <2>2, <2>3, <2>11 DEF Own, LineIn
  <2>14. \A S \in SUBSET Items : k \notin S => /\ Total(Amounts', S) = Qty(S)
                                                /\ Total(Amounts', S \cup {k}) = Qty(S) + n
    BY <2>2, QtyFrame
  <2>15. \A x \in Reqs : Own(x) \in SUBSET Items /\ LineIn(x, {"draft"}) \in SUBSET Items
    BY DEF Own, LineIn
  <2>16. Qty(Own(r))' = Qty(Own(r)) + n /\ Drafted(r)' = Drafted(r) + n
    BY <2>12, <2>14, <2>15 DEF Qty, Drafted
  <2>17. \A x \in Reqs \ {r} : Qty(Own(x))' = Qty(Own(x)) /\ Drafted(x)' = Drafted(x)
    BY <2>13, <2>14, <2>15 DEF Qty, Drafted
  <2> QED
    BY <1>1, <2>7, <2>10, <2>13, <2>16, <2>17
<1> QED
  BY <1>2, <1>3 DEF Cover

-----------------------------------------------------------------------------
(* What the Store Outs of a requisition hold, step by step. *)

\* A step that changes no requisition and no Store Out keeps Covering.
LEMMA CoveringKept ==
  ASSUME Covering, UNCHANGED <<req, so, item>>
  PROVE  Covering'
<1>1. (\A k \in Items : Placed(k)') /\ OneDraft'
  BY LinesKept DEF Covering
<1>2. ASSUME NEW x \in Reqs PROVE LineSound(req[x], x)'
  <2>1. /\ Own(x)' = Own(x) /\ Qty(Own(x))' = Qty(Own(x))
        /\ LineIn(x, {"draft"})' = LineIn(x, {"draft"})
    BY OwnKept, LinesKept
  <2> QED
    BY <2>1 DEF LineSound, Covering
<1> QED
  BY <1>1, <1>2 DEF Covering

\* A record whose status stays before, or after, the approval stays sound.
LEMMA SameStage ==
  ASSUME NEW r \in Reqs, NEW l, NEW m, LineSound(l, r), m.stock = l.stock, m.onPO = l.onPO,
         m.status = l.status
  PROVE  LineSound(m, r)
  BY DEF LineSound

\* Covering a requisition that Cover follows: the approval, or a later coverage.
LEMMA CoveringByCover ==
  ASSUME TypeOK, TypeOK', Covering, NEW r \in Reqs, NEW s \in Nat, Cover(r, s),
         Covered(r) = Qty(Own(r)), Covered(r) <= s,
         NEW m, req' = [req EXCEPT ![r] = m],
         m.stock = s, m.status \in {"items_bought", "sourcing"}, ~m.onPO
  PROVE  Covering'
<1>1. /\ (\A k \in Items : Placed(k)') /\ OneDraft' /\ Qty(Own(r))' = s
      /\ \A x \in Reqs \ {r} : /\ Own(x)' = Own(x) /\ Qty(Own(x))' = Qty(Own(x))
                               /\ LineIn(x, {"draft"})' = LineIn(x, {"draft"})
  BY Covers DEF Covering
<1>2. req'[r] = m /\ \A x \in Reqs \ {r} : req'[x] = req[x]
  BY DEF TypeOK
<1>3. LineSound(req[r], r)'
  BY <1>1, <1>2 DEF LineSound
<1>4. ASSUME NEW x \in Reqs \ {r} PROVE LineSound(req[x], x)'
  <2>1. LineSound(req[x], x)
    BY DEF Covering
  <2> QED
    BY <1>1, <1>2, <2>1 DEF LineSound
<1> QED
  BY <1>1, <1>3, <1>4 DEF Covering

\* Before the approval nothing is on a Store Out.
LEMMA NothingOwned ==
  ASSUME TypeOK, Covering, NEW r \in Reqs, Own(r) = {}
  PROVE  /\ Qty(Own(r)) = 0 /\ Covered(r) = 0 /\ Drafted(r) = 0
         /\ Qty(LineIn(r, {"issued", "cancelled"})) = 0
<1>1. \A ss \in SUBSET {"draft", "issued", "cancelled"} : LineIn(r, ss) = {}
  BY DEF Own, LineIn
<1> QED
  BY <1>1, QtyOfNone DEF Covered, Drafted

\* The operations that are one step on a requisition.
LEMMA RequisitionCovering ==
  ASSUME TypeOK, TypeOK', Covering, NEW r \in Reqs, Requisition(r)
  PROVE  Covering'
<1> DEFINE l == req[r]
<1>1. l \in ReqType /\ LineSound(l, r) /\ req \in [Reqs -> ReqType]
  BY DEF TypeOK, Covering
<1>2. ASSUME NEW m, LineSound(m, r), req' = [req EXCEPT ![r] = m], UNCHANGED <<so, item>>
      PROVE  Covering'
  BY <1>2, CoveringFrame
<1>3. CASE SubmitToInventoryCheck(r) \/ VerifyPrices(r) \/ RejectToMarketPricing(r)
           \/ \E to \in {"draft", "inventory_check"} : Reject(r, to)
  <2>1. PICK to \in {"draft", "inventory_check", "pricing", "pending_approval"} :
          /\ l.status \in {"draft", "inventory_check", "pricing", "pending_approval"}
          /\ req' = [req EXCEPT ![r] = [l EXCEPT !.status = to]]
          /\ UNCHANGED <<so, item>>
    BY <1>3 DEF SubmitToInventoryCheck, VerifyPrices, RejectToMarketPricing, Reject
  <2> DEFINE m == [l EXCEPT !.status = to]
  <2>2. m.status = to /\ m.onPO = l.onPO
    BY <1>1 DEF ReqType
  <2> HIDE DEF m
  <2>3. LineSound(m, r)
    BY <1>1, <2>1, <2>2 DEF LineSound
  <2> QED
    BY <1>2, <2>1, <2>3 DEF m
<1>4. CASE \E q \in 0..MaxOnHand : ConfirmInventoryCheck(r, q)
  <2>1. PICK q \in 0..MaxOnHand : ConfirmInventoryCheck(r, q)
    BY <1>4
  <2> DEFINE to == IF q < req[r].ordered THEN "pricing" ELSE "pending_approval"
             m  == [l EXCEPT !.stock = q, !.status = to]
  <2>2. /\ l.status = "inventory_check" /\ req' = [req EXCEPT ![r] = m]
        /\ UNCHANGED <<so, item>>
    BY <2>1 DEF ConfirmInventoryCheck
  <2>3. m.status \in {"pricing", "pending_approval"} /\ m.onPO = l.onPO
    BY <1>1 DEF ReqType
  <2> HIDE DEF m
  <2>4. LineSound(m, r)
    BY <1>1, <2>2, <2>3 DEF LineSound
  <2> QED
    BY <1>2, <2>2, <2>4
<1>12. CASE ConfirmOmitting(r)
  <2> DEFINE to == IF req[r].stock < req[r].ordered THEN "pricing" ELSE "pending_approval"
             m  == [l EXCEPT !.status = to]
  <2>1. /\ l.status = "inventory_check" /\ req' = [req EXCEPT ![r] = m]
        /\ UNCHANGED <<so, item>>
    BY <1>12 DEF ConfirmOmitting
  <2>2. m.status \in {"pricing", "pending_approval"} /\ m.onPO = l.onPO
    BY <1>1 DEF ReqType
  <2> HIDE DEF m
  <2>3. LineSound(m, r)
    BY <1>1, <2>1, <2>2 DEF LineSound
  <2> QED
    BY <1>2, <2>1, <2>3
<1>5. CASE Approve(r)
  <2> DEFINE m == [l EXCEPT !.status = IF l.stock < l.ordered THEN "items_bought"
                                                             ELSE "sourcing"]
  <2>1. l.status = "pending_approval" /\ Cover(r, l.stock) /\ req' = [req EXCEPT ![r] = m]
    BY <1>5 DEF Approve
  <2>2. /\ m.stock = l.stock /\ m.status \in {"items_bought", "sourcing"} /\ m.onPO = l.onPO
        /\ l.stock \in Nat /\ l.onPO \in BOOLEAN
    BY <1>1 DEF ReqType
  <2> HIDE DEF m
  <2>3. ~l.onPO /\ Own(r) = {}
    BY <1>1, <2>1 DEF LineSound
  <2>4. Covered(r) = Qty(Own(r)) /\ Covered(r) <= l.stock
    BY <2>2, <2>3, NothingOwned
  <2> QED
    BY <2>1, <2>2, <2>3, <2>4, CoveringByCover
<1>6. CASE \E q \in Quantities : RejectPurchase(r, q)
  <2>1. PICK q \in Quantities : RejectPurchase(r, q)
    BY <1>6
  <2> DEFINE m == [l EXCEPT !.bought = @ - q]
  <2>2. req' = [req EXCEPT ![r] = m] /\ UNCHANGED <<so, item>>
    BY <2>1 DEF RejectPurchase
  <2>3. m.status = l.status /\ m.stock = l.stock /\ m.onPO = l.onPO
    BY <1>1 DEF ReqType
  <2> HIDE DEF m
  <2> QED
    BY <1>1, <1>2, <2>2, <2>3, SameStage
<1>7. CASE FinishBuying(r)
  <2> DEFINE moves == l.stock = 0 /\ ~l.short
             m == [l EXCEPT !.status = "sourcing",
                     !.po = IF l.bought > 0 THEN "bought" ELSE "none",
                     !.onPO = l.bought > 0 /\ moves,
                     !.ordered = IF l.bought > 0 /\ ~moves THEN @ - l.bought ELSE @]
  <2>1. /\ l.status = "items_bought" /\ req' = [req EXCEPT ![r] = m]
        /\ UNCHANGED <<so, item>>
    BY <1>7 DEF FinishBuying
  <2>2. /\ m.status = "sourcing" /\ m.stock = l.stock /\ m.onPO = (l.bought > 0 /\ moves)
    BY <1>1 DEF ReqType
  <2>3. m.onPO => m.stock = 0
    BY <2>2
  <2> HIDE DEF m
  <2>4. LineSound(m, r)
    BY <1>1, <2>1, <2>2, <2>3 DEF LineSound
  <2> QED
    BY <1>2, <2>1, <2>4
<1>8. ASSUME NEW m, NEW n, m \in ReqType, m.status = l.status, m.stock = l.stock,
             m.onPO = l.onPO, req' = [req EXCEPT ![r] = Evaluated(m, n)],
             UNCHANGED <<so, item>>
      PROVE  Covering'
  <2>1. LineSound(m, r)
    BY <1>1, <1>8, SameStage
  <2>2. LineSound(Evaluated(m, n), r)
    BY <1>8, <2>1, EvaluatedSound
  <2> QED
    BY <1>2, <1>8, <2>2
<1>9. CASE ReceiveChild(r)
  <2> DEFINE m == [l EXCEPT !.po = "received"]
  <2>1. req' = [req EXCEPT ![r] = m] /\ UNCHANGED <<so, item>>
    BY <1>9 DEF ReceiveChild
  <2>2. m.status = l.status /\ m.stock = l.stock /\ m.onPO = l.onPO
    BY <1>1 DEF ReqType
  <2> HIDE DEF m
  <2> QED
    BY <1>1, <1>2, <2>1, <2>2, SameStage
<1>10. CASE CompleteChild(r) \/ CancelChild(r)
  <2>1. PICK po \in {"closed", "cancelled"} :
          /\ req' = [req EXCEPT ![r] = Evaluated([l EXCEPT !.po = po], Issued(r))]
          /\ UNCHANGED <<so, item>>
    BY <1>10 DEF CompleteChild, CancelChild
  <2> DEFINE m == [l EXCEPT !.po = po]
  <2>2. m \in ReqType /\ m.status = l.status /\ m.stock = l.stock /\ m.onPO = l.onPO
    BY <1>1 DEF ReqType
  <2>3. req' = [req EXCEPT ![r] = Evaluated(m, Issued(r))]
    BY <2>1
  <2> HIDE DEF m
  <2> QED
    BY <1>8, <2>1, <2>2, <2>3
<1>11. CASE \E part \in {"own", "bought"} : CloseLine(r, part)
  <2>1. PICK part \in {"own", "bought"} : CloseLine(r, part)
    BY <1>11
  <2> DEFINE m == [l EXCEPT !.closed = l.closed \cup {part}]
  <2>2. req' = [req EXCEPT ![r] = Evaluated(m, Issued(r))] /\ UNCHANGED <<so, item>>
    BY <2>1 DEF CloseLine
  <2>3. m \in ReqType /\ m.status = l.status /\ m.stock = l.stock /\ m.onPO = l.onPO
    BY <1>1 DEF ReqType
  <2> HIDE DEF m
  <2> QED
    BY <1>8, <2>2, <2>3
<1> QED
  BY <1>3, <1>4, <1>5, <1>6, <1>7, <1>9, <1>10, <1>11, <1>12 DEF Requisition

\* What a statement on the Store Outs keeps, when some leave the drafts.
LEMMA StoreOutFrame ==
  ASSUME TypeOK, \A k \in Items : Placed(k), OneDraft, item' = item,
         \A i \in Outs : /\ so'[i].req = so[i].req
                         /\ \/ so'[i].status = so[i].status
                            \/ so'[i].status \in {"issued", "cancelled"}
  PROVE  /\ (\A k \in Items : Placed(k)') /\ OneDraft'
         /\ \A r \in Reqs : LineIn(r, {"draft"})' \subseteq LineIn(r, {"draft"})
<1>1. \A k \in Items : Placed(k)'
  BY DEF Placed
<1>2. \A i \in Outs : /\ so'[i].status = "draft" => so[i].status = "draft"
                      /\ Own(so[i].req)' = Own(so[i].req)
  BY DEF Own
<1>3. OneDraft'
  BY <1>2 DEF OneDraft
<1>4. ASSUME NEW r \in Reqs, NEW k \in LineIn(r, {"draft"})'
      PROVE  k \in LineIn(r, {"draft"})
  <2>1. k \in Items /\ item[k].line = r /\ item[k] # NoItem /\ so'[item[k].out].status = "draft"
    BY <1>4 DEF LineIn
  <2>2. item[k].out \in Outs
    BY <2>1 DEF Placed
  <2> QED
    BY <1>2, <2>1, <2>2 DEF LineIn
<1> QED
  BY <1>1, <1>3, <1>4

\* Fewer drafts leave a record sound, when the lines stay.
LEMMA FewerDrafts ==
  ASSUME NEW r \in Reqs, item' = item, LineSound(req'[r], r),
         LineIn(r, {"draft"})' \subseteq LineIn(r, {"draft"})
  PROVE  LineSound(req[r], r)'
<1>1. Own(r)' = Own(r) /\ Qty(Own(r))' = Qty(Own(r))
  BY OwnKept
<1> QED
  BY <1>1 DEF LineSound

\* Issuing or cancelling a Store Out.
LEMMA StoreOutCovering ==
  ASSUME TypeOK, TypeOK', Covering, NEW u \in Users, Issue(u) \/ CancelStoreOut(u)
  PROVE  Covering'
<1> DEFINE i == session[u].id
<1>1. /\ i \in Outs /\ item' = item
      /\ \/ so' = [so EXCEPT ![i].status = "issued"]
         \/ so' = [so EXCEPT ![i].status = "cancelled"]
  <2>1. Doing(u, "issue") \/ Doing(u, "cancelOut")
    BY DEF Issue, CancelStoreOut
  <2>2. i \in Outs
    BY <2>1, DoneType, AskKinds
  <2> QED
    BY <2>2 DEF Issue, CancelStoreOut
<1>2. \A j \in Outs : /\ so'[j].req = so[j].req
                      /\ \/ so'[j].status = so[j].status
                         \/ so'[j].status \in {"issued", "cancelled"}
  BY <1>1 DEF TypeOK
<1>3. ASSUME NEW r \in Reqs PROVE LineSound(req'[r], r)
  <2>1. LineSound(req[r], r) /\ req[r] \in ReqType
    BY DEF Covering, TypeOK
  <2>2. req'[r] = req[r] \/ req'[r] = Evaluated(req[r], IssuedWith(r, i))
    BY DEF Issue, CancelStoreOut
  <2> QED
    BY <2>1, <2>2, EvaluatedSound
<1> QED
  BY <1>1, <1>2, <1>3, StoreOutFrame, FewerDrafts DEF Covering

\* Cancelling the draft Store Outs of a requisition leaves it no drafted line,
\* and the others what they have.
LEMMA CancelDrafts ==
  ASSUME TypeOK, Covering, NEW r \in Reqs, item' = item,
         so' = [i \in Outs |-> IF so[i].req = r /\ so[i].status = "draft"
                               THEN [so[i] EXCEPT !.status = "cancelled"] ELSE so[i]]
  PROVE  \A x \in Reqs :
           LineIn(x, {"draft"})' = IF x = r THEN {} ELSE LineIn(x, {"draft"})
<1>1. ASSUME NEW x \in Reqs, NEW k \in Items, item[k] # NoItem, item[k].line = x
      PROVE  item[k].out \in Outs /\ so[item[k].out].req = x
  BY <1>1, ConstantsAssumption DEF Covering, Placed, ConstantsAssumption
<1>2. \A i \in Outs : /\ so[i].req = r => so'[i].status # "draft"
                      /\ so[i].req # r => so'[i] = so[i]
  BY DEF TypeOK
<1>3. LineIn(r, {"draft"})' = {}
  BY <1>1, <1>2 DEF LineIn
<1>4. \A x \in Reqs \ {r} : LineIn(x, {"draft"})' = LineIn(x, {"draft"})
  BY <1>1, <1>2 DEF LineIn
<1> QED
  BY <1>3, <1>4

\* The record of a requisition that is cancelled.
LEMMA CancelRecord ==
  ASSUME TypeOK, NEW r \in Reqs,
         req' = [req EXCEPT ![r].status = "cancelled",
                            ![r].po = IF @ = "bought" THEN "cancelled" ELSE @]
  PROVE  /\ req'[r].status = "cancelled" /\ req'[r].stock = req[r].stock
         /\ req'[r].onPO = req[r].onPO
         /\ \A x \in Reqs \ {r} : req'[x] = req[x]
<1> DEFINE po == IF req[r].po = "bought" THEN "cancelled" ELSE req[r].po
           m  == [req[r] EXCEPT !.status = "cancelled", !.po = po]
<1>1. req' = [req EXCEPT ![r] = m]
  BY DEF TypeOK
<1>2. m.status = "cancelled" /\ m.stock = req[r].stock /\ m.onPO = req[r].onPO
  BY DEF TypeOK, ReqType
<1> HIDE DEF m
<1> QED
  BY <1>1, <1>2 DEF TypeOK

\* Cancelling a requisition cancels its draft Store Out.
LEMMA CancelCovering ==
  ASSUME TypeOK, TypeOK', Covering, NEW u \in Users, Cancel(u)
  PROVE  Covering'
<1> SUFFICES ASSUME NEW r, r = session[u].id PROVE Covering'
  OBVIOUS
<1>1. Doing(u, "cancel")
  BY DEF Cancel
<1>2. r \in Reqs
  BY <1>1, DoneType, AskKinds
<1>3. /\ item' = item
      /\ so' = [i \in Outs |-> IF so[i].req = r /\ so[i].status = "draft"
                               THEN [so[i] EXCEPT !.status = "cancelled"] ELSE so[i]]
      /\ req' = [req EXCEPT ![r].status = "cancelled",
                            ![r].po = IF @ = "bought" THEN "cancelled" ELSE @]
  BY DEF Cancel
<1>4. \A j \in Outs : /\ so'[j].req = so[j].req
                      /\ \/ so'[j].status = so[j].status
                         \/ so'[j].status \in {"issued", "cancelled"}
  BY <1>3 DEF TypeOK
<1>5. /\ (\A k \in Items : Placed(k)') /\ OneDraft'
      /\ \A x \in Reqs : LineIn(x, {"draft"})' \subseteq LineIn(x, {"draft"})
  BY <1>3, <1>4, StoreOutFrame DEF Covering
<1>6. /\ req'[r].status = "cancelled" /\ req'[r].stock = req[r].stock
      /\ req'[r].onPO = req[r].onPO
      /\ \A x \in Reqs \ {r} : req'[x] = req[x]
  BY <1>2, <1>3, CancelRecord
<1>7. LineIn(r, {"draft"})' = {}
  BY <1>2, <1>3, CancelDrafts
<1>8. LineSound(req[r], r)'
  <2>1. LineSound(req[r], r)
    BY <1>2 DEF Covering
  <2> QED
    BY <1>6, <1>7, <2>1 DEF LineSound
<1>9. ASSUME NEW x \in Reqs \ {r} PROVE LineSound(req[x], x)'
  <2>1. LineSound(req'[x], x)
    BY <1>6 DEF Covering
  <2> QED
    BY <1>3, <1>5, <2>1, FewerDrafts
<1> QED
  BY <1>5, <1>8, <1>9 DEF Covering

\* A later coverage that saw the line as it is and drafts nothing again.
LEMMA ResolveCovering ==
  ASSUME TypeOK, TypeOK', Covering, NEW u \in Users, Resolve(u),
         "late" \notin unusual', "redrafted" \notin unusual',
         NEW r, r = session[u].id, NEW q, q = session[u].qty
  PROVE  /\ Covering' /\ r \in Reqs /\ q \in Nat
         /\ req[r].status = "items_bought" /\ req'[r].status = "items_bought"
         /\ Drafted(r) \in Nat /\ Drafted(r)' = Drafted(r) + q
         /\ \A x \in Reqs \ {r} : req'[x] = req[x] /\ Drafted(x)' = Drafted(x)
<1> DEFINE l == req[r]
           m == [l EXCEPT !.stock = l.stock + q]
<1>1. Doing(u, "resolve")
  BY DEF Resolve
<1>2. r \in Reqs /\ q \in Nat
  BY <1>1, DoneType, AskKinds
<1>3. l \in ReqType /\ LineSound(l, r)
  BY <1>2 DEF TypeOK, Covering
<1>4. /\ l.status = "items_bought" /\ session[u].stock = l.stock
      /\ ~(l.stock + q > Covered(r) /\ LineIn(r, {"cancelled"}) # {})
  BY DEF Resolve, Note, CanBuy
<1>5. Cover(r, l.stock + q) /\ req' = [req EXCEPT ![r] = m]
  BY <1>4 DEF Resolve
<1>6. m.stock = l.stock + q /\ m.status = l.status /\ m.onPO = l.onPO /\ l.stock \in Nat
  BY <1>3 DEF ReqType
<1> HIDE DEF m
<1>7. l.stock = Qty(Own(r)) /\ ~l.onPO
  BY <1>3, <1>4 DEF LineSound
<1>8. /\ Covered(r) \in Nat /\ Qty(LineIn(r, {"cancelled"})) \in Nat /\ Drafted(r) \in Nat
      /\ Qty(Own(r)) = Covered(r) + Qty(LineIn(r, {"cancelled"}))
  <2>1. /\ Drafted(r) \in Nat /\ Issued(r) \in Nat /\ Qty(LineIn(r, {"cancelled"})) \in Nat
        /\ Covered(r) = Drafted(r) + Issued(r)
        /\ Qty(Own(r)) = Drafted(r) + Issued(r) + Qty(LineIn(r, {"cancelled"}))
    BY <1>2, OwnSplit DEF Covering
  <2> QED
    BY <2>1
<1>9. Covered(r) = Qty(Own(r)) /\ Covered(r) <= l.stock + q
  <2>1. CASE LineIn(r, {"cancelled"}) = {}
    <3>1. Qty(LineIn(r, {"cancelled"})) = 0
      BY <2>1, QtyOfNone
    <3> QED
      BY <1>2, <1>6, <1>7, <1>8, <3>1
  <2>2. CASE l.stock + q <= Covered(r)
    BY <1>2, <1>6, <1>7, <1>8, <2>2
  <2> QED
    BY <1>2, <1>4, <1>6, <1>8, <2>1, <2>2
<1>10. l.stock + q \in Nat
  BY <1>2, <1>6
<1>11. Covering'
  BY <1>2, <1>4, <1>5, <1>6, <1>7, <1>9, <1>10, CoveringByCover
<1>12. /\ Drafted(r)' = Drafted(r) + (l.stock + q) - Covered(r)
       /\ \A x \in Reqs \ {r} : Drafted(x)' = Drafted(x)
  BY <1>2, <1>5, <1>9, <1>10, Covers DEF Covering
<1>13. Drafted(r)' = Drafted(r) + q
  BY <1>2, <1>6, <1>7, <1>8, <1>9, <1>12
<1>14. req'[r].status = "items_bought" /\ \A x \in Reqs \ {r} : req'[x] = req[x]
  BY <1>2, <1>4, <1>5, <1>6 DEF TypeOK
<1> QED
  BY <1>2, <1>4, <1>8, <1>11, <1>12, <1>13, <1>14

\* Adding or deleting a line of no requisition touches no requisition's lines.
LEMMA ManualFrame ==
  ASSUME TypeOK, TypeOK', Covering, NEW k \in Items, item[k].line = NoReq,
         item'[k].line = NoReq, \A q \in Items \ {k} : item'[q] = item[q],
         item'[k] # NoItem => item'[k].out \in Outs /\ so[item'[k].out].status # "absent",
         UNCHANGED <<req, so>>
  PROVE  /\ (\A q \in Items : Placed(q)')
         /\ \A r \in Reqs : /\ Own(r)' = Own(r) /\ Qty(Own(r))' = Qty(Own(r))
                            /\ LineIn(r, {"draft"})' = LineIn(r, {"draft"})
                            /\ Drafted(r)' = Drafted(r)
                            /\ LineSound(req[r], r)'
<1>1. ASSUME NEW q \in Items PROVE Placed(q)'
  <2>1. CASE q = k
    BY <2>1 DEF Placed
  <2>2. CASE q # k
    BY <2>2 DEF Placed, Covering
  <2> QED
    BY <2>1, <2>2
<1>2. ASSUME NEW r \in Reqs
      PROVE  /\ Own(r)' = Own(r) /\ Own(r) \in SUBSET (Items \ {k})
             /\ LineIn(r, {"draft"})' = LineIn(r, {"draft"})
             /\ LineIn(r, {"draft"}) \in SUBSET (Items \ {k})
  <2>1. r # NoReq
    BY ConstantsAssumption DEF ConstantsAssumption
  <2>2. Own(r)' = Own(r) /\ Own(r) \in SUBSET (Items \ {k})
    BY <2>1 DEF Own
  <2>3. /\ LineIn(r, {"draft"})' = LineIn(r, {"draft"})
        /\ LineIn(r, {"draft"}) \in SUBSET (Items \ {k})
    BY <2>1 DEF LineIn
  <2> QED
    BY <2>2, <2>3
<1>3. \A S \in SUBSET (Items \ {k}) : Total(Amounts', S) = Qty(S)
  BY QtyFrame
<1>4. ASSUME NEW r \in Reqs
      PROVE  Qty(Own(r))' = Qty(Own(r)) /\ Drafted(r)' = Drafted(r)
  BY <1>2, <1>3 DEF Qty, Drafted
<1>5. ASSUME NEW r \in Reqs PROVE LineSound(req[r], r)'
  <2>1. LineSound(req[r], r)
    BY DEF Covering
  <2> QED
    BY <1>2, <1>4, <2>1 DEF LineSound
<1> QED
  BY <1>1, <1>2, <1>4, <1>5

\* A Store Out without lines of requisitions is new.
LEMMA CreateCovering ==
  ASSUME TypeOK, TypeOK', Covering, CreateStoreOut
  PROVE  /\ Covering'
         /\ \A r \in Reqs : req'[r] = req[r] /\ Drafted(r)' = Drafted(r)
<1>1. PICK i \in Outs : IsNextOut(i) /\ so' = [so EXCEPT ![i].status = "draft"]
  BY DEF CreateStoreOut
<1>2. UNCHANGED <<req, item>>
  BY DEF CreateStoreOut
<1>3. /\ so[i].status = "absent" /\ so'[i].req \notin Reqs
      /\ \A j \in Outs \ {i} : so'[j] = so[j]
  BY <1>1, ConstantsAssumption DEF IsNextOut, NoOut, TypeOK, ConstantsAssumption
<1>4. \A k \in Items : item[k] # NoItem => item[k].out \in Outs \ {i}
  BY <1>3 DEF Covering, Placed
<1>5. \A k \in Items : Placed(k)'
  BY <1>2, <1>3, <1>4 DEF Covering, Placed
<1>6. OneDraft'
  <2>1. \A r \in Reqs : Own(r)' = Own(r)
    BY <1>2 DEF Own
  <2>2. \A j \in Outs : so'[j].req \in Reqs => so'[j] = so[j]
    BY <1>3
  <2> QED
    BY <1>2, <2>1, <2>2 DEF Covering, OneDraft
<1>7. \A r \in Reqs : LineIn(r, {"draft"})' = LineIn(r, {"draft"})
  BY <1>2, <1>3, <1>4 DEF LineIn
<1>8. Amounts' = Amounts
  BY <1>2, OwnKept
<1>9. \A r \in Reqs : Drafted(r)' = Drafted(r)
  BY <1>7, <1>8 DEF Drafted, Qty
<1>10. ASSUME NEW r \in Reqs PROVE LineSound(req[r], r)'
  BY <1>2, <1>7, FewerDrafts DEF Covering
<1> QED
  BY <1>2, <1>5, <1>6, <1>9, <1>10 DEF Covering

\* Adding or deleting a line of no requisition.
LEMMA ManualCovering ==
  ASSUME TypeOK, TypeOK', Covering, NEW u \in Users,
         (\E l \in Lines, q \in Quantities : AddLine(u, l, q)) \/ DeleteLine(u),
         unusual' \cap {"late", "byhand", "discarded"} = {}
  PROVE  /\ Covering' /\ reserved' = reserved
         /\ \A r \in Reqs : req'[r] = req[r] /\ Drafted(r)' = Drafted(r)
<1>1. UNCHANGED <<req, so>>
  BY DEF AddLine, DeleteLine
<1>2. PICK k \in Items :
        /\ item[k].line = NoReq /\ item'[k].line = NoReq
        /\ \A q \in Items \ {k} : item'[q] = item[q]
        /\ item'[k] # NoItem => item'[k].out \in Outs /\ so[item'[k].out].status # "absent"
        /\ reserved' = reserved
  <2>1. CASE \E l \in Lines, q \in Quantities : AddLine(u, l, q)
    <3>1. PICK l \in Lines, q \in Quantities : AddLine(u, l, q)
      BY <2>1
    <3>2. l = NoReq /\ so[session[u].id].status = "draft" /\ reserved' = reserved
      BY <3>1 DEF AddLine, Note, stock
    <3>3. session[u].id \in Outs
      BY <3>1, DoneType, AskKinds DEF AddLine
    <3>4. PICK k \in Items :
            /\ item[k] = NoItem
            /\ item' = [item EXCEPT ![k] = [out |-> session[u].id, line |-> l, qty |-> q]]
      BY <3>1 DEF AddLine, IsNextItem
    <3> QED
      BY <3>2, <3>3, <3>4 DEF TypeOK, NoItem
  <2>2. CASE DeleteLine(u)
    <3>1. session[u].id \in Items
      BY <2>2, DoneType, AskKinds DEF DeleteLine
    <3>2. item[session[u].id].line = NoReq
      BY <2>2 DEF DeleteLine, Note
    <3> QED
      BY <2>2, <3>1, <3>2 DEF DeleteLine, TypeOK, NoItem
  <2> QED
    BY <2>1, <2>2
<1>3. /\ \A q \in Items : Placed(q)'
      /\ \A r \in Reqs : /\ Own(r)' = Own(r) /\ Drafted(r)' = Drafted(r)
                         /\ LineSound(req[r], r)'
  BY <1>1, <1>2, ManualFrame
<1>4. OneDraft'
  <2>1. ASSUME NEW i \in Outs, so[i].status = "draft", so[i].req \in Reqs
        PROVE  \E q \in Own(so[i].req)' : item'[q].out = i
    <3>1. PICK q \in Own(so[i].req) : item[q].out = i
      BY <2>1 DEF Covering, OneDraft
    <3>2. q \in Items \ {k}
      BY <1>2, <2>1, <3>1, ConstantsAssumption DEF Own, ConstantsAssumption
    <3> QED
      BY <1>1, <1>2, <1>3, <2>1, <3>1, <3>2
  <2> QED
    BY <1>1, <2>1 DEF Covering, OneDraft
<1> QED
  BY <1>1, <1>2, <1>3, <1>4 DEF Covering

\* Buying changes what is bought, marking short says what is short.
LEMMA BuyRecord ==
  ASSUME TypeOK, NEW u \in Users, (\E q \in Quantities : Buy(u, q)) \/ MarkShort(u),
         NEW r, r = session[u].id
  PROVE  /\ r \in Reqs /\ UNCHANGED <<reserved, so, item>>
         /\ \E m : /\ req' = [req EXCEPT ![r] = m] /\ m.status = req[r].status
                   /\ m.stock = req[r].stock /\ m.onPO = req[r].onPO
<1>1. r \in Reqs
  BY DoneType, AskKinds DEF Buy, MarkShort
<1>2. req[r] \in ReqType
  BY <1>1 DEF TypeOK
<1>3. UNCHANGED <<reserved, so, item>>
  BY DEF Buy, MarkShort, stock
<1>4. CASE MarkShort(u)
  <2> DEFINE m == [req[r] EXCEPT !.short = TRUE]
  <2>1. req' = [req EXCEPT ![r] = m]
    BY <1>4 DEF MarkShort
  <2>2. m.status = req[r].status /\ m.stock = req[r].stock /\ m.onPO = req[r].onPO
    BY <1>2 DEF ReqType
  <2> QED
    BY <1>1, <1>3, <2>1, <2>2
<1>5. CASE \E q \in Quantities : Buy(u, q)
  <2>1. PICK q \in Quantities : Buy(u, q)
    BY <1>5
  <2> DEFINE m == [req[r] EXCEPT !.bought = @ + q]
  <2>2. req' = [req EXCEPT ![r] = m]
    BY <2>1 DEF Buy
  <2>3. m.status = req[r].status /\ m.stock = req[r].stock /\ m.onPO = req[r].onPO
    BY <1>2 DEF ReqType
  <2> QED
    BY <1>1, <1>3, <2>2, <2>3
<1> QED
  BY <1>4, <1>5

\* Purchases leave what the Store Outs hold.
LEMMA BuyCovering ==
  ASSUME TypeOK, TypeOK', Covering, NEW u \in Users,
         (\E q \in Quantities : Buy(u, q)) \/ MarkShort(u)
  PROVE  Covering'
<1> SUFFICES ASSUME NEW r, r = session[u].id PROVE Covering'
  OBVIOUS
<1>1. PICK m : /\ req' = [req EXCEPT ![r] = m] /\ m.status = req[r].status
               /\ m.stock = req[r].stock /\ m.onPO = req[r].onPO
  BY BuyRecord
<1>2. r \in Reqs /\ UNCHANGED <<so, item>>
  BY BuyRecord
<1>3. LineSound(m, r)
  BY <1>1, <1>2, SameStage DEF Covering
<1> QED
  BY <1>1, <1>2, <1>3, CoveringFrame

\* Asking reads only.
LEMMA AskKeeps ==
  ASSUME NEW u \in Users, AskAny(u)
  PROVE  UNCHANGED <<stock, req, so, item, taken, unusual>>
  BY DEF AskAny, AskBuy, AskShort, AskCancel, AskResolve, AskAddLine, AskIssue,
     AskCancelStoreOut, AskDeleteLine, Ask

\* Covering holds after every step that adds no kind of event it excepts.
LEMMA CoveringStep ==
  ASSUME TypeOK, TypeOK', Covering, [Next]_vars, unusual' \subseteq Harmless
  PROVE  Covering'
<1>1. ASSUME NEW r \in Reqs, Requisition(r) PROVE Covering'
  BY <1>1, RequisitionCovering
<1>2. ASSUME NEW u \in Users, AskAny(u) PROVE Covering'
  BY <1>2, AskKeeps, CoveringKept
<1>3. ASSUME NEW u \in Users, DoAny(u) PROVE Covering'
  <2>1. CASE GiveUp(u)
    BY <2>1, CoveringKept DEF GiveUp
  <2>2. CASE (\E q \in Quantities : Buy(u, q)) \/ MarkShort(u)
    BY <2>2, BuyCovering
  <2>3. CASE Resolve(u)
    BY <2>3, ResolveCovering DEF Harmless
  <2>4. CASE Cancel(u)
    BY <2>4, CancelCovering DEF Harmless
  <2>5. CASE (\E l \in Lines, q \in Quantities : AddLine(u, l, q)) \/ DeleteLine(u)
    BY <2>5, ManualCovering DEF Harmless
  <2>6. CASE Issue(u) \/ CancelStoreOut(u)
    BY <2>6, StoreOutCovering DEF Harmless
  <2> QED
    BY <1>3, <2>1, <2>2, <2>3, <2>4, <2>5, <2>6 DEF DoAny
<1>4. CASE CreateStoreOut
  BY <1>4, CreateCovering
<1>5. ASSUME NEW n \in 0..MaxOnHand, Adjust(n) PROVE Covering'
  BY <1>5, CoveringKept DEF Adjust
<1>6. CASE UNCHANGED vars
  BY <1>6, CoveringKept DEF vars
<1> QED
  BY <1>1, <1>2, <1>3, <1>4, <1>5, <1>6 DEF Next

\* Kinds of unusual events are never forgotten.
LEMMA UnusualGrows == ASSUME [Next]_vars PROVE unusual \subseteq unusual'
<1>1. ASSUME NEW r \in Reqs, Requisition(r) PROVE unusual \subseteq unusual'
  BY <1>1 DEF Requisition, SubmitToInventoryCheck, VerifyPrices, RejectToMarketPricing,
       ConfirmInventoryCheck, ConfirmOmitting, Note, Reject, Approve, FinishBuying, RejectPurchase, ReceiveChild,
       CompleteChild, CancelChild, CloseLine
<1>2. ASSUME NEW u \in Users, AskAny(u) PROVE unusual' = unusual
  BY <1>2, AskKeeps
<1>3. ASSUME NEW u \in Users, DoAny(u) PROVE unusual \subseteq unusual'
  BY <1>3 DEF DoAny, GiveUp, Buy, MarkShort, Resolve, Cancel, AddLine, DeleteLine, Issue,
       CancelStoreOut, Note
<1>4. CASE CreateStoreOut
  BY <1>4 DEF CreateStoreOut
<1>5. ASSUME NEW n \in 0..MaxOnHand, Adjust(n) PROVE unusual \subseteq unusual'
  BY <1>5 DEF Adjust, Note
<1>6. CASE UNCHANGED vars
  BY <1>6 DEF vars
<1> QED
  BY <1>1, <1>2, <1>3, <1>4, <1>5, <1>6 DEF Next

\* What a request to cancel read is a status that can be cancelled.
LEMMA CancellingStep == ASSUME TypeOK, Cancelling, [Next]_vars PROVE Cancelling'
<1>1. ASSUME NEW u \in Users, AskAny(u) PROVE Cancelling'
  <2>1. PICK op, id, status, s, q :
          /\ Ask(u, op, id, status, s, q)
          /\ op = "cancel" => status \notin {"completed", "cancelled"}
    <3>1. CASE \E r \in Reqs : AskCancel(u, r)
      BY <3>1 DEF AskCancel
    <3>2. CASE ~\E r \in Reqs : AskCancel(u, r)
      BY <1>1, <3>2 DEF AskAny, AskBuy, AskShort, AskResolve, AskAddLine, AskIssue,
         AskCancelStoreOut, AskDeleteLine
    <3> QED
      BY <3>1, <3>2
  <2> QED
    BY <2>1 DEF Ask, Cancelling, TypeOK
<1>2. ASSUME NEW u \in Users, DoAny(u) PROVE Cancelling'
  <2>1. session' = [session EXCEPT ![u] = NoAsk]
    BY <1>2 DEF DoAny, GiveUp, Buy, MarkShort, Resolve, Cancel, AddLine, DeleteLine, Issue,
       CancelStoreOut, Doing
  <2> QED
    BY <2>1 DEF Cancelling, TypeOK, NoAsk
<1>3. CASE UNCHANGED session
  BY <1>3 DEF Cancelling
<1>4. ASSUME NEW r \in Reqs, Requisition(r) PROVE UNCHANGED session
  BY <1>4 DEF Requisition, SubmitToInventoryCheck, VerifyPrices, RejectToMarketPricing,
       ConfirmInventoryCheck, ConfirmOmitting, Reject, Approve, FinishBuying, RejectPurchase, ReceiveChild,
       CompleteChild, CancelChild, CloseLine
<1>5. ASSUME CreateStoreOut \/ (\E n \in 0..MaxOnHand : Adjust(n)) \/ UNCHANGED vars
      PROVE  UNCHANGED session
  BY <1>5 DEF CreateStoreOut, Adjust, vars
<1> QED
  BY <1>1, <1>2, <1>3, <1>4, <1>5 DEF Next

\* In the beginning no requisition is approved and there is no Store Out.
LEMMA CoverInit == Init => CoverInv
<1> SUFFICES ASSUME Init PROVE CoverInv
  OBVIOUS
<1>1. TypeOK
  BY InitType
<1>2. \A k \in Items : item[k] = NoItem
  BY DEF Init
<1>3. \A i \in Outs : so[i].status = "absent"
  BY DEF Init, NoOut
<1>4. \A r \in Reqs : req[r].status = "draft" /\ req[r].onPO = FALSE
  BY DEF Init
<1>5. Covering
  BY <1>2, <1>3, <1>4 DEF Covering, Placed, OneDraft, LineSound, Own
<1>6. Cancelling
  BY DEF Init, Cancelling, NoAsk
<1> QED
  BY <1>1, <1>5, <1>6 DEF CoverInv

\* CoverInv is inductive.
LEMMA CoverNext == CoverInv /\ [Next]_vars => CoverInv'
<1> SUFFICES ASSUME CoverInv, [Next]_vars PROVE CoverInv'
  OBVIOUS
<1>1. TypeOK' /\ Cancelling'
  BY StepType, CancellingStep DEF CoverInv
<1>2. ASSUME unusual' \subseteq Harmless PROVE Covering'
  BY <1>1, <1>2, UnusualGrows, CoveringStep DEF CoverInv
<1> QED
  BY <1>1, <1>2 DEF CoverInv

\* Whatever is covered from stock has its Store Outs, for exactly that much,
\* and each takes its units once, through every purchase, later coverage and
\* cancelled draft: only what CoveredOnce excepts by name can part them.
THEOREM CoveredOnceAlways == Spec => []CoveredOnce
<1>1. CoverInv /\ ("late" \notin unusual => TakenOnce) => CoveredOnce
  <2> SUFFICES ASSUME CoverInv, "late" \notin unusual => TakenOnce,
                      unusual \subseteq Harmless
               PROVE  /\ TakenOnce
                      /\ \A r \in Reqs :
                           req[r].status \in {"items_bought", "sourcing", "completed"}
                           => req[r].stock = Qty(LineIn(r, {"draft", "issued", "cancelled"}))
    BY DEF CoveredOnce
  <2>1. ASSUME NEW r \in Reqs
        PROVE  Own(r) = LineIn(r, {"draft", "issued", "cancelled"}) /\ LineSound(req[r], r)
    BY OwnSplit DEF CoverInv, Covering
  <2> QED
    BY <2>1 DEF LineSound, Harmless
<1> QED
  BY <1>1, CoverInit, CoverNext, TakenOnceAlways, PTL DEF Spec

-----------------------------------------------------------------------------
(* Completion. *)

\* A line that completion counts as issued has no draft left, unless a
\* supervisor closed it.
LEMMA ResolvedDrafts ==
  ASSUME TypeOK, Covering, NEW r \in Reqs, req[r].status = "sourcing",
         NEW l, l.onPO = req[r].onPO, l.stock = req[r].stock, Resolved(l, Issued(r))
  PROVE  "own" \in l.closed \/ Drafted(r) = 0
<1>1. /\ Drafted(r) \in Nat /\ Issued(r) \in Nat /\ Qty(LineIn(r, {"cancelled"})) \in Nat
      /\ Qty(Own(r)) = Drafted(r) + Issued(r) + Qty(LineIn(r, {"cancelled"}))
  BY OwnSplit DEF Covering
<1>2. l.stock = Qty(Own(r)) /\ (l.onPO => l.stock = 0)
  BY DEF Covering, LineSound
<1>3. "own" \in l.closed \/ l.stock = 0 \/ l.stock <= Issued(r)
  BY <1>2 DEF Resolved
<1> QED
  BY <1>1, <1>2, <1>3

\* The draft Store Out of a requisition holds all its drafted lines, and no
\* linked line of another.
LEMMA DraftOf ==
  ASSUME TypeOK, Covering, NEW i \in Outs
  PROVE  /\ \A k \in Linked(i) : item[k].line \in Reqs /\ so[i].req = item[k].line
         /\ so[i].status = "draft" /\ so[i].req \in Reqs
            => Linked(i) = LineIn(so[i].req, {"draft"})
         /\ so[i].req \notin Reqs => Linked(i) = {}
<1>1. ASSUME NEW k \in Linked(i)
      PROVE  /\ k \in Items /\ item[k] # NoItem /\ item[k].out = i
             /\ item[k].line \in Reqs /\ so[i].req = item[k].line
  <2>1. k \in Items /\ item[k] # NoItem /\ item[k].out = i /\ item[k].line # NoReq
    BY DEF Linked, ItemsIn
  <2>2. item[k].line \in Reqs
    BY <2>1 DEF TypeOK, Lines
  <2> QED
    BY <2>1, <2>2 DEF Covering, Placed
<1>2. ASSUME so[i].status = "draft", so[i].req \in Reqs
      PROVE  Linked(i) = LineIn(so[i].req, {"draft"})
  <2>1. ASSUME NEW k \in LineIn(so[i].req, {"draft"}) PROVE k \in Linked(i)
    <3>1. /\ k \in Items /\ item[k] # NoItem /\ item[k].line = so[i].req
          /\ so[item[k].out].status = "draft"
      BY DEF LineIn
    <3>2. item[k].line # NoReq
      BY <1>2, <3>1, ConstantsAssumption DEF ConstantsAssumption
    <3>3. item[k].out \in Outs /\ so[item[k].out].req = so[i].req
      BY <3>1, <3>2 DEF Covering, Placed
    <3>4. item[k].out = i
      BY <1>2, <3>1, <3>3 DEF Covering, OneDraft
    <3> QED
      BY <3>1, <3>2, <3>4 DEF Linked, ItemsIn
  <2> QED
    BY <1>1, <1>2, <2>1 DEF LineIn
<1> QED
  BY <1>1, <1>2

\* After a draft Store Out is issued or cancelled its requisition has no
\* drafted line, and the others have what they had.
LEMMA DraftGone ==
  ASSUME TypeOK, Covering, NEW i \in Outs, so[i].status = "draft", item' = item,
         NEW status \in {"issued", "cancelled"}, so' = [so EXCEPT ![i].status = status]
  PROVE  \A r \in Reqs : Drafted(r)' = IF r = so[i].req THEN 0 ELSE Drafted(r)
<1>1. /\ so'[i].status = status /\ \A j \in Outs \ {i} : so'[j] = so[j]
  BY DEF TypeOK
<1>2. Amounts' = Amounts
  BY OwnKept
<1>3. ASSUME NEW r \in Reqs, r = so[i].req PROVE Drafted(r)' = 0
  <2>1. LineIn(r, {"draft"})' = {}
    <3>1. ASSUME NEW k \in LineIn(r, {"draft"})' PROVE FALSE
      <4>1. /\ k \in Items /\ item[k] # NoItem /\ item[k].line = r
            /\ so'[item[k].out].status = "draft"
        BY <3>1 DEF LineIn
      <4>2. item[k].out \in Outs
        BY <4>1 DEF Covering, Placed
      <4>3. item[k].out # i /\ so[item[k].out].status = "draft"
        BY <1>1, <4>1, <4>2
      <4>4. k \in LineIn(r, {"draft"})
        BY <4>1, <4>3 DEF LineIn
      <4>5. k \in Linked(i)
        BY <1>3, <4>4, DraftOf
      <4> QED
        BY <4>3, <4>5 DEF Linked, ItemsIn
    <3> QED
      BY <3>1
  <2>2. Total(Amounts', {}) = 0
    BY TotalOfNone
  <2> QED
    BY <2>1, <2>2 DEF Drafted, Qty
<1>4. ASSUME NEW r \in Reqs, r # so[i].req PROVE Drafted(r)' = Drafted(r)
  <2>1. ASSUME NEW k \in Items, item[k] # NoItem, item[k].line = r
        PROVE  item[k].out \in Outs /\ item[k].out # i
    <3>1. item[k].line # NoReq
      BY <2>1, ConstantsAssumption DEF ConstantsAssumption
    <3> QED
      BY <1>4, <2>1, <3>1 DEF Covering, Placed
  <2>2. LineIn(r, {"draft"})' = LineIn(r, {"draft"})
    BY <1>1, <2>1 DEF LineIn
  <2> QED
    BY <1>2, <2>2 DEF Drafted, Qty
<1> QED
  BY <1>3, <1>4

\* A step that completes a requisition leaves it no draft Store Out, unless its
\* line is closed.
LEMMA CompletesStep ==
  ASSUME CoverInv, [Next]_vars, unusual' \subseteq Harmless,
         NEW r \in Reqs, req[r].status # "completed", req'[r].status = "completed"
  PROVE  "own" \in req'[r].closed \/ Drafted(r)' = 0
<1>1. TypeOK /\ TypeOK' /\ Covering /\ Covering' /\ req \in [Reqs -> ReqType]
  BY UnusualGrows, StepType, CoveringStep DEF CoverInv, TypeOK
<1>2. ASSUME NEW l \in ReqType, l.status = req[r].status, l.onPO = req[r].onPO,
             l.stock = req[r].stock, req' = [req EXCEPT ![r] = Evaluated(l, Issued(r))],
             UNCHANGED <<so, item>>
      PROVE  "own" \in req'[r].closed \/ Drafted(r)' = 0
  <2>1. req'[r] = Evaluated(l, Issued(r))
    BY <1>1, <1>2
  <2>2. req[r].status = "sourcing" /\ Resolved(l, Issued(r)) /\ req'[r].closed = l.closed
    BY <1>2, <2>1 DEF Evaluated, ReqType
  <2>3. Drafted(r)' = Drafted(r)
    BY <1>2, LinesKept
  <2> QED
    BY <1>1, <1>2, <2>2, <2>3, ResolvedDrafts
<1>3. ASSUME NEW x \in Reqs, Requisition(x)
      PROVE  "own" \in req'[r].closed \/ Drafted(r)' = 0
  <2>1. CASE x # r
    <3>1. req'[r] = req[r]
      BY <1>1, <1>3, <2>1 DEF Requisition, SubmitToInventoryCheck, VerifyPrices,
         RejectToMarketPricing, ConfirmInventoryCheck, ConfirmOmitting, Reject, Approve, FinishBuying,
         RejectPurchase, ReceiveChild, CompleteChild, CancelChild, CloseLine
    <3> QED
      BY <3>1
  <2>2. CASE x = r /\ (CompleteChild(r) \/ CancelChild(r))
    <3>1. PICK po \in {"closed", "cancelled"} :
            /\ req' = [req EXCEPT ![r] = Evaluated([req[r] EXCEPT !.po = po], Issued(r))]
            /\ UNCHANGED <<so, item>>
      BY <2>2 DEF CompleteChild, CancelChild
    <3> DEFINE m == [req[r] EXCEPT !.po = po]
    <3>2. /\ m \in ReqType /\ m.status = req[r].status /\ m.stock = req[r].stock
          /\ m.onPO = req[r].onPO
      BY <1>1 DEF ReqType
    <3>3. req' = [req EXCEPT ![r] = Evaluated(m, Issued(r))]
      BY <3>1
    <3> HIDE DEF m
    <3> QED
      BY <1>2, <3>1, <3>2, <3>3
  <2>3. CASE x = r /\ \E part \in {"own", "bought"} : CloseLine(r, part)
    <3>1. PICK part \in {"own", "bought"} : CloseLine(r, part)
      BY <2>3
    <3> DEFINE m == [req[r] EXCEPT !.closed = req[r].closed \cup {part}]
    <3>2. req' = [req EXCEPT ![r] = Evaluated(m, Issued(r))] /\ UNCHANGED <<so, item>>
      BY <3>1 DEF CloseLine
    <3>3. /\ m \in ReqType /\ m.status = req[r].status /\ m.stock = req[r].stock
          /\ m.onPO = req[r].onPO
      BY <1>1 DEF ReqType
    <3> HIDE DEF m
    <3> QED
      BY <1>2, <3>2, <3>3
  <2>4. CASE x = r /\ ~(CompleteChild(r) \/ CancelChild(r))
             /\ ~\E part \in {"own", "bought"} : CloseLine(r, part)
    <3>1. ASSUME NEW m, req' = [req EXCEPT ![r] = m], m.status # "completed"
          PROVE  req'[r].status # "completed"
      BY <1>1, <3>1
    <3> DEFINE l == req[r]
    <3>2. l \in ReqType /\ l.status # "completed"
      BY <1>1
    <3>3. CASE SubmitToInventoryCheck(r) \/ VerifyPrices(r) \/ RejectToMarketPricing(r)
               \/ \E to \in {"draft", "inventory_check"} : Reject(r, to)
      <4>1. PICK to \in {"draft", "inventory_check", "pricing", "pending_approval"} :
              req' = [req EXCEPT ![r] = [l EXCEPT !.status = to]]
        BY <3>3 DEF SubmitToInventoryCheck, VerifyPrices, RejectToMarketPricing, Reject
      <4>2. [l EXCEPT !.status = to].status = to
        BY <3>2 DEF ReqType
      <4> QED
        BY <3>1, <4>1, <4>2
    <3>4. CASE \E q \in 0..MaxOnHand : ConfirmInventoryCheck(r, q)
      <4>1. PICK q \in 0..MaxOnHand : ConfirmInventoryCheck(r, q)
        BY <3>4
      <4> DEFINE m == [l EXCEPT !.stock = q,
                         !.status = IF q < l.ordered THEN "pricing" ELSE "pending_approval"]
      <4>2. req' = [req EXCEPT ![r] = m]
        BY <4>1 DEF ConfirmInventoryCheck
      <4>3. m.status # "completed"
        BY <3>2 DEF ReqType
      <4> HIDE DEF m
      <4> QED
        BY <3>1, <4>2, <4>3
    <3>10. CASE ConfirmOmitting(r)
      <4> DEFINE m == [l EXCEPT !.status = IF l.stock < l.ordered THEN "pricing"
                                                                   ELSE "pending_approval"]
      <4>1. req' = [req EXCEPT ![r] = m]
        BY <3>10 DEF ConfirmOmitting
      <4>2. m.status # "completed"
        BY <3>2 DEF ReqType
      <4> HIDE DEF m
      <4> QED
        BY <3>1, <4>1, <4>2
    <3>5. CASE Approve(r)
      <4> DEFINE m == [l EXCEPT !.status = IF l.stock < l.ordered THEN "items_bought"
                                                                   ELSE "sourcing"]
      <4>1. req' = [req EXCEPT ![r] = m]
        BY <3>5 DEF Approve
      <4>2. m.status # "completed"
        BY <3>2 DEF ReqType
      <4> HIDE DEF m
      <4> QED
        BY <3>1, <4>1, <4>2
    <3>6. CASE \E q \in Quantities : RejectPurchase(r, q)
      <4>1. PICK q \in Quantities : RejectPurchase(r, q)
        BY <3>6
      <4>2. req' = [req EXCEPT ![r] = [l EXCEPT !.bought = l.bought - q]]
        BY <4>1 DEF RejectPurchase
      <4>3. [l EXCEPT !.bought = l.bought - q].status = l.status
        BY <3>2 DEF ReqType
      <4> QED
        BY <3>1, <3>2, <4>2, <4>3
    <3>7. CASE FinishBuying(r)
      <4> DEFINE moves == l.stock = 0 /\ ~l.short
                 m == [l EXCEPT !.status = "sourcing",
                         !.po = IF l.bought > 0 THEN "bought" ELSE "none",
                         !.onPO = l.bought > 0 /\ moves,
                         !.ordered = IF l.bought > 0 /\ ~moves THEN @ - l.bought ELSE @]
      <4>1. req' = [req EXCEPT ![r] = m]
        BY <3>7 DEF FinishBuying
      <4>2. m.status = "sourcing"
        BY <3>2 DEF ReqType
      <4> HIDE DEF m
      <4> QED
        BY <3>1, <4>1, <4>2
    <3>8. CASE ReceiveChild(r)
      <4>1. req' = [req EXCEPT ![r] = [l EXCEPT !.po = "received"]]
        BY <3>8 DEF ReceiveChild
      <4>2. [l EXCEPT !.po = "received"].status = l.status
        BY <3>2 DEF ReqType
      <4> QED
        BY <3>1, <3>2, <4>1, <4>2
    <3>9. Requisition(r)
      BY <1>3, <2>4
    <3> QED
      BY <2>4, <3>3, <3>4, <3>5, <3>6, <3>7, <3>8, <3>9, <3>10 DEF Requisition
  <2> QED
    BY <2>1, <2>2, <2>3, <2>4
<1>4. ASSUME NEW u \in Users, Issue(u)
      PROVE  "own" \in req'[r].closed \/ Drafted(r)' = 0
  <2> DEFINE i == session[u].id
  <2>1. i \in Outs
    BY <1>1, <1>4, DoneType, AskKinds DEF Issue
  <2>2. r = so[i].req
    BY <1>1, <1>4 DEF Issue
  <2>3. so[i].status = "draft" /\ item' = item /\ so' = [so EXCEPT ![i].status = "issued"]
    BY <1>4 DEF Issue, Note, Harmless
  <2> HIDE DEF i
  <2> QED
    BY <1>1, <2>1, <2>2, <2>3, DraftGone
<1>5. ASSUME NEW u \in Users, DoAny(u), ~Issue(u)
      PROVE  "own" \in req'[r].closed \/ Drafted(r)' = 0
  <2> SUFFICES ASSUME NEW x, x = session[u].id PROVE req'[r].status # "completed"
    OBVIOUS
  <2>1. ASSUME NEW m, req' = [req EXCEPT ![x] = m],
               m.status = req[x].status \/ m.status = "cancelled"
        PROVE  req'[r].status # "completed"
    BY <1>1, <2>1
  <2>2. ASSUME (\E q \in Quantities : Buy(u, q)) \/ MarkShort(u) \/ Resolve(u)
               \/ Cancel(u)
        PROVE  x \in Reqs /\ req[x] \in ReqType
    BY <1>1, <2>2, DoneType, AskKinds DEF Buy, MarkShort, Resolve, Cancel
  <2>3. CASE \E q \in Quantities : Buy(u, q)
    <3>1. PICK q \in Quantities : Buy(u, q)
      BY <2>3
    <3>2. req' = [req EXCEPT ![x] = [req[x] EXCEPT !.bought = req[x].bought + q]]
      BY <3>1 DEF Buy
    <3>3. [req[x] EXCEPT !.bought = req[x].bought + q].status = req[x].status
      BY <2>2, <2>3 DEF ReqType
    <3> QED
      BY <2>1, <3>2, <3>3
  <2>4. CASE MarkShort(u)
    <3>1. req' = [req EXCEPT ![x] = [req[x] EXCEPT !.short = TRUE]]
      BY <2>4 DEF MarkShort
    <3>2. [req[x] EXCEPT !.short = TRUE].status = req[x].status
      BY <2>2, <2>4 DEF ReqType
    <3> QED
      BY <2>1, <3>1, <3>2
  <2>5. CASE Resolve(u)
    <3> DEFINE s == session[u].stock + session[u].qty
    <3>1. req' = [req EXCEPT ![x] = [req[x] EXCEPT !.stock = s]]
      BY <2>5 DEF Resolve
    <3>2. [req[x] EXCEPT !.stock = s].status = req[x].status
      BY <2>2, <2>5 DEF ReqType
    <3> QED
      BY <2>1, <3>1, <3>2
  <2>6. CASE Cancel(u)
    <3> DEFINE po == IF req[x].po = "bought" THEN "cancelled" ELSE req[x].po
               m  == [req[x] EXCEPT !.status = "cancelled", !.po = po]
    <3>1. req' = [req EXCEPT ![x] = m]
      BY <1>1, <2>2, <2>6 DEF Cancel
    <3>2. m.status = "cancelled"
      BY <2>2, <2>6 DEF ReqType
    <3> HIDE DEF m
    <3> QED
      BY <2>1, <3>1, <3>2
  <2>7. CASE UNCHANGED req
    BY <2>7
  <2> QED
    BY <1>5, <2>3, <2>4, <2>5, <2>6, <2>7 DEF DoAny, GiveUp, AddLine, DeleteLine, CancelStoreOut
<1>6. ASSUME UNCHANGED req PROVE "own" \in req'[r].closed \/ Drafted(r)' = 0
  BY <1>6
<1>7. ASSUME NEW u \in Users, AskAny(u) PROVE UNCHANGED req
  BY <1>7, AskKeeps
<1>8. ASSUME CreateStoreOut \/ (\E n \in 0..MaxOnHand : Adjust(n)) \/ UNCHANGED vars
      PROVE  UNCHANGED req
  BY <1>8 DEF CreateStoreOut, Adjust, vars
<1> QED
  BY <1>3, <1>4, <1>5, <1>6, <1>7, <1>8 DEF Next

\* Whatever completes a requisition - its last Store Out, its child order, a
\* supervisor closing what was bought - no draft Store Out of it is left.
THEOREM CompletesAfterIssueAlways == Spec => CompletesAfterIssue
<1>1. CoverInv /\ [Next]_vars
      => [\A r \in Reqs :
            /\ req[r].status # "completed" /\ req'[r].status = "completed"
            /\ unusual' \subseteq Harmless
            => "own" \in req'[r].closed \/ Drafted(r)' = 0]_vars
  BY CompletesStep
<1> QED
  BY <1>1, CoverInit, CoverNext, PTL DEF Spec, CompletesAfterIssue

-----------------------------------------------------------------------------
(* Every reserved unit is promised. *)

\* What a requisition is promised is a natural number.
LEMMA PromiseIsNatural == ASSUME TypeOK, NEW r \in Reqs PROVE Promise(r) \in Nat
<1>1. req[r].stock \in Nat
  BY DEF TypeOK, ReqType
<1>2. Drafted(r) \in Nat
  BY QtyIsNatural DEF Drafted, LineIn
<1> QED
  BY <1>1, <1>2 DEF Promise

\* It is one after the step too.
LEMMA PromiseStaysNatural == TypeOK' => (\A r \in Reqs : Promise(r) \in Nat)'
<1>1. TypeOK => \A r \in Reqs : Promise(r) \in Nat
  BY PromiseIsNatural
<1> QED
  BY <1>1, PTL

\* A promise is not larger than what is reserved.
LEMMA PromiseWithin ==
  ASSUME TypeOK, reserved = Promised, NEW r \in Reqs
  PROVE  Promise(r) \in Nat /\ Promise(r) <= reserved
<1> DEFINE p == [x \in Reqs |-> Promise(x)]
<1>1. IsFiniteSet(Reqs) /\ \A x \in Reqs : p[x] \in Nat
  BY ConstantsAssumption, PromiseIsNatural DEF ConstantsAssumption
<1> HIDE DEF p
<1>2. p[r] <= Total(p, Reqs)
  BY <1>1, TotalOfChange
<1> QED
  BY <1>2, PromiseIsNatural DEF p, Promised

\* The three things a step can do to promises: nothing, ...
Keeps == reserved' = reserved /\ \A x \in Reqs : Promise(x)' = Promise(x)

\* ... reserve more for one requisition, of what is available, ...
Raises(r) ==
  /\ \A x \in Reqs \ {r} : Promise(x)' = Promise(x)
  /\ \E n \in Nat : /\ n = 0 \/ n <= Available
                    /\ Promise(r)' = Promise(r) + n /\ reserved' = reserved + n

\* ... or end the promise of one, and its reservation.
Ends(r) ==
  /\ \A x \in Reqs \ {r} : Promise(x)' = Promise(x)
  /\ Promise(r)' = 0 /\ reserved' = reserved - Promise(r)

\* A step that changes one promise, and the reservation by as much.
LEMMA PromiseFrame ==
  ASSUME TypeOK, TypeOK', reserved = Promised, NEW r \in Reqs,
         \A x \in Reqs \ {r} : Promise(x)' = Promise(x),
         reserved' = reserved - Promise(r) + Promise(r)'
  PROVE  (reserved = Promised)'
<1> DEFINE p == [x \in Reqs |-> Promise(x)]
           q == [x \in Reqs |-> Promise(x)']
<1>1. \A x \in Reqs : Promise(x) \in Nat
  BY PromiseIsNatural
<1>2. \A x \in Reqs : Promise(x)' \in Nat
  BY PromiseStaysNatural
<1>3. \A x \in Reqs : p[x] \in Nat /\ q[x] \in Nat
  BY <1>1, <1>2
<1>4. \A x \in Reqs \ {r} : q[x] = p[x]
  OBVIOUS
<1>5. p[r] = Promise(r) /\ q[r] = Promise(r)'
  OBVIOUS
<1>6. IsFiniteSet(Reqs)
  BY ConstantsAssumption DEF ConstantsAssumption
<1> HIDE DEF p, q
<1>7. Total(q, Reqs) = Total(p, Reqs) - p[r] + q[r]
  BY <1>3, <1>4, <1>6, TotalOfChange
<1>8. Promised = Total(p, Reqs) /\ Promised' = Total(q, Reqs)
  BY DEF Promised, p, q
<1> QED
  BY <1>5, <1>7, <1>8

\* Nothing promised changes.
LEMMA PromiseSame ==
  ASSUME reserved = Promised, Keeps
  PROVE  (reserved = Promised)'
<1>1. Promised' = Promised
  BY DEF Promised, Keeps
<1> QED
  BY <1>1 DEF Keeps

\* A release of what is reserved lowers the reservation by exactly that.
LEMMA LessExact ==
  ASSUME reserved \in Nat, NEW n \in Nat, n <= reserved
  PROVE  Less(n) = reserved - n
  BY DEF Less, AtLeast0

\* Before the approval a requisition holds its line, after it its drafts.
LEMMA WhatRemains ==
  ASSUME TypeOK, Covering, NEW r \in Reqs
  PROVE  /\ req[r].status \in {"draft", "inventory_check", "pricing", "pending_approval"}
              => Drafted(r) = 0 /\ Remaining(r) = req[r].stock
         /\ req[r].status \in {"items_bought", "sourcing", "completed"}
              => Remaining(r) = Drafted(r) /\ Promise(r) = Drafted(r)
<1>1. LineSound(req[r], r) /\ req[r].stock \in Nat
  BY DEF Covering, TypeOK, ReqType
<1>2. ASSUME req[r].status \in {"draft", "inventory_check", "pricing", "pending_approval"}
      PROVE  Drafted(r) = 0 /\ Remaining(r) = req[r].stock
  <2>1. Own(r) = {}
    BY <1>1, <1>2 DEF LineSound
  <2>2. Drafted(r) = 0 /\ Qty(LineIn(r, {"issued", "cancelled"})) = 0
    BY <2>1, NothingOwned
  <2> QED
    BY <1>1, <2>2 DEF Remaining
<1>3. ASSUME req[r].status \in {"items_bought", "sourcing", "completed"}
      PROVE  Remaining(r) = Drafted(r) /\ Promise(r) = Drafted(r)
  <2>1. req[r].stock = Qty(Own(r))
    BY <1>1, <1>3 DEF LineSound
  <2>2. /\ Drafted(r) \in Nat /\ Issued(r) \in Nat /\ Qty(LineIn(r, {"cancelled"})) \in Nat
        /\ Qty(LineIn(r, {"issued", "cancelled"}))
             = Issued(r) + Qty(LineIn(r, {"cancelled"}))
        /\ Qty(Own(r)) = Drafted(r) + Issued(r) + Qty(LineIn(r, {"cancelled"}))
    BY OwnSplit DEF Covering
  <2>3. Remaining(r) = Drafted(r)
    BY <2>1, <2>2 DEF Remaining
  <2> QED
    BY <1>3, <2>3 DEF Promise, Waiting
<1> QED
  BY <1>2, <1>3

\* A step that writes the record of one requisition and no Store Out, and
\* neither enters nor leaves the way to approval.
LEMMA PromiseRecord ==
  ASSUME TypeOK, reserved' = reserved, UNCHANGED <<so, item>>,
         NEW r \in Reqs, NEW m, req' = [req EXCEPT ![r] = m], m.stock = req[r].stock,
         m.status \in {"pricing", "pending_approval"}
           <=> req[r].status \in {"pricing", "pending_approval"}
  PROVE  Keeps
<1>1. req'[r] = m /\ \A x \in Reqs \ {r} : req'[x] = req[x]
  BY DEF TypeOK
<1>2. \A x \in Reqs : Drafted(x)' = Drafted(x)
  BY LinesKept
<1>3. \A x \in Reqs : Promise(x)' = Promise(x)
  BY <1>1, <1>2 DEF Promise, Waiting
<1> QED
  BY <1>3 DEF Keeps

\* The operations that are one step on a requisition.
LEMMA RequisitionPromises ==
  ASSUME TypeOK, TypeOK', Covering, reserved = Promised, NEW r \in Reqs, Requisition(r),
         unusual' \subseteq {"drained"}
  PROVE  Keeps \/ Raises(r) \/ Ends(r)
<1> DEFINE l == req[r]
<1>1. /\ l \in ReqType /\ l.stock \in Nat /\ req \in [Reqs -> ReqType] /\ reserved \in Nat
      /\ LineSound(l, r)
  BY DEF TypeOK, ReqType, Covering
<1>2. ASSUME NEW m, req' = [req EXCEPT ![r] = m], m.stock = l.stock,
             m.status \in {"pricing", "pending_approval"}
               <=> l.status \in {"pricing", "pending_approval"},
             reserved' = reserved, UNCHANGED <<so, item>>
      PROVE  Keeps
  BY <1>2, PromiseRecord
<1>3. CASE SubmitToInventoryCheck(r) \/ VerifyPrices(r) \/ RejectToMarketPricing(r)
  <2>1. PICK to \in {"inventory_check", "pricing", "pending_approval"} :
          /\ to \in {"pricing", "pending_approval"}
               <=> l.status \in {"pricing", "pending_approval"}
          /\ req' = [req EXCEPT ![r] = [l EXCEPT !.status = to]]
          /\ reserved' = reserved /\ UNCHANGED <<so, item>>
    BY <1>3 DEF SubmitToInventoryCheck, VerifyPrices, RejectToMarketPricing, stock
  <2>2. [l EXCEPT !.status = to].status = to /\ [l EXCEPT !.status = to].stock = l.stock
    BY <1>1 DEF ReqType
  <2> QED
    BY <1>2, <2>1, <2>2
<1>4. CASE \E q \in 0..MaxOnHand : ConfirmInventoryCheck(r, q)
  <2>1. PICK q \in 0..MaxOnHand : ConfirmInventoryCheck(r, q)
    BY <1>4
  <2> DEFINE m == [l EXCEPT !.stock = q,
                     !.status = IF q < l.ordered THEN "pricing" ELSE "pending_approval"]
  <2>2. /\ l.status = "inventory_check" /\ req' = [req EXCEPT ![r] = m]
        /\ reserved' = reserved + q /\ UNCHANGED <<so, item>>
    BY <2>1 DEF ConfirmInventoryCheck
  <2>3. m.status \in {"pricing", "pending_approval"} /\ m.stock = q
    BY <1>1 DEF ReqType
  <2> HIDE DEF m
  <2>4. req'[r] = m /\ \A x \in Reqs \ {r} : req'[x] = req[x]
    BY <1>1, <2>2
  <2>5. \A x \in Reqs : Drafted(x)' = Drafted(x)
    BY <2>2, LinesKept
  <2>6. Promise(r) = 0 /\ Promise(r)' = q
    BY <2>2, <2>3, <2>4, WhatRemains DEF Promise, Waiting
  <2>7. \A x \in Reqs \ {r} : Promise(x)' = Promise(x)
    BY <2>4, <2>5 DEF Promise, Waiting
  <2>8. q \in Nat /\ (q = 0 \/ q <= Available)
    BY <2>1, ConstantsAssumption DEF ConfirmInventoryCheck, ConstantsAssumption, TypeOK, Available
  <2> QED
    BY <2>2, <2>6, <2>7, <2>8 DEF Raises
<1>13. CASE ConfirmOmitting(r)
  <2> DEFINE m == [l EXCEPT !.status = IF l.stock < l.ordered THEN "pricing" ELSE "pending_approval"]
  <2>1. /\ l.status = "inventory_check" /\ req' = [req EXCEPT ![r] = m] /\ l.stock = 0
        /\ reserved' = reserved /\ UNCHANGED <<so, item>>
    BY <1>1, <1>13 DEF ConfirmOmitting, Note, stock
  <2>2. m.status \in {"pricing", "pending_approval"} /\ m.stock = 0
    BY <1>1, <2>1 DEF ReqType
  <2> HIDE DEF m
  <2>3. req'[r] = m /\ \A x \in Reqs \ {r} : req'[x] = req[x]
    BY <1>1, <2>1
  <2>4. \A x \in Reqs : Drafted(x)' = Drafted(x)
    BY <2>1, LinesKept
  <2>5. Promise(r) = 0 /\ Promise(r)' = 0
    BY <2>1, <2>2, <2>3, WhatRemains DEF Promise, Waiting
  <2>6. \A x \in Reqs \ {r} : Promise(x)' = Promise(x)
    BY <2>3, <2>4 DEF Promise, Waiting
  <2> QED
    BY <2>1, <2>5, <2>6 DEF Keeps
<1>5. CASE \E to \in {"draft", "inventory_check"} : Reject(r, to)
  <2>1. PICK to \in {"draft", "inventory_check"} :
          /\ l.status \in {"pricing", "pending_approval"}
          /\ req' = [req EXCEPT ![r] = [l EXCEPT !.status = to]]
          /\ reserved' = Less(Remaining(r)) /\ UNCHANGED <<so, item>>
    BY <1>5 DEF Reject
  <2>2. [l EXCEPT !.status = to].status = to
    BY <1>1 DEF ReqType
  <2>3. req'[r].status = to /\ \A x \in Reqs \ {r} : req'[x] = req[x]
    BY <1>1, <2>1, <2>2
  <2>4. \A x \in Reqs : Drafted(x)' = Drafted(x)
    BY <2>1, LinesKept
  <2>5. Drafted(r) = 0 /\ Remaining(r) = Promise(r)
    BY <2>1, WhatRemains DEF Promise, Waiting
  <2>6. Promise(r)' = 0
    BY <2>3, <2>4, <2>5 DEF Promise, Waiting
  <2>7. reserved' = reserved - Promise(r)
    BY <1>1, <2>1, <2>5, PromiseWithin, LessExact
  <2>8. \A x \in Reqs \ {r} : Promise(x)' = Promise(x)
    BY <2>3, <2>4 DEF Promise, Waiting
  <2> QED
    BY <2>6, <2>7, <2>8 DEF Ends
<1>6. CASE Approve(r)
  <2> DEFINE m == [l EXCEPT !.status = IF l.stock < l.ordered THEN "items_bought"
                                                             ELSE "sourcing"]
  <2>1. /\ l.status = "pending_approval" /\ Cover(r, l.stock) /\ req' = [req EXCEPT ![r] = m]
        /\ reserved' = reserved
    BY <1>6 DEF Approve, stock
  <2>2. m.status \in {"items_bought", "sourcing"}
    BY <1>1 DEF ReqType
  <2> HIDE DEF m
  <2>3. req'[r] = m /\ \A x \in Reqs \ {r} : req'[x] = req[x]
    BY <1>1, <2>1
  <2>4. Own(r) = {}
    BY <1>1, <2>1 DEF LineSound
  <2>5. Covered(r) = 0 /\ Qty(Own(r)) = 0 /\ Drafted(r) = 0
    BY <2>4, NothingOwned
  <2>6. Covered(r) = Qty(Own(r)) /\ Covered(r) <= l.stock
    BY <1>1, <2>5
  <2>7. /\ Drafted(r)' = Drafted(r) + l.stock - Covered(r)
        /\ \A x \in Reqs \ {r} : Drafted(x)' = Drafted(x)
    BY <1>1, <2>1, <2>6, Covers DEF Covering
  <2>8. Promise(r) = l.stock /\ Promise(r)' = l.stock
    BY <1>1, <2>1, <2>2, <2>3, <2>5, <2>7 DEF Promise, Waiting
  <2>9. \A x \in Reqs \ {r} : Promise(x)' = Promise(x)
    BY <2>3, <2>7 DEF Promise, Waiting
  <2>10. \A x \in Reqs : Promise(x)' = Promise(x)
    BY <2>8, <2>9
  <2> QED
    BY <2>1, <2>10 DEF Keeps
<1>7. CASE \E q \in Quantities : RejectPurchase(r, q)
  <2>1. PICK q \in Quantities : RejectPurchase(r, q)
    BY <1>7
  <2> DEFINE m == [l EXCEPT !.bought = @ - q]
  <2>2. req' = [req EXCEPT ![r] = m] /\ reserved' = reserved /\ UNCHANGED <<so, item>>
    BY <2>1 DEF RejectPurchase, stock
  <2>3. m.status = l.status /\ m.stock = l.stock
    BY <1>1 DEF ReqType
  <2> HIDE DEF m
  <2> QED
    BY <1>2, <2>2, <2>3
<1>8. CASE FinishBuying(r)
  <2> DEFINE moves == l.stock = 0 /\ ~l.short
             m == [l EXCEPT !.status = "sourcing",
                     !.po = IF l.bought > 0 THEN "bought" ELSE "none",
                     !.onPO = l.bought > 0 /\ moves,
                     !.ordered = IF l.bought > 0 /\ ~moves THEN @ - l.bought ELSE @]
  <2>1. /\ l.status = "items_bought" /\ req' = [req EXCEPT ![r] = m]
        /\ reserved' = reserved /\ UNCHANGED <<so, item>>
    BY <1>8 DEF FinishBuying, stock
  <2>2. m.status = "sourcing" /\ m.stock = l.stock
    BY <1>1 DEF ReqType
  <2> HIDE DEF m
  <2> QED
    BY <1>2, <2>1, <2>2
<1>9. ASSUME NEW m, NEW n, m \in ReqType, m.status = l.status, m.stock = l.stock,
             req' = [req EXCEPT ![r] = Evaluated(m, n)],
             reserved' = reserved, UNCHANGED <<so, item>>
      PROVE  Keeps
  <2>1. /\ Evaluated(m, n).stock = m.stock
        /\ \/ Evaluated(m, n).status = m.status
           \/ Evaluated(m, n).status = "completed" /\ m.status = "sourcing"
    BY <1>9 DEF Evaluated, ReqType
  <2> QED
    BY <1>2, <1>9, <2>1
<1>10. CASE ReceiveChild(r)
  <2> DEFINE m == [l EXCEPT !.po = "received"]
  <2>1. req' = [req EXCEPT ![r] = m] /\ reserved' = reserved /\ UNCHANGED <<so, item>>
    BY <1>10 DEF ReceiveChild, stock
  <2>2. m.status = l.status /\ m.stock = l.stock
    BY <1>1 DEF ReqType
  <2> HIDE DEF m
  <2> QED
    BY <1>2, <2>1, <2>2
<1>11. CASE CompleteChild(r) \/ CancelChild(r)
  <2>1. PICK po \in {"closed", "cancelled"} :
          /\ req' = [req EXCEPT ![r] = Evaluated([l EXCEPT !.po = po], Issued(r))]
          /\ reserved' = reserved /\ UNCHANGED <<so, item>>
    BY <1>11 DEF CompleteChild, CancelChild, stock
  <2> DEFINE m == [l EXCEPT !.po = po]
  <2>2. m \in ReqType /\ m.status = l.status /\ m.stock = l.stock
    BY <1>1 DEF ReqType
  <2>3. req' = [req EXCEPT ![r] = Evaluated(m, Issued(r))]
    BY <2>1
  <2> HIDE DEF m
  <2> QED
    BY <1>9, <2>1, <2>2, <2>3
<1>12. CASE \E part \in {"own", "bought"} : CloseLine(r, part)
  <2>1. PICK part \in {"own", "bought"} : CloseLine(r, part)
    BY <1>12
  <2> DEFINE m == [l EXCEPT !.closed = l.closed \cup {part}]
  <2>2. /\ req' = [req EXCEPT ![r] = Evaluated(m, Issued(r))]
        /\ reserved' = reserved /\ UNCHANGED <<so, item>>
    BY <2>1 DEF CloseLine, stock
  <2>3. m \in ReqType /\ m.status = l.status /\ m.stock = l.stock
    BY <1>1 DEF ReqType
  <2> HIDE DEF m
  <2> QED
    BY <1>9, <2>2, <2>3
<1> QED
  BY <1>3, <1>4, <1>5, <1>6, <1>7, <1>8, <1>10, <1>11, <1>12, <1>13 DEF Requisition

\* Purchases promise nothing.
LEMMA BuyPromises ==
  ASSUME TypeOK, NEW u \in Users, (\E q \in Quantities : Buy(u, q)) \/ MarkShort(u)
  PROVE  Keeps
<1> SUFFICES ASSUME NEW r, r = session[u].id PROVE Keeps
  OBVIOUS
<1>1. PICK m : /\ req' = [req EXCEPT ![r] = m]
               /\ m.status = req[r].status /\ m.stock = req[r].stock
  BY BuyRecord
<1>2. r \in Reqs /\ UNCHANGED <<reserved, so, item>>
  BY BuyRecord
<1> QED
  BY <1>1, <1>2, PromiseRecord

\* A later coverage reserves what it drafts.
LEMMA ResolvePromises ==
  ASSUME TypeOK, TypeOK', Covering, reserved = Promised, NEW u \in Users, Resolve(u),
         "late" \notin unusual', "redrafted" \notin unusual'
  PROVE  Raises(session[u].id)
<1> SUFFICES ASSUME NEW r, r = session[u].id, NEW q, q = session[u].qty
             PROVE  Raises(r)
  OBVIOUS
<1>1. /\ r \in Reqs /\ q \in Nat
      /\ req[r].status = "items_bought" /\ req'[r].status = "items_bought"
      /\ Drafted(r) \in Nat /\ Drafted(r)' = Drafted(r) + q
      /\ \A x \in Reqs \ {r} : req'[x] = req[x] /\ Drafted(x)' = Drafted(x)
  BY ResolveCovering
<1>2. reserved' = reserved + q /\ q <= Available
  BY <1>1 DEF Resolve, TypeOK, Available
<1>3. Promise(r) = Drafted(r) /\ Promise(r)' = Drafted(r)'
  BY <1>1 DEF Promise, Waiting
<1>4. \A x \in Reqs \ {r} : Promise(x)' = Promise(x)
  BY <1>1 DEF Promise, Waiting
<1> QED
  BY <1>1, <1>2, <1>3, <1>4 DEF Raises

\* Cancelling a requisition releases what it was promised.
LEMMA CancelPromises ==
  ASSUME TypeOK, TypeOK', Covering, Cancelling, reserved = Promised, NEW u \in Users,
         Cancel(u), "rereleased" \notin unusual'
  PROVE  Ends(session[u].id)
<1> SUFFICES ASSUME NEW r, r = session[u].id PROVE Ends(r)
  OBVIOUS
<1>1. Doing(u, "cancel")
  BY DEF Cancel
<1>2. r \in Reqs
  BY <1>1, DoneType, AskKinds
<1>3. /\ item' = item /\ reserved' = Less(Remaining(r)) /\ reserved \in Nat
      /\ so' = [i \in Outs |-> IF so[i].req = r /\ so[i].status = "draft"
                               THEN [so[i] EXCEPT !.status = "cancelled"] ELSE so[i]]
      /\ req' = [req EXCEPT ![r].status = "cancelled",
                            ![r].po = IF @ = "bought" THEN "cancelled" ELSE @]
  BY DEF Cancel, TypeOK
<1>4. req'[r].status = "cancelled" /\ \A x \in Reqs \ {r} : req'[x] = req[x]
  BY <1>2, <1>3, CancelRecord
<1>5. Amounts' = Amounts /\ Total(Amounts', {}) = 0
  BY <1>3, OwnKept, TotalOfNone
<1>6. \A x \in Reqs : LineIn(x, {"draft"})' = IF x = r THEN {} ELSE LineIn(x, {"draft"})
  BY <1>2, <1>3, CancelDrafts
<1>7. Drafted(r)' = 0 /\ \A x \in Reqs \ {r} : Drafted(x)' = Drafted(x)
  BY <1>2, <1>5, <1>6 DEF Drafted, Qty
<1>8. Remaining(r) = Promise(r)
  <2>1. req[r].status \in Statuses \ {"completed", "cancelled"} /\ req[r].stock \in Nat
    <3>1. req[r].status = session[u].status /\ session[u].op = "cancel"
      BY <1>1 DEF Cancel, Doing
    <3>2. req[r].status \in Statuses /\ req[r].stock \in Nat
      BY <1>2 DEF TypeOK, ReqType
    <3> QED
      BY <3>1, <3>2 DEF Cancelling
  <2>2. CASE req[r].status \in {"draft", "inventory_check"}
    <3>1. ~(Remaining(r) > 0)
      BY <2>2 DEF Cancel, Note
    <3>2. Drafted(r) = 0 /\ Remaining(r) = req[r].stock
      BY <1>2, <2>2, WhatRemains
    <3>3. Promise(r) = Drafted(r)
      BY <2>2 DEF Promise, Waiting
    <3> QED
      BY <2>1, <3>1, <3>2, <3>3
  <2>3. CASE req[r].status \in {"pricing", "pending_approval"}
    BY <1>2, <2>3, WhatRemains DEF Promise, Waiting
  <2>4. CASE req[r].status \in {"items_bought", "sourcing"}
    BY <1>2, <2>4, WhatRemains
  <2> QED
    BY <2>1, <2>2, <2>3, <2>4 DEF Statuses
<1>9. Promise(r) \in Nat /\ reserved' = reserved - Promise(r)
  BY <1>2, <1>3, <1>8, PromiseWithin, LessExact
<1>10. Promise(r)' = 0 /\ \A x \in Reqs \ {r} : Promise(x)' = Promise(x)
  BY <1>4, <1>7 DEF Promise, Waiting
<1> QED
  BY <1>9, <1>10 DEF Ends

\* The draft Store Out of a requisition holds what the requisition is promised.
LEMMA DraftPromise ==
  ASSUME TypeOK, Covering, NEW i \in Outs, so[i].status = "draft",
         NEW r \in Reqs, r = so[i].req
  PROVE  /\ req[r].status \in {"items_bought", "sourcing", "completed"}
         /\ Promise(r) = Qty(Linked(i)) /\ Held(i) = Promise(r)
<1>1. PICK k \in Own(r) : item[k].out = i
  BY DEF Covering, OneDraft
<1>2. Linked(i) = LineIn(r, {"draft"}) /\ k \in Linked(i)
  <2>1. k \in LineIn(r, {"draft"})
    BY <1>1 DEF Own, LineIn
  <2> QED
    BY <2>1, DraftOf
<1>3. req[r].status \in {"items_bought", "sourcing", "completed"}
  <2>1. LineSound(req[r], r) /\ req[r].status \in Statuses
    BY DEF Covering, TypeOK, ReqType
  <2>2. Own(r) # {} /\ LineIn(r, {"draft"}) # {}
    BY <1>1, <1>2
  <2> QED
    BY <2>1, <2>2 DEF LineSound, Statuses
<1>4. Promise(r) = Drafted(r) /\ Remaining(r) = Drafted(r) /\ Promise(r) \in Nat
  BY <1>3, WhatRemains, PromiseIsNatural
<1>5. Promise(r) = Qty(Linked(i))
  BY <1>2, <1>4 DEF Drafted
<1>6. {item[q].line : q \in Linked(i)} = {r}
  BY <1>2 DEF LineIn
<1>7. AtLeast0(Remaining(r)) = Promise(r)
  BY <1>4 DEF AtLeast0
<1> DEFINE f == [x \in Reqs |-> AtLeast0(Remaining(x))]
<1>8. f[r] = Promise(r) /\ f[r] \in Nat
  BY <1>4, <1>7
<1> HIDE DEF f
<1>9. Total(f, {r}) = Promise(r)
  BY <1>8, TotalOfOne
<1> QED
  BY <1>3, <1>5, <1>6, <1>9 DEF Held, f

\* A Store Out of no requisition holds nothing of any.
LEMMA NoPromise ==
  ASSUME TypeOK, Covering, NEW i \in Outs, so[i].req \notin Reqs
  PROVE  Qty(Linked(i)) = 0 /\ Held(i) = 0
<1>1. Linked(i) = {}
  BY DraftOf
<1>2. {item[k].line : k \in Linked(i)} = {}
  BY <1>1
<1> QED
  BY <1>1, <1>2, QtyOfNone, TotalOfNone DEF Held

\* A draft Store Out takes its requisition's promise along, issued or cancelled.
LEMMA DraftPromises ==
  ASSUME TypeOK, TypeOK', Covering, reserved = Promised, NEW i \in Outs,
         so[i].status = "draft", item' = item,
         NEW status \in {"issued", "cancelled"}, so' = [so EXCEPT ![i].status = status],
         \A x \in Reqs : /\ req'[x].stock = req[x].stock
                         /\ \/ req'[x].status = req[x].status
                            \/ req[x].status = "sourcing" /\ req'[x].status = "completed",
         reserved' = reserved - Qty(Linked(i))
  PROVE  IF so[i].req \in Reqs THEN Ends(so[i].req) ELSE Keeps /\ Qty(Linked(i)) = 0
<1>1. \A x \in Reqs : Drafted(x)' = IF x = so[i].req THEN 0 ELSE Drafted(x)
  BY DraftGone
<1>2. \A x \in Reqs : x # so[i].req => Promise(x)' = Promise(x)
  BY <1>1 DEF Promise, Waiting
<1>3. CASE so[i].req \in Reqs
  <2> SUFFICES ASSUME NEW r \in Reqs, r = so[i].req PROVE Ends(r)
    BY <1>3
  <2>1. /\ req[r].status \in {"items_bought", "sourcing", "completed"}
        /\ Promise(r) = Qty(Linked(i))
    BY DraftPromise
  <2>2. Promise(r)' = 0
    BY <1>1, <2>1 DEF Promise, Waiting
  <2> QED
    BY <1>2, <2>1, <2>2 DEF Ends
<1>4. CASE so[i].req \notin Reqs
  <2>1. Qty(Linked(i)) = 0
    BY <1>4, NoPromise
  <2>2. reserved' = reserved
    BY <2>1 DEF TypeOK
  <2> QED
    BY <1>2, <1>4, <2>1, <2>2 DEF Keeps
<1> QED
  BY <1>3, <1>4

\* Issuing takes out what the draft Store Out was promised.
LEMMA IssuePromises ==
  ASSUME TypeOK, TypeOK', Covering, reserved = Promised, NEW u \in Users, Issue(u),
         "late" \notin unusual'
  PROVE  \E i \in Outs :
           /\ i = session[u].id
           /\ IF so[i].req \in Reqs THEN Ends(so[i].req) ELSE Keeps /\ Qty(Linked(i)) = 0
<1> SUFFICES ASSUME NEW i, i = session[u].id
             PROVE  /\ i \in Outs
                    /\ IF so[i].req \in Reqs THEN Ends(so[i].req)
                                            ELSE Keeps /\ Qty(Linked(i)) = 0
  OBVIOUS
<1>1. i \in Outs
  BY DoneType, AskKinds DEF Issue
<1>2. /\ so[i].status = "draft" /\ item' = item /\ so' = [so EXCEPT ![i].status = "issued"]
      /\ reserved' = reserved - Qty(Linked(i))
  BY DEF Issue, Note
<1>3. ASSUME NEW x \in Reqs
      PROVE  /\ req'[x].stock = req[x].stock
             /\ \/ req'[x].status = req[x].status
                \/ req[x].status = "sourcing" /\ req'[x].status = "completed"
  <2>1. req'[x] = req[x] \/ req'[x] = Evaluated(req[x], IssuedWith(x, i))
    BY DEF Issue
  <2>2. req[x] \in ReqType
    BY DEF TypeOK
  <2> QED
    BY <2>1, <2>2 DEF Evaluated, ReqType
<1> QED
  BY <1>1, <1>2, <1>3, DraftPromises

\* Cancelling a draft Store Out releases what it was promised, cancelling an
\* issued one releases nothing.
LEMMA CancelOutPromises ==
  ASSUME TypeOK, TypeOK', Covering, reserved = Promised, NEW u \in Users,
         CancelStoreOut(u), "late" \notin unusual'
  PROVE  Keeps \/ \E r \in Reqs : Ends(r)
<1> SUFFICES ASSUME NEW i, i = session[u].id PROVE Keeps \/ \E r \in Reqs : Ends(r)
  OBVIOUS
<1>1. i \in Outs /\ session[u].status \in {"draft", "issued"}
  <2>1. session[u] \in AskType /\ session[u].op = "cancelOut"
    BY DoneType DEF CancelStoreOut
  <2> QED
    BY <2>1 DEF AskType, NoAsk
<1>2. /\ so[i].status = session[u].status /\ UNCHANGED <<req, item>>
      /\ so' = [so EXCEPT ![i].status = "cancelled"]
      /\ reserved' = IF session[u].status = "draft" THEN Less(Held(i)) ELSE reserved
  BY DEF CancelStoreOut, Note
<1>3. CASE so[i].status = "draft"
  <2>1. /\ Held(i) = Qty(Linked(i)) /\ Held(i) \in Nat /\ Held(i) <= reserved
    <3>1. CASE so[i].req \in Reqs
      <4>1. Promise(so[i].req) = Qty(Linked(i)) /\ Held(i) = Promise(so[i].req)
        BY <1>1, <1>3, <3>1, DraftPromise
      <4>2. Promise(so[i].req) \in Nat /\ Promise(so[i].req) <= reserved
        BY <3>1, PromiseWithin
      <4> QED
        BY <4>1, <4>2
    <3>2. CASE so[i].req \notin Reqs
      BY <1>1, <3>2, NoPromise DEF TypeOK
    <3> QED
      BY <3>1, <3>2
  <2>2. reserved' = reserved - Qty(Linked(i))
    BY <1>2, <1>3, <2>1, LessExact DEF TypeOK
  <2> QED
    BY <1>1, <1>2, <1>3, <2>2, DraftPromises
<1>4. CASE so[i].status = "issued"
  <2>1. /\ so'[i].status = "cancelled" /\ \A j \in Outs \ {i} : so'[j] = so[j]
    BY <1>1, <1>2 DEF TypeOK
  <2>2. \A x \in Reqs : LineIn(x, {"draft"})' = LineIn(x, {"draft"})
    <3>1. \A k \in Items : item[k] # NoItem => item[k].out \in Outs
      BY DEF Covering, Placed
    <3> QED
      BY <1>2, <1>4, <2>1, <3>1 DEF LineIn
  <2>3. Amounts' = Amounts
    BY <1>2, OwnKept
  <2>4. \A x \in Reqs : Drafted(x)' = Drafted(x)
    BY <2>2, <2>3 DEF Drafted, Qty
  <2>5. \A x \in Reqs : Promise(x)' = Promise(x)
    BY <1>2, <2>4 DEF Promise, Waiting
  <2> QED
    BY <1>2, <1>4, <2>5 DEF Keeps
<1> QED
  BY <1>1, <1>2, <1>3, <1>4

\* The sum of nothing but zeros.
LEMMA TotalOfZeros ==
  ASSUME NEW S, NEW f, \A x \in S : f[x] = 0
  PROVE  Total(f, S) = 0
<1>1. Units(f, S) = {}
  BY DEF Units
<1> QED
  BY <1>1, FS_EmptySet DEF Total

\* In the beginning nothing is promised, ...
LEMMA NoPromiseAtFirst == ASSUME Init, NEW r \in Reqs PROVE Promise(r) = 0
<1>1. TypeOK /\ Covering
  BY CoverInit DEF CoverInv, Init
<1>2. req[r].status = "draft"
  BY DEF Init
<1> QED
  BY <1>1, <1>2, WhatRemains DEF Promise, Waiting

\* ... and nothing is reserved.
LEMMA PromiseInit == Init => PromiseInv
<1> SUFFICES ASSUME Init PROVE PromiseInv
  OBVIOUS
<1>1. Promised = 0
  BY NoPromiseAtFirst, TotalOfZeros DEF Promised
<1> QED
  BY <1>1, CoverInit DEF Init, PromiseInv, PromisesKept

\* Every step does one of the three.
LEMMA PromiseMoves ==
  ASSUME TypeOK, TypeOK', Cancelling, Covering, reserved = Promised, [Next]_vars,
         unusual' \subseteq {"drained"}
  PROVE  Keeps \/ \E r \in Reqs : Raises(r) \/ Ends(r)
<1>1. ASSUME UNCHANGED <<reserved, req, so, item>> PROVE Keeps
  <2>1. \A x \in Reqs : Drafted(x)' = Drafted(x)
    BY <1>1, LinesKept
  <2> QED
    BY <1>1, <2>1 DEF Promise, Waiting, Keeps
<1>2. ASSUME NEW r \in Reqs, Requisition(r) PROVE Keeps \/ Raises(r) \/ Ends(r)
  BY <1>2, RequisitionPromises
<1>3. ASSUME NEW u \in Users, AskAny(u) PROVE Keeps
  BY <1>1, <1>3, AskKeeps DEF stock
<1>4. ASSUME NEW u \in Users, DoAny(u) PROVE Keeps \/ \E r \in Reqs : Raises(r) \/ Ends(r)
  <2>1. CASE GiveUp(u)
    BY <1>1, <2>1 DEF GiveUp, stock
  <2>2. CASE (\E q \in Quantities : Buy(u, q)) \/ MarkShort(u)
    BY <2>2, BuyPromises
  <2>3. CASE Resolve(u)
    <3>1. session[u].id \in Reqs
      BY <2>3, DoneType, AskKinds DEF Resolve
    <3> QED
      BY <2>3, <3>1, ResolvePromises
  <2>4. CASE Cancel(u)
    <3>1. session[u].id \in Reqs
      BY <2>4, DoneType, AskKinds DEF Cancel
    <3> QED
      BY <2>4, <3>1, CancelPromises
  <2>5. CASE (\E l \in Lines, q \in Quantities : AddLine(u, l, q)) \/ DeleteLine(u)
    <3>1. /\ reserved' = reserved
          /\ \A r \in Reqs : req'[r] = req[r] /\ Drafted(r)' = Drafted(r)
      BY <2>5, ManualCovering
    <3> QED
      BY <3>1 DEF Promise, Waiting, Keeps
  <2>6. CASE Issue(u)
    BY <2>6, IssuePromises
  <2>7. CASE CancelStoreOut(u)
    BY <2>7, CancelOutPromises
  <2> QED
    BY <1>4, <2>1, <2>2, <2>3, <2>4, <2>5, <2>6, <2>7 DEF DoAny
<1>5. CASE CreateStoreOut
  <2>1. reserved' = reserved /\ \A r \in Reqs : req'[r] = req[r] /\ Drafted(r)' = Drafted(r)
    BY <1>5, CreateCovering DEF CreateStoreOut, stock
  <2> QED
    BY <2>1 DEF Promise, Waiting, Keeps
<1>6. ASSUME NEW n \in 0..MaxOnHand, Adjust(n) PROVE Keeps
  BY <1>1, <1>6 DEF Adjust
<1>7. CASE UNCHANGED vars
  BY <1>1, <1>7 DEF vars, stock
<1> QED
  BY <1>2, <1>3, <1>4, <1>5, <1>6, <1>7 DEF Next

\* Every step moves the reservation and one promise together.
LEMMA PromiseStep ==
  ASSUME TypeOK, TypeOK', Cancelling, Covering, reserved = Promised, [Next]_vars,
         unusual' \subseteq {"drained"}
  PROVE  (reserved = Promised)'
<1>1. CASE Keeps
  BY <1>1, PromiseSame
<1>2. ASSUME NEW r \in Reqs, Raises(r) \/ Ends(r) PROVE (reserved = Promised)'
  <2>1. \A x \in Reqs \ {r} : Promise(x)' = Promise(x)
    BY <1>2 DEF Raises, Ends
  <2>2. reserved' = reserved - Promise(r) + Promise(r)'
    BY <1>2, PromiseIsNatural DEF Raises, Ends, TypeOK
  <2> QED
    BY <2>1, <2>2, PromiseFrame
<1> QED
  BY <1>1, <1>2, PromiseMoves

\* PromiseInv is inductive.
LEMMA PromiseNext == PromiseInv /\ [Next]_vars => PromiseInv'
<1> SUFFICES ASSUME PromiseInv, [Next]_vars PROVE PromiseInv'
  OBVIOUS
<1>1. CoverInv /\ CoverInv' /\ unusual \subseteq unusual'
  BY CoverNext, UnusualGrows DEF PromiseInv
<1>2. ASSUME unusual' \subseteq {"drained"} PROVE (reserved = Promised)'
  <2>1. reserved = Promised /\ Covering
    BY <1>1, <1>2 DEF PromiseInv, PromisesKept, CoverInv, Harmless
  <2> QED
    BY <1>1, <1>2, <2>1, PromiseStep DEF CoverInv
<1> QED
  BY <1>1, <1>2 DEF PromiseInv, PromisesKept

\* Every reserved unit is promised to a requisition on its way to approval or
\* to a draft Store Out, and every promise is reserved: checks, releases,
\* approvals, coverages, issues and cancellations, in every order, leave none
\* stranded and promise none twice, save by the kinds of event listed.
THEOREM PromisesKeptAlways == Spec => []PromisesKept
<1>1. PromiseInv => PromisesKept
  BY DEF PromiseInv
<1> QED
  BY <1>1, PromiseInit, PromiseNext, PTL DEF Spec

-----------------------------------------------------------------------------
(* The documents are a store. *)

\* Only an adjustment and a Store Out change what is on hand.
LEMMA OnHandKept ==
  ASSUME [Next]_vars
  PROVE  \/ onHand' = onHand
         \/ \E n \in 0..MaxOnHand : Adjust(n)
         \/ \E u \in Users : Issue(u)
<1>1. ASSUME NEW r \in Reqs, Requisition(r) PROVE onHand' = onHand
  BY <1>1 DEF Requisition, SubmitToInventoryCheck, VerifyPrices, RejectToMarketPricing,
     ConfirmInventoryCheck, ConfirmOmitting, Reject, Approve, FinishBuying, RejectPurchase, ReceiveChild,
     CompleteChild, CancelChild, CloseLine, stock
<1>2. ASSUME NEW u \in Users, AskAny(u) PROVE onHand' = onHand
  BY <1>2, AskKeeps DEF stock
<1>3. ASSUME NEW u \in Users, DoAny(u), ~Issue(u) PROVE onHand' = onHand
  BY <1>3 DEF DoAny, Buy, AddLine, MarkShort, Resolve, Cancel, DeleteLine, CancelStoreOut,
     GiveUp, stock
<1>4. CreateStoreOut \/ UNCHANGED vars => onHand' = onHand
  BY DEF CreateStoreOut, vars, stock
<1> QED
  BY <1>1, <1>2, <1>3, <1>4 DEF Next

\* A step that does nothing to promises and to what is on hand, is none of the
\* store's; one that only counts is Count.
LEMMA CountsStock ==
  ASSUME TypeOK, TypeOK', Keeps, unusual' = unusual, Available' \in Nat
  PROVE  Store!Count
<1>1. onHand \in Int /\ onHand' \in Int /\ reserved \in Nat /\ reserved' = reserved
  BY ConstantsAssumption DEF ConstantsAssumption, TypeOK, Keeps
<1>2. \A r \in Reqs : Promise(r)' = Promise(r)
  BY DEF Keeps
<1>3. Available' + onHand = Available + onHand'
  BY <1>1 DEF Available
<1> QED
  BY <1>2, <1>3 DEF Store!Count

\* Raising a promise is reserving free units.
LEMMA RaisesStock ==
  ASSUME TypeOK, TypeOK', ReservedWithinOnHand, unusual = {}, unusual' = {},
         NEW r \in Reqs, Raises(r), onHand' = onHand
  PROVE  \E n \in 0..Available : Store!Reserve(r, n)
<1>1. onHand \in Int /\ reserved \in Nat /\ reserved <= onHand
  BY ConstantsAssumption DEF ConstantsAssumption, TypeOK, ReservedWithinOnHand
<1>2. PICK n \in Nat : /\ n = 0 \/ n <= Available
                       /\ Promise(r)' = Promise(r) + n /\ reserved' = reserved + n
  BY DEF Raises
<1>3. n \in 0..Available /\ Available' = Available - n
  BY <1>1, <1>2 DEF Available
<1>4. \A x \in Reqs \ {r} : Promise(x)' = Promise(x)
  BY DEF Raises
<1>5. Store!Reserve(r, n)
  BY <1>2, <1>3, <1>4 DEF Store!Reserve
<1> QED
  BY <1>3, <1>5

\* Ending a promise is releasing it, or handing it out with the free units of
\* a Store Out.
LEMMA EndsStock ==
  ASSUME TypeOK, NEW r \in Reqs, Ends(r), unusual' = unusual, NEW n \in Nat
  PROVE  /\ onHand' = onHand => Store!Release(r)
         /\ onHand' = onHand - Promise(r) - n => Store!Deliver(r, n)
<1>1. onHand \in Int /\ reserved \in Nat /\ Promise(r) \in Nat
  BY ConstantsAssumption, PromiseIsNatural DEF ConstantsAssumption, TypeOK
<1>2. /\ \A x \in Reqs \ {r} : Promise(x)' = Promise(x)
      /\ Promise(r)' = 0 /\ reserved' = reserved - Promise(r)
  BY DEF Ends
<1>3. /\ onHand' = onHand => Available' = Available + Promise(r)
      /\ onHand' = onHand - Promise(r) - n => Available' = Available - n
  BY <1>1, <1>2 DEF Available
<1> QED
  BY <1>2, <1>3 DEF Store!Release, Store!Deliver

\* Confirming a Store Out hands out a promise, or free units only.
LEMMA IssueStock ==
  ASSUME TypeOK, TypeOK', Covering, ReservedWithinOnHand, reserved = Promised,
         unusual = {}, unusual' = {}, NEW u \in Users, Issue(u)
  PROVE  Store!Next
<1>1. PICK i \in Outs :
        /\ i = session[u].id
        /\ IF so[i].req \in Reqs THEN Ends(so[i].req) ELSE Keeps /\ Qty(Linked(i)) = 0
  BY IssuePromises
<1>2. /\ Qty(Manual(i)) \in Nat /\ Qty(Linked(i)) \in Nat
      /\ onHand \in Int /\ reserved \in Nat /\ reserved <= onHand
  BY ConstantsAssumption, QtyIsNatural
     DEF ConstantsAssumption, TypeOK, ReservedWithinOnHand, Manual, Linked, ItemsIn
<1>3. /\ so[i].status = "draft" /\ onHand' = onHand - Qty(Linked(i)) - Qty(Manual(i))
      /\ Qty(Manual(i)) = 0 \/ Qty(Manual(i)) <= Available
  BY <1>1 DEF Issue, Enough, Note
<1>4. Qty(Manual(i)) \in 0..Available
  BY <1>2, <1>3 DEF Available
<1>5. CASE so[i].req \in Reqs
  <2> SUFFICES ASSUME NEW r \in Reqs, r = so[i].req PROVE Store!Next
    BY <1>5
  <2>1. Promise(r) = Qty(Linked(i))
    BY <1>3, DraftPromise
  <2>2. Store!Deliver(r, Qty(Manual(i)))
    BY <1>1, <1>2, <1>3, <2>1, EndsStock
  <2> QED
    BY <1>4, <2>2 DEF Store!Next
<1>6. CASE so[i].req \notin Reqs
  <2>1. Keeps /\ Qty(Linked(i)) = 0
    BY <1>1, <1>6
  <2>2. Available' \in Nat
    BY <1>2, <1>3, <1>4, <2>1 DEF Available, Keeps
  <2> QED
    BY <2>1, <2>2, CountsStock DEF Store!Next
<1> QED
  BY <1>5, <1>6

\* Every step is a step of the store.
LEMMA StepStock ==
  ASSUME PromiseInv, PromiseInv', ReservedWithinOnHand, ReservedWithinOnHand', [Next]_vars
  PROVE  Store!Next
<1>1. unusual \subseteq unusual'
  BY UnusualGrows
<1>2. CASE unusual' # {}
  BY <1>2 DEF Store!Next, Store!Disturb
<1>3. CASE unusual' = {}
  <2>1. /\ unusual = {} /\ TypeOK /\ TypeOK' /\ Cancelling /\ Covering /\ reserved = Promised
    BY <1>1, <1>3 DEF PromiseInv, CoverInv, PromisesKept
  <2>2. Available' \in Nat
    <3>1. onHand' \in Int /\ reserved' \in Nat /\ reserved' <= onHand'
      BY <1>3, <2>1, ConstantsAssumption DEF ConstantsAssumption, TypeOK, ReservedWithinOnHand
    <3>2. onHand' - reserved' \in Nat
      <4> DEFINE h == onHand'
                 v == reserved'
      <4>1. h \in Int /\ v \in Nat /\ v <= h
        BY <3>1
      <4> HIDE DEF h, v
      <4>2. h - v \in Nat
        BY <4>1
      <4> QED
        BY <4>2 DEF h, v
    <3>3. Available' = onHand' - reserved'
      BY DEF Available
    <3> QED
      BY <3>2, <3>3
  <2>3. CASE \E n \in 0..MaxOnHand : Adjust(n)
    <3>1. UNCHANGED <<reserved, req, so, item>>
      BY <2>3 DEF Adjust
    <3>2. \A x \in Reqs : Drafted(x)' = Drafted(x)
      BY <3>1, LinesKept
    <3>3. Keeps
      BY <3>1, <3>2 DEF Keeps, Promise, Waiting
    <3> QED
      BY <1>3, <2>1, <2>2, <3>3, CountsStock DEF Store!Next
  <2>4. CASE \E u \in Users : Issue(u)
    BY <1>3, <2>1, <2>4, IssueStock
  <2>5. CASE onHand' = onHand
    <3>1. Keeps \/ \E r \in Reqs : Raises(r) \/ Ends(r)
      BY <1>3, <2>1, PromiseMoves
    <3>2. CASE Keeps
      BY <1>3, <2>1, <2>2, <3>2, CountsStock DEF Store!Next
    <3>3. ASSUME NEW r \in Reqs, Raises(r) PROVE Store!Next
      BY <1>3, <2>1, <2>5, <3>3, RaisesStock DEF Store!Next
    <3>4. ASSUME NEW r \in Reqs, Ends(r) PROVE Store!Next
      BY <1>3, <2>1, <2>5, <3>4, EndsStock DEF Store!Next
    <3> QED
      BY <3>1, <3>2, <3>3, <3>4
  <2> QED
    BY <2>3, <2>4, <2>5, OnHandKept
<1> QED
  BY <1>2, <1>3

\* Whatever the order of requests, the reservation is a store: each unit is
\* free or promised to one requisition, which alone gets it or gives it back.
THEOREM ReservationIsAStore == Spec => ImplementsStock
<1>1. Init => Store!Init
  <2> SUFFICES ASSUME Init PROVE Store!Init
    OBVIOUS
  <2>1. onHand \in Nat /\ Available = onHand /\ unusual = {}
    BY ConstantsAssumption DEF Init, Available, ConstantsAssumption
  <2>2. \A r \in Reqs : Promise(r) = 0
    BY NoPromiseAtFirst
  <2> QED
    BY <2>1, <2>2 DEF Store!Init
<1>2. PromiseInv /\ PromiseInv' /\ ReservedWithinOnHand /\ ReservedWithinOnHand' /\ [Next]_vars
        => [Store!Next]_(Store!vars)
  BY StepStock
<1> QED
  BY <1>1, <1>2, PromiseInit, PromiseNext, ReservedWithinOnHandAlways, PTL
     DEF Spec, ImplementsStock, Store!Spec
=============================================================================
