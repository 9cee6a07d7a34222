---------------------------- MODULE AdvancesProofs ----------------------------
(***************************************************************************)
(* Theorems about Advances for every number of documents, purchase order   *)
(* lines and users, and every bound on the amounts.                        *)
(***************************************************************************)
EXTENDS Advances, FiniteSetTheorems, TLAPS

\* The advance has an amount, nothing is cleared before it is handed out, and
\* never more than the amount.
AdvanceSound ==
  /\ adv.amount <= MaxAmount
  /\ adv.status # "absent" => 1 <= adv.amount
  /\ adv.settled + adv.returned <= adv.amount
  /\ ~HandedOut => adv.settled = 0 /\ adv.returned = 0

DocsSound ==
  \A d \in Docs : doc[d].status # "absent" => doc[d].kind \in Kinds /\ doc[d].total \in Amounts

\* A request that holds a document's total read it from a document there is.
WorkSound ==
  \A u \in Users :
    /\ work[u].on \in Docs => work[u].total \in Amounts /\ doc[work[u].on].status # "absent"
    /\ work[u].op \in {"read", "locked"} => work[u].on \in Docs
    /\ work[u].op = "locked" => lock = u

\* Who holds the advance's row has compared its balance with what he writes,
\* and nobody changes the one or the other before he does.
LockSound ==
  \A u \in Users : lock = u =>
    work[u].op = "locked" /\ OpenToClear /\ work[u].total <= Outstanding

Sound == TypeOK /\ AdvanceSound /\ DocsSound /\ WorkSound /\ LockSound /\ LedgerAgrees

-----------------------------------------------------------------------------
\* The initial state is sound.
LEMMA InitSound == Init => Sound
<1> SUFFICES ASSUME Init PROVE Sound
  OBVIOUS
<1> USE ConstantsAssumption DEF ConstantsAssumption
<1>1. TypeOK
  BY DEF Init, TypeOK, AdvanceType, DocType, Kinds, NoWork
<1>2. AdvanceSound /\ DocsSound /\ LockSound /\ LedgerAgrees
  BY DEF Init, AdvanceSound, DocsSound, LockSound, LedgerAgrees, HandedOut
<1>3. WorkSound
  BY DEF Init, WorkSound, NoWork
<1> QED
  BY <1>1, <1>2, <1>3 DEF Sound

\* What the lines of a purchase order settlement come to.
LEMMA LineCount ==
  ASSUME NEW ls \in SUBSET PoLines, ls # {}
  PROVE  Cardinality(ls) \in Nat \ {0}
<1>1. IsFiniteSet(ls)
  BY FS_Subset, ConstantsAssumption DEF ConstantsAssumption
<1> QED
  BY <1>1, FS_EmptySet, FS_CardinalityType

\* What an entry of the advance makes of its row.
LEMMA AmountSet ==
  ASSUME NEW a \in AdvanceType, NEW n \in Nat, NEW s \in {"draft", "pending_approval"}
  PROVE  [a EXCEPT !.status = s, !.amount = n] \in AdvanceType
  BY DEF AdvanceType

\* The steps of the advance itself keep every variable of its type.
LEMMA AdvanceStepType ==
  ASSUME TypeOK, AdvanceStep PROVE TypeOK'
<1> USE ConstantsAssumption DEF ConstantsAssumption, TypeOK, money, history, Amounts
<1>1. ASSUME NEW n \in Amounts, CreateAdvance(n) PROVE TypeOK'
  <2>1. adv' = [adv EXCEPT !.status = "draft", !.amount = n] /\ n \in Nat /\ adv \in AdvanceType
    BY <1>1 DEF CreateAdvance
  <2>2. adv' \in AdvanceType
    BY <2>1, AmountSet
  <2> QED
    BY <1>1, <2>2 DEF CreateAdvance
<1>2. ASSUME NEW n \in Amounts, RequestSelfAdvance(n) PROVE TypeOK'
  <2>1. adv' = [adv EXCEPT !.status = "pending_approval", !.amount = n] /\ n \in Nat /\ adv \in AdvanceType
    BY <1>2 DEF RequestSelfAdvance
  <2>2. adv' \in AdvanceType
    BY <2>1, AmountSet
  <2> QED
    BY <1>2, <2>2 DEF RequestSelfAdvance
<1>3. ASSUME NEW u \in Users, AskEditAdvance(u) PROVE TypeOK'
  BY <1>3 DEF AskEditAdvance
<1>4. ASSUME NEW u \in Users, NEW n \in Amounts, EditAdvance(u, n) PROVE TypeOK'
  BY <1>4 DEF EditAdvance, MayBeLate, NoWork, AdvanceType
<1>5. CASE SubmitAdvance
  BY <1>5 DEF SubmitAdvance, AdvanceType
<1>6. CASE ApproveAdvance
  BY <1>6 DEF ApproveAdvance, AdvanceType
<1>7. CASE RejectAdvance
  BY <1>7 DEF RejectAdvance, AdvanceType
<1>8. CASE VoidAdvance
  BY <1>8 DEF VoidAdvance, AdvanceType
<1> QED
  BY <1>1, <1>2, <1>3, <1>4, <1>5, <1>6, <1>7, <1>8 DEF AdvanceStep

\* So do the steps of a document before its approval.
LEMMA DocStepType ==
  ASSUME TypeOK, NEW d \in Docs, DocStep(d) PROVE TypeOK'
<1> USE ConstantsAssumption DEF ConstantsAssumption, TypeOK, money, history, Amounts, Kinds, Write
<1>1. ASSUME NEW n \in Amounts, CreateSettlement(d, n) PROVE TypeOK'
  BY <1>1 DEF CreateSettlement, DocType
<1>2. ASSUME NEW n \in Amounts, RequestSelfSettlement(d, n) PROVE TypeOK'
  BY <1>2 DEF RequestSelfSettlement, DocType
<1>3. ASSUME NEW n \in Amounts, CreateReturn(d, n) PROVE TypeOK'
  BY <1>3 DEF CreateReturn, DocType
<1>4. ASSUME NEW u \in Users, EditDoc(u, d) PROVE TypeOK'
  <2>1. late' \in SUBSET (Docs \cup {Advance}) /\ overlapped' = overlapped
    BY <1>4 DEF EditDoc, MayBeLate
  <2>2. doc' \in [Docs -> DocType]
    BY <1>4 DEF EditDoc, DocType
  <2> QED
    BY <1>4, <2>1, <2>2 DEF EditDoc, NoWork
<1>5. ASSUME NEW u \in Users, NEW n \in Amounts, AskEditDoc(u, d, n) PROVE TypeOK'
  BY <1>5 DEF AskEditDoc
<1>6. CASE SubmitSettlement(d)
  BY <1>6 DEF SubmitSettlement, DocType
<1>7. CASE RejectSettlement(d)
  BY <1>7 DEF RejectSettlement, DocType
<1>8. CASE CancelReturn(d)
  BY <1>8 DEF CancelReturn, DocType
<1> QED
  BY <1>1, <1>2, <1>3, <1>4, <1>5, <1>6, <1>7, <1>8 DEF DocStep

\* The three ways to clear the advance take a natural amount off it.
LEMMA ClearType ==
  ASSUME TypeOK, NEW kind, NEW n \in Nat, Clear(kind, n)
  PROVE  adv' \in AdvanceType
<1>1. ASSUME NEW a \in AdvanceType, NEW m \in Nat, NEW s \in {"settled", "partially_settled"}
      PROVE  /\ [a EXCEPT !.settled = m, !.returned = a.returned, !.status = s] \in AdvanceType
             /\ [a EXCEPT !.settled = a.settled, !.returned = m, !.status = s] \in AdvanceType
             /\ [a EXCEPT !.settled = a.settled, !.returned = a.returned, !.status = s] \in AdvanceType
  BY DEF AdvanceType
<1>2. adv.settled \in Nat /\ adv.returned \in Nat /\ adv \in AdvanceType
  BY DEF TypeOK, AdvanceType
<1> DEFINE m == IF kind = "settlement" THEN adv.settled + n ELSE adv.settled
           k == IF kind = "return" THEN adv.returned + n ELSE adv.returned
           s == IF adv.settled + adv.returned + n >= adv.amount THEN "settled" ELSE "partially_settled"
<1>3. m \in Nat /\ k \in Nat /\ s \in {"settled", "partially_settled"}
  BY <1>2
<1>4. adv' = [adv EXCEPT !.settled = m, !.returned = k, !.status = s]
  BY DEF Clear
<1> HIDE DEF m, k, s
<1> QED
  BY <1>2, <1>3, <1>4 DEF AdvanceType

\* A journal keeps the sums and counts natural numbers.
LEMMA PostType ==
  ASSUME TypeOK, NEW d \in Docs, NEW debit \in Nat, NEW credit \in Nat, Post(d, debit, credit)
  PROVE  /\ posted' \in [Docs -> [times : Nat, debit : Nat, credit : Nat]]
         /\ credited' \in Nat /\ issued' \in Nat
  BY DEF TypeOK, Post

\* The steps that clear the advance keep the types.
LEMMA ClearStepType ==
  ASSUME Sound, ClearStep PROVE TypeOK'
<1>0. TypeOK
  BY DEF Sound
<1> USE ConstantsAssumption DEF ConstantsAssumption, money, history, Amounts, Kinds
<1>1. ASSUME NEW u \in Users, LockForApproval(u) PROVE TypeOK'
  BY <1>0, <1>1 DEF LockForApproval, TypeOK, NoWork
<1>2. ASSUME NEW u \in Users, FinishApproval(u) PROVE TypeOK'
  <2>1. work[u].on \in Docs /\ work[u].total \in Nat /\ doc[work[u].on].total \in Nat
    BY <1>0, <1>2 DEF FinishApproval, Sound, WorkSound, TypeOK, DocType
  <2>2. /\ adv' \in AdvanceType
        /\ posted' \in [Docs -> [times : Nat, debit : Nat, credit : Nat]]
        /\ credited' \in Nat /\ issued' \in Nat
    BY <1>0, <1>2, <2>1, ClearType, PostType DEF FinishApproval, DocType
  <2>3. doc' \in [Docs -> DocType]
    BY <1>0, <1>2, <2>1 DEF FinishApproval, TypeOK, DocType
  <2>4. work' \in [Users -> [op : {"none", "edit", "read", "locked"},
                            on : Docs \cup {NoDoc, Advance}, total : Nat]]
    BY <1>0, <1>2 DEF FinishApproval, TypeOK, NoWork
  <2> QED
    BY <1>0, <1>2, <2>2, <2>3, <2>4 DEF FinishApproval, TypeOK
<1>3. ASSUME NEW u \in Users, RollBack(u) PROVE TypeOK'
  BY <1>0, <1>3 DEF RollBack, TypeOK, NoWork
<1>4. ASSUME NEW u \in Users, NEW d \in Docs, ReadForApproval(u, d) PROVE TypeOK'
  <2>1. doc[d].total \in Nat
    BY <1>0 DEF TypeOK, DocType
  <2> QED
    BY <1>0, <1>4, <2>1 DEF ReadForApproval, TypeOK
<1>5. ASSUME NEW d \in Docs, NEW ls \in SUBSET PoLines, SettleFromPOLines(d, ls) PROVE TypeOK'
  <2>1. Cardinality(ls) \in Nat
    BY <1>5, LineCount DEF SettleFromPOLines
  <2>2. /\ adv' \in AdvanceType
        /\ posted' \in [Docs -> [times : Nat, debit : Nat, credit : Nat]]
        /\ credited' \in Nat /\ issued' \in Nat
    BY <1>0, <1>5, <2>1, ClearType, PostType DEF SettleFromPOLines
  <2> QED
    BY <1>0, <1>5, <2>1, <2>2 DEF SettleFromPOLines, TypeOK, Write, DocType
<1>6. ASSUME NEW d \in Docs, NEW n \in Amounts, SettleFromClaim(d, n) PROVE TypeOK'
  <2>2. /\ adv' \in AdvanceType
        /\ posted' \in [Docs -> [times : Nat, debit : Nat, credit : Nat]]
        /\ credited' \in Nat /\ issued' \in Nat
    BY <1>0, <1>6, ClearType, PostType DEF SettleFromClaim
  <2>3. doc' \in [Docs -> DocType]
    BY <1>0, <1>6 DEF SettleFromClaim, TypeOK, Write, DocType
  <2> QED
    BY <1>0, <1>6, <2>2, <2>3 DEF SettleFromClaim, TypeOK
<1> QED
  BY <1>1, <1>2, <1>3, <1>4, <1>5, <1>6 DEF ClearStep

-----------------------------------------------------------------------------
(* The balance. *)

\* What a withdrawal that fits does to the advance.
LEMMA Clearing ==
  ASSUME TypeOK, AdvanceSound, OpenToClear, NEW kind \in Kinds, NEW n \in Nat \ {0},
         n <= Outstanding, Clear(kind, n)
  PROVE  /\ AdvanceSound' /\ HandedOut'
         /\ adv'.amount = adv.amount
         /\ adv'.settled + adv'.returned = adv.settled + adv.returned + n
         /\ adv'.status = "settled" <=> Outstanding = n
         /\ adv'.status # "approved"
<1>1. /\ adv.amount \in Nat /\ adv.settled \in Nat /\ adv.returned \in Nat
      /\ adv \in AdvanceType
  BY DEF TypeOK, AdvanceType
<1> DEFINE m == IF kind = "settlement" THEN adv.settled + n ELSE adv.settled
           k == IF kind = "return" THEN adv.returned + n ELSE adv.returned
           s == IF adv.settled + adv.returned + n >= adv.amount THEN "settled" ELSE "partially_settled"
<1>2. /\ m + k = adv.settled + adv.returned + n
      /\ m \in Nat /\ k \in Nat /\ s \in {"settled", "partially_settled"}
      /\ s = "settled" <=> adv.settled + adv.returned + n >= adv.amount
  BY <1>1 DEF Kinds
<1>3. adv' = [adv EXCEPT !.settled = m, !.returned = k, !.status = s]
  BY DEF Clear
<1> HIDE DEF m, k, s
<1>4. adv'.settled = m /\ adv'.returned = k /\ adv'.status = s /\ adv'.amount = adv.amount
  BY <1>1, <1>3 DEF AdvanceType
<1>5. adv.settled + adv.returned + n >= adv.amount <=> Outstanding = n
  BY <1>1 DEF Outstanding
<1>6. AdvanceSound' /\ HandedOut'
  BY <1>1, <1>2, <1>4 DEF AdvanceSound, HandedOut, Outstanding
<1> QED
  BY <1>2, <1>4, <1>5, <1>6

\* The part of the invariant that is about the advance and its lock.
Money == AdvanceSound /\ LockSound /\ LedgerAgrees

\* A step that leaves the advance alone, and who holds its row.
LEMMA MoneyUntouched ==
  ASSUME Sound, UNCHANGED <<adv, lock, credited>>, NEW u \in Users,
         work[u].op # "locked", \A v \in Users \ {u} : work'[v] = work[v]
  PROVE  Money'
<1>1. u # lock
  BY DEF Sound, LockSound
<1> QED
  BY <1>1 DEF Sound, Money, AdvanceSound, LockSound, LedgerAgrees, HandedOut, OpenToClear, Outstanding

\* A step that finds the row free, or lets go of it.
LEMMA MoneyFreed ==
  ASSUME lock' \notin Users, AdvanceSound', LedgerAgrees'
  PROVE  Money'
  BY DEF Money, LockSound

\* The steps of the advance itself keep its amounts, the ledger and the lock in order.
LEMMA AdvanceStepMoney ==
  ASSUME Sound, AdvanceStep PROVE Money'
<1> USE ConstantsAssumption DEF ConstantsAssumption
<1>0. /\ TypeOK /\ AdvanceSound /\ LedgerAgrees /\ LockSound
      /\ adv \in AdvanceType
  BY DEF Sound, TypeOK
<1>1. /\ adv.amount \in Nat /\ adv.settled \in Nat /\ adv.returned \in Nat
  BY <1>0 DEF AdvanceType
<1>2. adv.status = "absent" => lock \notin Users
  BY <1>0 DEF LockSound, OpenToClear
<1>3. ASSUME NEW n \in Amounts, NEW s \in {"draft", "pending_approval"}, adv.status = "absent",
             adv' = [adv EXCEPT !.status = s, !.amount = n], UNCHANGED <<lock, credited>>
      PROVE  Money'
  <2>1. adv'.status = s /\ adv'.amount = n /\ adv'.settled = 0 /\ adv'.returned = 0
    BY <1>0, <1>3 DEF AdvanceType, AdvanceSound, HandedOut
  <2>2. AdvanceSound' /\ LedgerAgrees'
    BY <1>0, <1>3, <2>1 DEF AdvanceSound, LedgerAgrees, HandedOut, Amounts
  <2> QED
    BY <1>2, <1>3, <2>2, MoneyFreed
<1>4. ASSUME NEW n \in Amounts, CreateAdvance(n) PROVE Money'
  BY <1>3, <1>4 DEF CreateAdvance, money, history
<1>5. ASSUME NEW n \in Amounts, RequestSelfAdvance(n) PROVE Money'
  BY <1>3, <1>5 DEF RequestSelfAdvance, money, history
<1>6. ASSUME NEW u \in Users, AskEditAdvance(u) PROVE Money'
  BY <1>0, <1>6, MoneyUntouched DEF AskEditAdvance, money, history, TypeOK
<1>7. ASSUME NEW u \in Users, NEW n \in Amounts, EditAdvance(u, n) PROVE Money'
  <2>1. /\ adv'.status = adv.status /\ adv'.amount = n
        /\ adv'.settled = adv.settled /\ adv'.returned = adv.returned
    BY <1>0, <1>7 DEF EditAdvance, AdvanceType
  <2>2. AdvanceSound' /\ LedgerAgrees'
    BY <1>0, <1>7, <2>1 DEF EditAdvance, AdvanceSound, LedgerAgrees, HandedOut, money, history, Amounts
  <2> QED
    BY <1>7, <2>2, MoneyFreed DEF EditAdvance, Unlocked
<1>8. ASSUME NEW s \in {"pending_approval", "approved", "rejected", "cancelled"},
             adv' = [adv EXCEPT !.status = s], Unlocked, UNCHANGED <<lock, credited>>,
             adv.status # "absent", ~HandedOut \/ (adv.settled = 0 /\ adv.returned = 0)
      PROVE  Money'
  <2>1. /\ adv'.status = s /\ adv'.amount = adv.amount
        /\ adv'.settled = adv.settled /\ adv'.returned = adv.returned
    BY <1>0, <1>8 DEF AdvanceType
  <2>2. AdvanceSound' /\ LedgerAgrees'
    BY <1>0, <1>8, <2>1 DEF AdvanceSound, LedgerAgrees, HandedOut
  <2> QED
    BY <1>8, <2>2, MoneyFreed DEF Unlocked
<1>9. CASE SubmitAdvance
  BY <1>8, <1>9 DEF SubmitAdvance, money, history, HandedOut
<1>10. CASE ApproveAdvance
  BY <1>8, <1>10 DEF ApproveAdvance, HandedOut
<1>11. CASE RejectAdvance
  BY <1>8, <1>11 DEF RejectAdvance, money, history, HandedOut
<1>12. CASE VoidAdvance
  BY <1>8, <1>12 DEF VoidAdvance
<1> QED
  BY <1>4, <1>5, <1>6, <1>7, <1>9, <1>10, <1>11, <1>12 DEF AdvanceStep

\* Documents change the balance only by their approval.
LEMMA DocStepMoney ==
  ASSUME Sound, NEW d \in Docs, DocStep(d) PROVE Money'
<1>0. TypeOK
  BY DEF Sound
<1>1. ASSUME UNCHANGED <<adv, lock, credited, work>> PROVE Money'
  BY <1>1 DEF Sound, Money, AdvanceSound, LockSound, LedgerAgrees, HandedOut, OpenToClear, Outstanding
<1>2. ASSUME NEW n \in Amounts, CreateSettlement(d, n) PROVE Money'
  BY <1>1, <1>2 DEF CreateSettlement, money, history
<1>3. ASSUME NEW n \in Amounts, RequestSelfSettlement(d, n) PROVE Money'
  BY <1>1, <1>3 DEF RequestSelfSettlement, money, history
<1>4. ASSUME NEW n \in Amounts, CreateReturn(d, n) PROVE Money'
  BY <1>1, <1>4 DEF CreateReturn, money, history
<1>5. ASSUME NEW u \in Users, EditDoc(u, d) PROVE Money'
  BY <1>0, <1>5, MoneyUntouched DEF EditDoc, money, history, TypeOK
<1>6. ASSUME NEW u \in Users, NEW n \in Amounts, AskEditDoc(u, d, n) PROVE Money'
  BY <1>0, <1>6, MoneyUntouched DEF AskEditDoc, money, history, TypeOK
<1>7. CASE SubmitSettlement(d)
  BY <1>1, <1>7 DEF SubmitSettlement, money, history
<1>8. CASE RejectSettlement(d)
  BY <1>1, <1>8 DEF RejectSettlement, money, history
<1>9. CASE CancelReturn(d)
  BY <1>1, <1>9 DEF CancelReturn, money, history
<1> QED
  BY <1>2, <1>3, <1>4, <1>5, <1>6, <1>7, <1>8, <1>9 DEF DocStep

\* What each of the three withdrawals takes fits into the balance.
LEMMA Fits ==
  ASSUME Sound
  PROVE  /\ \A u \in Users : FinishApproval(u) =>
              /\ OpenToClear /\ work[u].total \in Nat \ {0} /\ work[u].total <= Outstanding
              /\ work[u].on \in Docs /\ doc[work[u].on].kind \in Kinds /\ lock = u
         /\ \A d \in Docs, ls \in SUBSET PoLines : SettleFromPOLines(d, ls) =>
              OpenToClear /\ Cardinality(ls) \in Nat \ {0} /\ Cardinality(ls) <= Outstanding
         /\ \A d \in Docs, n \in Amounts : SettleFromClaim(d, n) =>
              OpenToClear /\ n \in Nat \ {0} /\ n <= Outstanding
<1>1. ASSUME NEW u \in Users, FinishApproval(u)
      PROVE  /\ OpenToClear /\ work[u].total \in Nat \ {0} /\ work[u].total <= Outstanding
             /\ work[u].on \in Docs /\ doc[work[u].on].kind \in Kinds /\ lock = u
  <2>1. lock = u /\ work[u].on \in Docs
    BY <1>1 DEF FinishApproval, Sound, WorkSound
  <2>2. work[u].total \in Amounts /\ doc[work[u].on].kind \in Kinds
    BY <2>1 DEF Sound, WorkSound, DocsSound
  <2> QED
    BY <2>1, <2>2, ConstantsAssumption DEF Sound, LockSound, Amounts, ConstantsAssumption
<1>2. ASSUME NEW d \in Docs, NEW ls \in SUBSET PoLines, SettleFromPOLines(d, ls)
      PROVE  OpenToClear /\ Cardinality(ls) \in Nat \ {0} /\ Cardinality(ls) <= Outstanding
  BY <1>2, LineCount DEF SettleFromPOLines
<1>3. ASSUME NEW d \in Docs, NEW n \in Amounts, SettleFromClaim(d, n)
      PROVE  OpenToClear /\ n \in Nat \ {0} /\ n <= Outstanding
  BY <1>3, ConstantsAssumption DEF SettleFromClaim, Amounts, ConstantsAssumption
<1> QED
  BY <1>1, <1>2, <1>3

\* A withdrawal goes to the advance and to the journals at once.
LEMMA WithdrawalMoney ==
  ASSUME Sound, OpenToClear, NEW kind \in Kinds, NEW n \in Nat \ {0}, n <= Outstanding,
         Clear(kind, n), credited' = credited + n, lock' \notin Users
  PROVE  Money'
<1>1. credited \in Nat /\ adv.settled \in Nat /\ adv.returned \in Nat
  BY DEF Sound, TypeOK, AdvanceType
<1>2. AdvanceSound' /\ adv'.settled + adv'.returned = adv.settled + adv.returned + n
  BY Clearing DEF Sound
<1>3. LedgerAgrees'
  BY <1>1, <1>2 DEF Sound, LedgerAgrees
<1> QED
  BY <1>2, <1>3, MoneyFreed

\* So do the steps that clear it: what they take fits, under the lock.
LEMMA ClearStepMoney ==
  ASSUME Sound, ClearStep PROVE Money'
<1> USE ConstantsAssumption DEF ConstantsAssumption
<1>0. TypeOK /\ AdvanceSound /\ LedgerAgrees /\ LockSound
  BY DEF Sound
<1>1. ASSUME NEW u \in Users, LockForApproval(u) PROVE Money'
  <2>1. CASE OpenToClear /\ work[u].total <= Outstanding
    <3>1. work' = [work EXCEPT ![u].op = "locked"] /\ lock' = u /\ UNCHANGED <<adv, credited>>
      BY <1>1, <2>1 DEF LockForApproval, money, history
    <3>2. work'[u].op = "locked" /\ work'[u].total = work[u].total
      BY <1>0, <3>1 DEF TypeOK
    <3> QED
      BY <1>0, <2>1, <3>1, <3>2
      DEF Money, AdvanceSound, LockSound, LedgerAgrees, HandedOut, OpenToClear, Outstanding
  <2>2. CASE ~(OpenToClear /\ work[u].total <= Outstanding)
    <3>1. UNCHANGED <<adv, credited>> /\ lock' = NoUser
      BY <1>1, <2>2 DEF LockForApproval, money, history, Unlocked
    <3> QED
      BY <1>0, <3>1, MoneyFreed DEF AdvanceSound, LedgerAgrees, HandedOut
  <2> QED
    BY <2>1, <2>2
<1>2. ASSUME NEW u \in Users, FinishApproval(u) PROVE Money'
  <2>1. /\ OpenToClear /\ work[u].total \in Nat \ {0} /\ work[u].total <= Outstanding
        /\ doc[work[u].on].kind \in Kinds
    BY <1>2, Fits
  <2>2. /\ Clear(doc[work[u].on].kind, work[u].total)
        /\ credited' = credited + work[u].total /\ lock' = NoUser
    BY <1>2 DEF FinishApproval, Post
  <2> QED
    BY <2>1, <2>2, WithdrawalMoney
<1>3. ASSUME NEW u \in Users, RollBack(u) PROVE Money'
  <2>1. UNCHANGED <<adv, credited>> /\ lock' = NoUser
    BY <1>3 DEF RollBack, money, history
  <2> QED
    BY <1>0, <2>1, MoneyFreed DEF AdvanceSound, LedgerAgrees, HandedOut
<1>4. ASSUME NEW u \in Users, NEW d \in Docs, ReadForApproval(u, d) PROVE Money'
  BY <1>0, <1>4, MoneyUntouched DEF ReadForApproval, money, history, TypeOK
<1>5. ASSUME NEW d \in Docs, NEW ls \in SUBSET PoLines, SettleFromPOLines(d, ls) PROVE Money'
  <2>1. OpenToClear /\ Cardinality(ls) \in Nat \ {0} /\ Cardinality(ls) <= Outstanding
    BY <1>5, Fits
  <2>2. /\ Clear("settlement", Cardinality(ls)) /\ lock' = NoUser
        /\ credited' = credited + Cardinality(ls)
    BY <1>5 DEF SettleFromPOLines, Post, Unlocked
  <2> QED
    BY <2>1, <2>2, WithdrawalMoney DEF Kinds
<1>6. ASSUME NEW d \in Docs, NEW n \in Amounts, SettleFromClaim(d, n) PROVE Money'
  <2>1. OpenToClear /\ n \in Nat \ {0} /\ n <= Outstanding
    BY <1>6, Fits
  <2>2. Clear("settlement", n) /\ lock' = NoUser /\ credited' = credited + n
    BY <1>6 DEF SettleFromClaim, Post, Unlocked
  <2> QED
    BY <2>1, <2>2, WithdrawalMoney DEF Kinds
<1> QED
  BY <1>1, <1>2, <1>3, <1>4, <1>5, <1>6 DEF ClearStep

-----------------------------------------------------------------------------
(* Documents and requests. *)

Papers == DocsSound /\ WorkSound

\* A step that leaves documents alone and gives a request nothing new to hold.
LEMMA PapersUntouched ==
  ASSUME Sound, UNCHANGED doc,
         \A v \in Users : \/ work'[v] = work[v] /\ (lock = v => lock' = v)
                          \/ work'[v].op \in {"none", "edit"} /\ work'[v].on \notin Docs
  PROVE  Papers'
<1>1. DocsSound'
  BY DEF Sound, DocsSound
<1>2. WorkSound'
  BY DEF Sound, WorkSound
<1> QED
  BY <1>1, <1>2 DEF Papers

\* A step that writes one document, and lets a request forget its own at most.
LEMMA PaperWritten ==
  ASSUME Sound, NEW d \in Docs, \A e \in Docs \ {d} : doc'[e] = doc[e],
         doc'[d].status # "absent", doc'[d].kind \in Kinds, doc'[d].total \in Amounts,
         \A v \in Users : \/ work'[v] = work[v] /\ (lock = v => lock' = v)
                          \/ work'[v].op = "none" /\ work'[v].on \notin Docs
  PROVE  Papers'
<1>1. DocsSound'
  BY DEF Sound, DocsSound
<1>2. WorkSound'
  BY DEF Sound, WorkSound
<1> QED
  BY <1>1, <1>2 DEF Papers

\* The steps of the advance leave documents and requests in order.
LEMMA AdvanceStepPapers ==
  ASSUME Sound, AdvanceStep PROVE Papers'
<1> USE ConstantsAssumption DEF ConstantsAssumption
<1>0. TypeOK
  BY DEF Sound
<1>1. ASSUME UNCHANGED <<doc, work, lock>> PROVE Papers'
  BY <1>1, PapersUntouched
<1>2. ASSUME NEW n \in Amounts, CreateAdvance(n) PROVE Papers'
  BY <1>1, <1>2 DEF CreateAdvance
<1>3. ASSUME NEW n \in Amounts, RequestSelfAdvance(n) PROVE Papers'
  BY <1>1, <1>3 DEF RequestSelfAdvance
<1>4. ASSUME NEW u \in Users, AskEditAdvance(u) PROVE Papers'
  <2>1. /\ \A v \in Users \ {u} : work'[v] = work[v]
        /\ work'[u].op = "edit" /\ work'[u].on \notin Docs /\ UNCHANGED <<doc, lock>>
    BY <1>0, <1>4 DEF AskEditAdvance, TypeOK
  <2> QED
    BY <2>1, PapersUntouched
<1>5. ASSUME NEW u \in Users, NEW n \in Amounts, EditAdvance(u, n) PROVE Papers'
  <2>1. /\ \A v \in Users \ {u} : work'[v] = work[v]
        /\ work'[u].op = "none" /\ work'[u].on \notin Docs /\ UNCHANGED <<doc, lock>>
    BY <1>0, <1>5 DEF EditAdvance, TypeOK, NoWork
  <2> QED
    BY <2>1, PapersUntouched
<1>6. CASE SubmitAdvance
  BY <1>1, <1>6 DEF SubmitAdvance
<1>7. CASE ApproveAdvance
  BY <1>1, <1>7 DEF ApproveAdvance
<1>8. CASE RejectAdvance
  BY <1>1, <1>8 DEF RejectAdvance
<1>9. CASE VoidAdvance
  BY <1>1, <1>9 DEF VoidAdvance
<1> QED
  BY <1>2, <1>3, <1>4, <1>5, <1>6, <1>7, <1>8, <1>9 DEF AdvanceStep

\* So do the steps of a document before its approval.
LEMMA DocStepPapers ==
  ASSUME Sound, NEW d \in Docs, DocStep(d) PROVE Papers'
<1> USE ConstantsAssumption DEF ConstantsAssumption
<1>0. TypeOK
  BY DEF Sound
<1>1. ASSUME NEW kind \in Kinds, NEW s \in {"draft", "submitted"}, NEW n \in Amounts,
             Write(d, kind, s, n), UNCHANGED <<work, lock>>
      PROVE  Papers'
  BY <1>0, <1>1, PaperWritten DEF Write, TypeOK
<1>2. ASSUME NEW n \in Amounts, CreateSettlement(d, n) PROVE Papers'
  BY <1>1, <1>2 DEF CreateSettlement, Kinds
<1>3. ASSUME NEW n \in Amounts, RequestSelfSettlement(d, n) PROVE Papers'
  BY <1>1, <1>3 DEF RequestSelfSettlement, Kinds
<1>4. ASSUME NEW n \in Amounts, CreateReturn(d, n) PROVE Papers'
  BY <1>1, <1>4 DEF CreateReturn, Kinds
<1>5. ASSUME NEW u \in Users, EditDoc(u, d) PROVE Papers'
  <2>1. work[u].total \in Amounts /\ doc[d].status # "absent" /\ doc[d].kind \in Kinds
    BY <1>5 DEF EditDoc, Sound, WorkSound, DocsSound
  <2>2. /\ \A e \in Docs \ {d} : doc'[e] = doc[e]
        /\ doc'[d].status = doc[d].status /\ doc'[d].kind = doc[d].kind
        /\ doc'[d].total = work[u].total
    BY <1>0, <1>5 DEF EditDoc, TypeOK, DocType
  <2>3. /\ \A v \in Users \ {u} : work'[v] = work[v]
        /\ work'[u].op = "none" /\ work'[u].on \notin Docs /\ lock' = lock
    BY <1>0, <1>5 DEF EditDoc, TypeOK, NoWork
  <2> QED
    BY <2>1, <2>2, <2>3, PaperWritten
<1>6. ASSUME NEW u \in Users, NEW n \in Amounts, AskEditDoc(u, d, n) PROVE Papers'
  <2>1. /\ \A v \in Users \ {u} : work'[v] = work[v]
        /\ work'[u] = [op |-> "edit", on |-> d, total |-> n] /\ UNCHANGED <<doc, lock>>
        /\ doc[d].status = "draft"
    BY <1>0, <1>6 DEF AskEditDoc, TypeOK
  <2>2. DocsSound' /\ WorkSound'
    BY <2>1 DEF Sound, DocsSound, WorkSound
  <2> QED
    BY <2>2 DEF Papers
<1>7. ASSUME NEW s \in {"submitted", "rejected", "cancelled"}, doc[d].status # "absent",
             doc' = [doc EXCEPT ![d].status = s], UNCHANGED <<work, lock>>
      PROVE  Papers'
  <2>1. /\ \A e \in Docs \ {d} : doc'[e] = doc[e]
        /\ doc'[d].status = s /\ doc'[d].kind = doc[d].kind /\ doc'[d].total = doc[d].total
    BY <1>0, <1>7 DEF TypeOK, DocType
  <2>2. doc[d].kind \in Kinds /\ doc[d].total \in Amounts
    BY <1>7 DEF Sound, DocsSound
  <2> QED
    BY <1>7, <2>1, <2>2, PaperWritten
<1>8. CASE SubmitSettlement(d)
  BY <1>7, <1>8 DEF SubmitSettlement
<1>9. CASE RejectSettlement(d)
  BY <1>7, <1>9 DEF RejectSettlement
<1>10. CASE CancelReturn(d)
  BY <1>7, <1>10 DEF CancelReturn
<1> QED
  BY <1>2, <1>3, <1>4, <1>5, <1>6, <1>8, <1>9, <1>10 DEF DocStep

\* So do the steps that clear the advance.
LEMMA ClearStepPapers ==
  ASSUME Sound, ClearStep PROVE Papers'
<1> USE ConstantsAssumption DEF ConstantsAssumption
<1>0. TypeOK
  BY DEF Sound
<1>1. ASSUME NEW u \in Users, LockForApproval(u) PROVE Papers'
  <2>1. CASE OpenToClear /\ work[u].total <= Outstanding
    <3>1. /\ work' = [work EXCEPT ![u].op = "locked"] /\ lock' = u /\ UNCHANGED doc
          /\ work[u].op = "read" /\ lock = NoUser
      BY <1>1, <2>1 DEF LockForApproval, Unlocked
    <3>2. /\ work'[u].op = "locked" /\ work'[u].on = work[u].on /\ work'[u].total = work[u].total
          /\ \A v \in Users \ {u} : work'[v] = work[v]
      BY <1>0, <3>1 DEF TypeOK
    <3>3. \A v \in Users : work[v].op # "locked"
      BY <3>1 DEF Sound, WorkSound
    <3>4. DocsSound' /\ WorkSound'
      BY <3>1, <3>2, <3>3 DEF Sound, DocsSound, WorkSound
    <3> QED
      BY <3>4 DEF Papers
  <2>2. CASE ~(OpenToClear /\ work[u].total <= Outstanding)
    <3>1. /\ \A v \in Users \ {u} : work'[v] = work[v]
          /\ work'[u].op = "none" /\ work'[u].on \notin Docs /\ UNCHANGED <<doc, lock>>
      BY <1>0, <1>1, <2>2 DEF LockForApproval, TypeOK, NoWork
    <3> QED
      BY <3>1, PapersUntouched
  <2> QED
    BY <2>1, <2>2
<1>2. ASSUME NEW u \in Users, FinishApproval(u) PROVE Papers'
  <2> DEFINE d == work[u].on
  <2>1. d \in Docs /\ doc[d].kind \in Kinds /\ lock = u
    BY <1>2, Fits
  <2>2. doc[d].total \in Amounts
    BY <1>2, <2>1 DEF Sound, WorkSound, DocsSound
  <2>3. doc' = [doc EXCEPT ![d].status = "approved"] /\ work' = [work EXCEPT ![u] = NoWork]
    BY <1>2 DEF FinishApproval
  <2> HIDE DEF d
  <2>4. /\ \A e \in Docs \ {d} : doc'[e] = doc[e]
        /\ doc'[d].status = "approved" /\ doc'[d].kind = doc[d].kind /\ doc'[d].total = doc[d].total
    BY <1>0, <2>1, <2>3 DEF TypeOK, DocType
  <2>5. /\ \A v \in Users \ {u} : work'[v] = work[v]
        /\ work'[u].op = "none" /\ work'[u].on \notin Docs
    BY <1>0, <2>3 DEF TypeOK, NoWork
  <2> QED
    BY <2>1, <2>2, <2>4, <2>5, PaperWritten
<1>3. ASSUME NEW u \in Users, RollBack(u) PROVE Papers'
  <2>1. lock = u
    BY <1>3 DEF RollBack, Sound, WorkSound
  <2>2. /\ \A v \in Users \ {u} : work'[v] = work[v]
        /\ work'[u].op = "none" /\ work'[u].on \notin Docs /\ UNCHANGED doc
    BY <1>0, <1>3 DEF RollBack, TypeOK, NoWork
  <2> QED
    BY <2>1, <2>2, PapersUntouched
<1>4. ASSUME NEW u \in Users, NEW d \in Docs, ReadForApproval(u, d) PROVE Papers'
  <2>1. /\ \A v \in Users \ {u} : work'[v] = work[v]
        /\ work'[u] = [op |-> "read", on |-> d, total |-> doc[d].total] /\ UNCHANGED <<doc, lock>>
        /\ doc[d].status # "absent"
    BY <1>0, <1>4 DEF ReadForApproval, TypeOK, Approvable
  <2>2. DocsSound' /\ WorkSound'
    BY <2>1 DEF Sound, DocsSound, WorkSound
  <2> QED
    BY <2>2 DEF Papers
<1>5. ASSUME NEW d \in Docs, NEW n \in Amounts, Write(d, "settlement", "approved", n),
             UNCHANGED <<work, lock>>
      PROVE  Papers'
  BY <1>0, <1>5, PaperWritten DEF Write, TypeOK, Kinds
<1>6. ASSUME NEW d \in Docs, NEW ls \in SUBSET PoLines, SettleFromPOLines(d, ls) PROVE Papers'
  <2>1. /\ Cardinality(ls) \in Nat \ {0} /\ Cardinality(ls) <= Outstanding
    BY <1>6, Fits
  <2>2. Outstanding \in Int /\ Outstanding <= MaxAmount
    BY <1>0 DEF Sound, TypeOK, AdvanceType, AdvanceSound, Outstanding
  <2>3. Cardinality(ls) \in Amounts
    BY <2>1, <2>2 DEF Amounts
  <2> QED
    BY <1>5, <1>6, <2>3 DEF SettleFromPOLines
<1>7. ASSUME NEW d \in Docs, NEW n \in Amounts, SettleFromClaim(d, n) PROVE Papers'
  BY <1>5, <1>7 DEF SettleFromClaim
<1> QED
  BY <1>1, <1>2, <1>3, <1>4, <1>6, <1>7 DEF ClearStep

\* Sound is inductive.
LEMMA SoundStep == Sound /\ [Next]_vars => Sound'
<1> SUFFICES ASSUME Sound, [Next]_vars PROVE Sound'
  OBVIOUS
<1>0. TypeOK
  BY DEF Sound
<1>1. CASE AdvanceStep
  BY <1>0, <1>1, AdvanceStepType, AdvanceStepMoney, AdvanceStepPapers DEF Sound, Money, Papers
<1>2. CASE ClearStep
  BY <1>2, ClearStepType, ClearStepMoney, ClearStepPapers DEF Sound, Money, Papers
<1>3. ASSUME NEW d \in Docs, DocStep(d) PROVE Sound'
  BY <1>0, <1>3, DocStepType, DocStepMoney, DocStepPapers DEF Sound, Money, Papers
<1>4. CASE UNCHANGED vars
  BY <1>4 DEF vars, money, history, Sound, TypeOK, AdvanceSound, DocsSound, WorkSound, LockSound,
              LedgerAgrees, HandedOut, OpenToClear, Outstanding
<1> QED
  BY <1>1, <1>2, <1>3, <1>4 DEF Next

\* In every reachable state types, amounts, requests, lock and ledger are sound.
THEOREM SoundAlways == Spec => []Sound
<1> QED
  BY InitSound, SoundStep, PTL DEF Spec

\* Every variable stays of its type.
THEOREM TypeCorrect == Spec => []TypeOK
<1>1. Sound => TypeOK
  BY DEF Sound
<1> QED
  BY <1>1, SoundAlways, PTL

\* However approvals, claims and purchase orders overlap, what the advance
\* says is cleared is what the journals credited.
THEOREM LedgerAlwaysAgrees == Spec => []LedgerAgrees
<1>1. Sound => LedgerAgrees
  BY DEF Sound
<1> QED
  BY <1>1, SoundAlways, PTL

-----------------------------------------------------------------------------
(* The books. *)

\* What the issuance booked is the amount, and the status follows the balance.
Booked ==
  Advance \notin late =>
    /\ issued = IF HandedOut THEN adv.amount ELSE 0
    /\ HandedOut => /\ adv.status = "settled" <=> Outstanding = 0
                    /\ adv.status = "approved" <=> adv.settled + adv.returned = 0

\* A step that leaves the advance and what was issued alone.
LEMMA BookedUntouched ==
  ASSUME Booked, UNCHANGED <<adv, issued>>, Advance \in late => Advance \in late'
  PROVE  Booked'
  BY DEF Booked, HandedOut, Outstanding

\* A clearing that fits keeps the books and the status in step with the balance.
LEMMA WithdrawalBooked ==
  ASSUME Sound, Booked, OpenToClear, NEW kind \in Kinds, NEW n \in Nat \ {0}, n <= Outstanding,
         Clear(kind, n), UNCHANGED <<issued, late>>
  PROVE  Booked'
<1>1. adv.amount \in Nat /\ adv.settled \in Nat /\ adv.returned \in Nat
  BY DEF Sound, TypeOK, AdvanceType
<1>2. /\ AdvanceSound' /\ HandedOut' /\ adv'.amount = adv.amount
      /\ adv'.settled + adv'.returned = adv.settled + adv.returned + n
      /\ adv'.status = "settled" <=> Outstanding = n
      /\ adv'.status # "approved"
  BY Clearing DEF Sound
<1>3. adv'.settled \in Nat /\ adv'.returned \in Nat
  BY ClearType DEF Sound, AdvanceType
<1>4. Outstanding' = Outstanding - n /\ Outstanding \in Int
  BY <1>1, <1>2, <1>3 DEF Outstanding
<1>5. HandedOut
  BY DEF OpenToClear, HandedOut
<1> QED
  BY <1>1, <1>2, <1>4, <1>5 DEF Booked

\* Booked is inductive, given Sound.
LEMMA BookedStep == Sound /\ Booked /\ [Next]_vars => Booked'
<1> SUFFICES ASSUME Sound, Booked, [Next]_vars PROVE Booked'
  OBVIOUS
<1> USE ConstantsAssumption DEF ConstantsAssumption
<1>0. /\ TypeOK /\ AdvanceSound /\ adv \in AdvanceType
      /\ adv.amount \in Nat /\ adv.settled \in Nat /\ adv.returned \in Nat
  BY DEF Sound, TypeOK, AdvanceType
<1>1. ASSUME AdvanceStep PROVE Booked'
  <2>1. ASSUME NEW n \in Amounts, NEW s \in {"draft", "pending_approval"}, adv.status = "absent",
               adv' = [adv EXCEPT !.status = s, !.amount = n], UNCHANGED <<issued, late>>
        PROVE  Booked'
    BY <1>0, <2>1 DEF Booked, HandedOut, AdvanceType
  <2>2. ASSUME NEW n \in Amounts, CreateAdvance(n) PROVE Booked'
    BY <2>1, <2>2 DEF CreateAdvance, money, history
  <2>3. ASSUME NEW n \in Amounts, RequestSelfAdvance(n) PROVE Booked'
    BY <2>1, <2>3 DEF RequestSelfAdvance, money, history
  <2>4. ASSUME NEW u \in Users, AskEditAdvance(u) PROVE Booked'
    BY <2>4, BookedUntouched DEF AskEditAdvance, money, history
  <2>5. ASSUME NEW u \in Users, NEW n \in Amounts, EditAdvance(u, n) PROVE Booked'
    <3>1. CASE adv.status = "draft"
      <4>1. adv'.status = "draft" /\ UNCHANGED <<issued, late>>
        BY <1>0, <2>5, <3>1 DEF EditAdvance, MayBeLate, AdvanceType, money, history
      <4> QED
        BY <3>1, <4>1 DEF Booked, HandedOut
    <3>2. CASE adv.status # "draft"
      BY <2>5, <3>2 DEF EditAdvance, MayBeLate, Booked
    <3> QED
      BY <3>1, <3>2
  <2>6. CASE SubmitAdvance
    <3>1. adv'.status = "pending_approval" /\ adv.status = "draft" /\ UNCHANGED <<issued, late>>
      BY <1>0, <2>6 DEF SubmitAdvance, AdvanceType, money, history
    <3> QED
      BY <3>1 DEF Booked, HandedOut
  <2>7. CASE ApproveAdvance
    <3>1. /\ adv'.status = "approved" /\ adv.status = "pending_approval"
          /\ adv'.amount = adv.amount /\ adv'.settled = adv.settled /\ adv'.returned = adv.returned
          /\ issued' = adv.amount /\ late' = late
      BY <1>0, <2>7 DEF ApproveAdvance, AdvanceType, history
    <3>2. adv.settled = 0 /\ adv.returned = 0 /\ 1 <= adv.amount
      BY <1>0, <3>1 DEF AdvanceSound, HandedOut
    <3> QED
      BY <1>0, <3>1, <3>2 DEF Booked, HandedOut, Outstanding
  <2>8. CASE RejectAdvance
    <3>1. adv'.status = "rejected" /\ adv.status = "pending_approval" /\ UNCHANGED <<issued, late>>
      BY <1>0, <2>8 DEF RejectAdvance, AdvanceType, money, history
    <3> QED
      BY <3>1 DEF Booked, HandedOut
  <2>9. CASE VoidAdvance
    <3>1. adv'.status = "cancelled" /\ issued' = 0 /\ late' = late
      BY <1>0, <2>9 DEF VoidAdvance, AdvanceType, history
    <3> QED
      BY <3>1 DEF Booked, HandedOut
  <2> QED
    BY <1>1, <2>2, <2>3, <2>4, <2>5, <2>6, <2>7, <2>8, <2>9 DEF AdvanceStep
<1>2. ASSUME NEW d \in Docs, DocStep(d) PROVE Booked'
  <2>1. UNCHANGED <<adv, issued>>
    BY <1>2 DEF DocStep, CreateSettlement, RequestSelfSettlement, CreateReturn, EditDoc, AskEditDoc,
                SubmitSettlement, RejectSettlement, CancelReturn, money, history
  <2>2. Advance \in late => Advance \in late'
    BY <1>2 DEF DocStep, CreateSettlement, RequestSelfSettlement, CreateReturn, EditDoc, AskEditDoc,
                SubmitSettlement, RejectSettlement, CancelReturn, MayBeLate, history
  <2> QED
    BY <2>1, <2>2, BookedUntouched
<1>3. ASSUME ClearStep PROVE Booked'
  <2>1. ASSUME NEW u \in Users, LockForApproval(u) \/ RollBack(u) PROVE Booked'
    BY <2>1, BookedUntouched DEF LockForApproval, RollBack, money, history
  <2>2. ASSUME NEW u \in Users, FinishApproval(u) PROVE Booked'
    <3>1. /\ OpenToClear /\ work[u].total \in Nat \ {0} /\ work[u].total <= Outstanding
          /\ doc[work[u].on].kind \in Kinds
      BY <2>2, Fits
    <3>2. Clear(doc[work[u].on].kind, work[u].total) /\ UNCHANGED <<issued, late>>
      BY <2>2 DEF FinishApproval, Post, history
    <3> QED
      BY <3>1, <3>2, WithdrawalBooked
  <2>3. ASSUME NEW u \in Users, NEW d \in Docs, ReadForApproval(u, d) PROVE Booked'
    BY <2>3, BookedUntouched DEF ReadForApproval, money, history
  <2>4. ASSUME NEW d \in Docs, NEW ls \in SUBSET PoLines, SettleFromPOLines(d, ls) PROVE Booked'
    <3>1. OpenToClear /\ Cardinality(ls) \in Nat \ {0} /\ Cardinality(ls) <= Outstanding
      BY <2>4, Fits
    <3>2. Clear("settlement", Cardinality(ls)) /\ UNCHANGED <<issued, late>>
      BY <2>4 DEF SettleFromPOLines, Post, history
    <3> QED
      BY <3>1, <3>2, WithdrawalBooked DEF Kinds
  <2>5. ASSUME NEW d \in Docs, NEW n \in Amounts, SettleFromClaim(d, n) PROVE Booked'
    <3>1. OpenToClear /\ n \in Nat \ {0} /\ n <= Outstanding
      BY <2>5, Fits
    <3>2. Clear("settlement", n) /\ UNCHANGED <<issued, late>>
      BY <2>5 DEF SettleFromClaim, Post, history
    <3> QED
      BY <3>1, <3>2, WithdrawalBooked DEF Kinds
  <2> QED
    BY <1>3, <2>1, <2>2, <2>3, <2>4, <2>5 DEF ClearStep
<1>4. CASE UNCHANGED vars
  BY <1>4, BookedUntouched DEF vars, money, history
<1> QED
  BY <1>1, <1>2, <1>3, <1>4 DEF Next

\* What was issued and the status of the advance always agree with its balance,
\* unless it was edited late.
THEOREM BookedAlways == Spec => [](Sound /\ Booked)
<1>1. Init => Booked
  BY DEF Init, Booked, HandedOut
<1> QED
  BY <1>1, InitSound, SoundStep, BookedStep, PTL DEF Spec

\* The employee is never credited with more than was handed out, and the
\* advance's balance is the one in the books, whoever approves what at once.
THEOREM NeverOverdrawnAlways == Spec => []NeverOverdrawn
<1>1. Sound /\ Booked => NeverOverdrawn
  BY DEF Sound, TypeOK, AdvanceType, AdvanceSound, LedgerAgrees, Booked, NeverOverdrawn, HandedOut,
         Outstanding
<1> QED
  BY <1>1, BookedAlways, PTL

\* An advance is closed exactly when nothing is left of it.
THEOREM StatusAlwaysTellsBalance == Spec => []StatusTellsBalance
<1>1. Sound /\ Booked => StatusTellsBalance
  BY DEF Sound, TypeOK, AdvanceType, AdvanceSound, LedgerAgrees, Booked, StatusTellsBalance,
         HandedOut, Outstanding
<1> QED
  BY <1>1, BookedAlways, PTL

-----------------------------------------------------------------------------
(* The journals of the documents. *)

Reading(u) == work[u].op \in {"read", "locked"}

\* A document is approved when it is posted; who approves one has its total,
\* and is alone with it unless it counts as overlapped.
Posting ==
  /\ \A d \in Docs : doc[d].status = "approved" <=> posted[d].times > 0
  /\ \A d \in Docs \ late : posted[d].times = 1 =>
       posted[d].debit = doc[d].total /\ posted[d].credit = doc[d].total
  /\ \A d \in Docs : posted[d].times > 1 => d \in overlapped
  /\ \A u \in Users : Reading(u) =>
       /\ work[u].on \notin late => work[u].total = doc[work[u].on].total
       /\ posted[work[u].on].times > 0 => work[u].on \in overlapped
  /\ \A u, v \in Users : Reading(u) /\ Reading(v) /\ u # v /\ work[u].on = work[v].on =>
       work[u].on \in overlapped

\* A step that leaves the documents and their journals alone, and at most ends
\* an approval.
LEMMA PostingUntouched ==
  ASSUME Posting, UNCHANGED <<doc, posted>>, late \subseteq late', overlapped' = overlapped,
         \A v \in Users : \/ work'[v].op \notin {"read", "locked"}
                          \/ Reading(v) /\ work'[v].on = work[v].on /\ work'[v].total = work[v].total
  PROVE  Posting'
  BY DEF Posting, Reading

\* A step that writes a document which is not approved and that nobody is
\* approving, or a total that counts as late.
LEMMA PostingWritten ==
  ASSUME Sound, Posting, NEW d \in Docs, \A e \in Docs \ {d} : doc'[e] = doc[e],
         UNCHANGED <<posted, overlapped>>, late \subseteq late',
         doc'[d].status = "approved" <=> doc[d].status = "approved",
         doc'[d].total = doc[d].total \/ d \in late'
           \/ (doc[d].status # "approved" /\ \A v \in Users : Reading(v) => work[v].on # d),
         \A v \in Users : work'[v] = work[v] \/ work'[v].op = "none"
  PROVE  Posting'
<1>1. \A v \in Users : Reading(v) => work[v].on \in Docs
  BY DEF Sound, WorkSound, Reading
<1>2. \A e \in Docs : posted[e].times \in Nat
  BY DEF Sound, TypeOK
<1> QED
  BY <1>1, <1>2 DEF Posting, Reading

\* A document that is written and posted in one transaction.
LEMMA PostingAtOnce ==
  ASSUME Sound, Posting, NEW d \in Docs, NEW n \in Nat, doc[d].status = "absent",
         Write(d, "settlement", "approved", n), Post(d, n, n), UNCHANGED <<work, late, overlapped>>
  PROVE  Posting'
<1>1. posted[d].times = 0
  <2>1. posted[d].times \in Nat
    BY DEF Sound, TypeOK
  <2> QED
    BY <2>1 DEF Posting
<1>2. /\ \A e \in Docs \ {d} : doc'[e] = doc[e] /\ posted'[e] = posted[e]
      /\ doc'[d].status = "approved" /\ doc'[d].total = n
      /\ posted'[d].times = 1 /\ posted'[d].debit = n /\ posted'[d].credit = n
  BY <1>1 DEF Sound, TypeOK, Write, Post
<1>3. \A v \in Users : Reading(v) => work[v].on \in Docs \ {d}
  BY DEF Sound, WorkSound, Reading
<1> QED
  BY <1>2, <1>3 DEF Posting, Reading

\* A document that is written, edited or decided before its approval has no journal.
LEMMA DocStepPosting ==
  ASSUME Sound, Posting, NEW d \in Docs, DocStep(d) PROVE Posting'
<1>0. TypeOK
  BY DEF Sound
<1>1. \A v \in Users : Reading(v) => doc[work[v].on].status # "absent"
  BY DEF Sound, WorkSound, Reading
<1>2. ASSUME NEW kind \in Kinds, NEW s \in {"draft", "submitted"}, NEW n \in Amounts,
             doc[d].status = "absent", Write(d, kind, s, n), UNCHANGED <<work, posted, late, overlapped>>
      PROVE  Posting'
  <2>1. (\A e \in Docs \ {d} : doc'[e] = doc[e]) /\ doc'[d].status = s
    BY <1>0, <1>2 DEF Write, TypeOK
  <2> QED
    BY <1>1, <1>2, <2>1, PostingWritten
<1>3. ASSUME NEW n \in Amounts, CreateSettlement(d, n) PROVE Posting'
  BY <1>2, <1>3 DEF CreateSettlement, Kinds, money, history
<1>4. ASSUME NEW n \in Amounts, RequestSelfSettlement(d, n) PROVE Posting'
  BY <1>2, <1>4 DEF RequestSelfSettlement, Kinds, money, history
<1>5. ASSUME NEW n \in Amounts, CreateReturn(d, n) PROVE Posting'
  BY <1>2, <1>5 DEF CreateReturn, Kinds, money, history
<1>6. ASSUME NEW u \in Users, EditDoc(u, d) PROVE Posting'
  <2>1. /\ \A e \in Docs \ {d} : doc'[e] = doc[e]
        /\ doc'[d].status = doc[d].status
        /\ \A v \in Users : work'[v] = work[v] \/ work'[v].op = "none"
    BY <1>0, <1>6 DEF EditDoc, TypeOK, DocType, NoWork
  <2>2. late \subseteq late' /\ UNCHANGED <<posted, overlapped>>
    BY <1>6 DEF EditDoc, MayBeLate, money
  <2>3. d \in late' \/ (doc[d].status # "approved" /\ \A v \in Users : Reading(v) => work[v].on # d)
    BY <1>6 DEF EditDoc, MayBeLate, BeingApproved, Reading
  <2> QED
    BY <2>1, <2>2, <2>3, PostingWritten
<1>7. ASSUME NEW u \in Users, NEW n \in Amounts, AskEditDoc(u, d, n) PROVE Posting'
  <2>1. \A v \in Users : work'[v].op = "edit" \/ work'[v] = work[v]
    BY <1>0, <1>7 DEF AskEditDoc, TypeOK
  <2> QED
    BY <1>7, <2>1, PostingUntouched DEF AskEditDoc, money, history, Reading
<1>8. ASSUME NEW s \in {"submitted", "rejected", "cancelled"}, doc[d].status # "approved",
             doc' = [doc EXCEPT ![d].status = s], UNCHANGED <<work, posted, late, overlapped>>
      PROVE  Posting'
  <2>1. /\ \A e \in Docs \ {d} : doc'[e] = doc[e]
        /\ doc'[d].status = s /\ doc'[d].total = doc[d].total
    BY <1>0, <1>8 DEF TypeOK, DocType
  <2> QED
    BY <1>8, <2>1, PostingWritten
<1>9. CASE SubmitSettlement(d)
  BY <1>8, <1>9 DEF SubmitSettlement, money, history
<1>10. CASE RejectSettlement(d)
  BY <1>8, <1>10 DEF RejectSettlement, money, history
<1>11. CASE CancelReturn(d)
  BY <1>8, <1>11 DEF CancelReturn, money, history
<1> QED
  BY <1>3, <1>4, <1>5, <1>6, <1>7, <1>9, <1>10, <1>11 DEF DocStep

\* The steps that clear the advance post what they approve.
LEMMA ClearStepPosting ==
  ASSUME Sound, Posting, ClearStep PROVE Posting'
<1>0. TypeOK
  BY DEF Sound
<1>1. ASSUME NEW u \in Users, LockForApproval(u) PROVE Posting'
  <2>1. /\ UNCHANGED <<doc, posted, late, overlapped>>
        /\ \A v \in Users : \/ work'[v].op \notin {"read", "locked"}
                            \/ Reading(v) /\ work'[v].on = work[v].on /\ work'[v].total = work[v].total
    BY <1>0, <1>1 DEF LockForApproval, TypeOK, Reading, NoWork, money, history
  <2> QED
    BY <2>1, PostingUntouched
<1>2. ASSUME NEW u \in Users, FinishApproval(u) PROVE Posting'
  <2> DEFINE d == work[u].on
             n == work[u].total
             m == IF doc[d].kind = "settlement" THEN doc[d].total ELSE n
  <2>1. d \in Docs
    BY <1>2, Fits
  <2>2. Reading(u) /\ (d \notin late => n = doc[d].total /\ m = doc[d].total)
    BY <1>2 DEF FinishApproval, Posting, Reading
  <2>3. /\ posted' = [posted EXCEPT ![d] = [times |-> @.times + 1, debit |-> m, credit |-> n]]
        /\ doc' = [doc EXCEPT ![d].status = "approved"]
        /\ work' = [work EXCEPT ![u] = NoWork] /\ UNCHANGED <<late, overlapped>>
    BY <1>2 DEF FinishApproval, Post, history
  <2>4. /\ posted[d].times > 0 => d \in overlapped
        /\ \A v \in Users \ {u} : Reading(v) /\ work[v].on = d => d \in overlapped
    BY <2>2 DEF Posting
  <2> HIDE DEF d, n, m
  <2>5. /\ \A e \in Docs \ {d} : posted'[e] = posted[e] /\ doc'[e] = doc[e]
        /\ posted'[d].times = posted[d].times + 1 /\ posted'[d].debit = m /\ posted'[d].credit = n
        /\ doc'[d].status = "approved" /\ doc'[d].total = doc[d].total /\ posted[d].times \in Nat
    BY <1>0, <2>1, <2>3 DEF TypeOK, DocType
  <2>6. (\A v \in Users \ {u} : work'[v] = work[v]) /\ work'[u].op = "none"
    BY <1>0, <2>3 DEF TypeOK, NoWork
  <2>7. \A v \in Users : Reading(v) => work[v].on \in Docs
    BY DEF Sound, WorkSound, Reading
  <2>8. /\ \A e \in Docs : doc'[e].status = "approved" <=> posted'[e].times > 0
        /\ \A e \in Docs \ late' : posted'[e].times = 1 =>
             posted'[e].debit = doc'[e].total /\ posted'[e].credit = doc'[e].total
        /\ \A e \in Docs : posted'[e].times > 1 => e \in overlapped'
    BY <2>1, <2>2, <2>3, <2>4, <2>5 DEF Posting
  <2>9. /\ \A v \in Users : Reading(v)' =>
             /\ work'[v].on \notin late' => work'[v].total = doc'[work'[v].on].total
             /\ posted'[work'[v].on].times > 0 => work'[v].on \in overlapped'
        /\ \A v, w \in Users : Reading(v)' /\ Reading(w)' /\ v # w /\ work'[v].on = work'[w].on =>
             work'[v].on \in overlapped'
    BY <2>1, <2>3, <2>4, <2>5, <2>6, <2>7 DEF Posting, Reading
  <2> QED
    BY <2>8, <2>9 DEF Posting
<1>3. ASSUME NEW u \in Users, RollBack(u) PROVE Posting'
  <2>1. /\ UNCHANGED <<doc, posted, late, overlapped>>
        /\ \A v \in Users : work'[v].op = "none" \/ work'[v] = work[v]
    BY <1>0, <1>3 DEF RollBack, TypeOK, NoWork, money, history
  <2> QED
    BY <2>1, PostingUntouched DEF Reading
<1>4. ASSUME NEW u \in Users, NEW d \in Docs, ReadForApproval(u, d) PROVE Posting'
  <2>1. /\ \A v \in Users \ {u} : work'[v] = work[v]
        /\ work'[u] = [op |-> "read", on |-> d, total |-> doc[d].total]
        /\ UNCHANGED <<doc, posted, late>> /\ overlapped \subseteq overlapped'
        /\ \A v \in Users : Reading(v) /\ work[v].on = d => d \in overlapped'
    BY <1>0, <1>4 DEF ReadForApproval, TypeOK, money, BeingApproved, Reading
  <2>2. posted[d].times = 0
    <3>1. posted[d].times \in Nat /\ doc[d].status # "approved"
      BY <1>0, <1>4 DEF ReadForApproval, Approvable, TypeOK
    <3> QED
      BY <3>1 DEF Posting
  <2> QED
    BY <2>1, <2>2 DEF Posting, Reading
<1>5. ASSUME NEW d \in Docs, NEW ls \in SUBSET PoLines, SettleFromPOLines(d, ls) PROVE Posting'
  <2>1. Cardinality(ls) \in Nat
    BY <1>5, Fits
  <2> QED
    BY <1>5, <2>1, PostingAtOnce DEF SettleFromPOLines, history
<1>6. ASSUME NEW d \in Docs, NEW n \in Amounts, SettleFromClaim(d, n) PROVE Posting'
  <2>1. n \in Nat
    BY <1>6, Fits
  <2> QED
    BY <1>6, <2>1, PostingAtOnce DEF SettleFromClaim, history
<1> QED
  BY <1>1, <1>2, <1>3, <1>4, <1>5, <1>6 DEF ClearStep

\* Posting is inductive, given Sound.
LEMMA PostingStep == Sound /\ Posting /\ [Next]_vars => Posting'
<1> SUFFICES ASSUME Sound, Posting, [Next]_vars PROVE Posting'
  OBVIOUS
<1>1. ASSUME AdvanceStep PROVE Posting'
  <2>1. UNCHANGED <<doc, posted, overlapped>> /\ late \subseteq late'
    BY <1>1 DEF AdvanceStep, CreateAdvance, RequestSelfAdvance, AskEditAdvance, EditAdvance,
                SubmitAdvance, ApproveAdvance, RejectAdvance, VoidAdvance, MayBeLate, money, history
  <2>2. \/ UNCHANGED work
        \/ \E u \in Users, w \in {NoWork, [op |-> "edit", on |-> Advance, total |-> 0]} :
             work' = [work EXCEPT ![u] = w]
    BY <1>1 DEF AdvanceStep, CreateAdvance, RequestSelfAdvance, AskEditAdvance, EditAdvance,
                SubmitAdvance, ApproveAdvance, RejectAdvance, VoidAdvance
  <2>3. \A v \in Users : work'[v] = work[v] \/ work'[v].op \in {"edit", "none"}
    BY <2>2 DEF NoWork, Sound, TypeOK
  <2> QED
    BY <2>1, <2>3, PostingUntouched DEF Reading
<1>2. CASE UNCHANGED vars
  BY <1>2, PostingUntouched DEF vars, Reading
<1> QED
  BY <1>1, <1>2, DocStepPosting, ClearStepPosting DEF Next

\* Documents, their journals and the requests that approve them always agree.
THEOREM PostingAlways == Spec => [](Sound /\ Posting)
<1>1. Init => Posting
  BY DEF Init, Posting, Reading, NoWork
<1> QED
  BY <1>1, InitSound, SoundStep, PostingStep, PTL DEF Spec

\* The journal of an approved document balances and books its total.
THEOREM AlwaysPostedAsApproved == Spec => []PostedAsApproved
<1>1. Posting => PostedAsApproved
  BY DEF Posting, PostedAsApproved
<1> QED
  BY <1>1, PostingAlways, PTL

\* Only approvals that overlap post a document twice.
THEOREM AlwaysPostedOnce == Spec => []PostedOnce
<1>1. Posting => PostedOnce
  BY DEF Posting, PostedOnce
<1> QED
  BY <1>1, PostingAlways, PTL

-----------------------------------------------------------------------------
(* Purchase order lines. *)

LinesOf(d) == {l \in PoLines : po[l] = d}

\* Nobody is approving or editing a settlement of purchase order lines.
LinesSound ==
  \A d \in Docs : LinesOf(d) # {} =>
    /\ doc[d].status = "approved" /\ doc[d].total = Cardinality(LinesOf(d))
    /\ \A u \in Users : work[u].on # d

\* A step that writes no document with lines, and starts no request on one.
LEMMA LinesUntouched ==
  ASSUME LinesSound, UNCHANGED po,
         \A d \in Docs : doc[d].status = "approved" /\ (\A u \in Users : work[u].on # d) =>
           doc'[d] = doc[d] /\ \A u \in Users : work'[u].on # d
  PROVE  LinesSound'
  BY DEF LinesSound, LinesOf

\* LinesSound is inductive, given Sound.
LEMMA LinesStep == Sound /\ LinesSound /\ [Next]_vars => LinesSound'
<1> SUFFICES ASSUME Sound, LinesSound, [Next]_vars PROVE LinesSound'
  OBVIOUS
<1> USE ConstantsAssumption DEF ConstantsAssumption
<1>0. TypeOK
  BY DEF Sound
<1>1. ASSUME AdvanceStep PROVE LinesSound'
  <2>1. UNCHANGED <<doc, po>>
    BY <1>1 DEF AdvanceStep, CreateAdvance, RequestSelfAdvance, AskEditAdvance, EditAdvance,
                SubmitAdvance, ApproveAdvance, RejectAdvance, VoidAdvance
  <2>2. \/ UNCHANGED work
        \/ \E u \in Users, w \in {NoWork, [op |-> "edit", on |-> Advance, total |-> 0]} :
             work' = [work EXCEPT ![u] = w]
    BY <1>1 DEF AdvanceStep, CreateAdvance, RequestSelfAdvance, AskEditAdvance, EditAdvance,
                SubmitAdvance, ApproveAdvance, RejectAdvance, VoidAdvance
  <2>3. \A v \in Users : work'[v].on = work[v].on \/ work'[v].on \notin Docs
    BY <1>0, <2>2 DEF NoWork, TypeOK
  <2> QED
    BY <2>1, <2>3, LinesUntouched
<1>2. ASSUME NEW d \in Docs, DocStep(d) PROVE LinesSound'
  <2>1. ASSUME NEW x, doc' = [doc EXCEPT ![d] = x], doc[d].status # "approved", UNCHANGED <<po, work>>
        PROVE  LinesSound'
    BY <1>0, <2>1, LinesUntouched DEF TypeOK
  <2>2. ASSUME NEW s, doc' = [doc EXCEPT ![d].status = s], doc[d].status # "approved", UNCHANGED <<po, work>>
        PROVE  LinesSound'
    BY <1>0, <2>2, LinesUntouched DEF TypeOK
  <2>3. ASSUME NEW u \in Users, EditDoc(u, d) PROVE LinesSound'
    <3>1. work[u].on = d /\ doc' = [doc EXCEPT ![d].total = work[u].total]
          /\ work' = [work EXCEPT ![u] = NoWork] /\ UNCHANGED po
      BY <2>3 DEF EditDoc
    <3>2. /\ \A e \in Docs \ {d} : doc'[e] = doc[e]
          /\ \A v \in Users : work'[v].on = work[v].on \/ work'[v].on \notin Docs
      BY <1>0, <3>1 DEF TypeOK, NoWork
    <3> QED
      BY <3>1, <3>2, LinesUntouched
  <2>4. ASSUME NEW u \in Users, NEW n \in Amounts, AskEditDoc(u, d, n) PROVE LinesSound'
    <3>1. /\ \A v \in Users : work'[v].on = work[v].on \/ work'[v].on = d
          /\ doc[d].status # "approved" /\ UNCHANGED <<doc, po>>
      BY <1>0, <2>4 DEF AskEditDoc, TypeOK
    <3> QED
      BY <3>1, LinesUntouched
  <2>5. CASE \E n \in Amounts : CreateSettlement(d, n) \/ RequestSelfSettlement(d, n) \/ CreateReturn(d, n)
    BY <2>1, <2>5 DEF CreateSettlement, RequestSelfSettlement, CreateReturn, Write
  <2>6. CASE SubmitSettlement(d) \/ RejectSettlement(d) \/ CancelReturn(d)
    BY <2>2, <2>6 DEF SubmitSettlement, RejectSettlement, CancelReturn
  <2> QED
    BY <1>2, <2>3, <2>4, <2>5, <2>6 DEF DocStep
<1>3. ASSUME ClearStep PROVE LinesSound'
  <2>1. ASSUME NEW u \in Users, LockForApproval(u) \/ RollBack(u) PROVE LinesSound'
    <3>1. UNCHANGED <<doc, po>>
      BY <2>1 DEF LockForApproval, RollBack
    <3>2. \A v \in Users : work'[v].on = work[v].on \/ work'[v].on \notin Docs
      BY <1>0, <2>1 DEF LockForApproval, RollBack, TypeOK, NoWork
    <3> QED
      BY <3>1, <3>2, LinesUntouched
  <2>2. ASSUME NEW u \in Users, FinishApproval(u) PROVE LinesSound'
    <3>1. work[u].on \in Docs
      BY <2>2, Fits
    <3>2. /\ \A e \in Docs : work[u].on # e => doc'[e] = doc[e]
          /\ \A v \in Users : work'[v].on = work[v].on \/ work'[v].on \notin Docs
          /\ UNCHANGED po
      BY <1>0, <2>2, <3>1 DEF FinishApproval, TypeOK, NoWork
    <3> QED
      BY <3>2, LinesUntouched
  <2>3. ASSUME NEW u \in Users, NEW d \in Docs, ReadForApproval(u, d) PROVE LinesSound'
    <3>1. /\ \A v \in Users : work'[v].on = work[v].on \/ work'[v].on = d
          /\ doc[d].status # "approved" /\ UNCHANGED <<doc, po>>
      BY <1>0, <2>3 DEF ReadForApproval, TypeOK, Approvable
    <3> QED
      BY <3>1, LinesUntouched
  <2>4. ASSUME NEW d \in Docs, NEW ls \in SUBSET PoLines, SettleFromPOLines(d, ls) PROVE LinesSound'
    <3>1. /\ \A e \in Docs \ {d} : doc'[e] = doc[e]
          /\ doc'[d].status = "approved" /\ doc'[d].total = Cardinality(ls)
          /\ work' = work /\ po' = [l \in PoLines |-> IF l \in ls THEN d ELSE po[l]]
          /\ \A l \in ls : po[l] = NoDoc
          /\ doc[d].status = "absent"
      BY <1>0, <2>4 DEF SettleFromPOLines, Write, TypeOK
    <3>2. LinesOf(d) = {}
      BY <3>1 DEF LinesSound
    <3>3. \A l \in PoLines : po[l] # d
      BY <3>2 DEF LinesOf
    <3>4. LinesOf(d)' = ls
      BY <3>1, <3>3 DEF LinesOf
    <3>5. \A e \in Docs \ {d} : LinesOf(e)' = LinesOf(e)
      BY <3>1 DEF LinesOf
    <3>6. \A u \in Users : work[u].on # d
      BY <3>1 DEF Sound, WorkSound
    <3> QED
      BY <3>1, <3>4, <3>5, <3>6 DEF LinesSound
  <2>5. ASSUME NEW d \in Docs, NEW n \in Amounts, SettleFromClaim(d, n) PROVE LinesSound'
    <3>1. /\ \A e \in Docs \ {d} : doc'[e] = doc[e]
          /\ doc[d].status # "approved" /\ UNCHANGED <<work, po>>
      BY <1>0, <2>5 DEF SettleFromClaim, Write, TypeOK
    <3> QED
      BY <3>1, LinesUntouched
  <2> QED
    BY <1>3, <2>1, <2>2, <2>3, <2>4, <2>5 DEF ClearStep
<1>4. CASE UNCHANGED vars
  BY <1>4, LinesUntouched DEF vars
<1> QED
  BY <1>1, <1>2, <1>3, <1>4 DEF Next

\* A purchase order line is paid by one approved settlement of its price.
THEOREM LinesAlwaysSettledOnce == Spec => []LinesSettledOnce
<1>1. Init => LinesSound
  BY ConstantsAssumption DEF Init, LinesSound, LinesOf, ConstantsAssumption
<1>2. LinesSound => LinesSettledOnce
  BY DEF LinesSound, LinesOf, LinesSettledOnce
<1>3. Spec => [](Sound /\ LinesSound)
  BY <1>1, InitSound, SoundStep, LinesStep, PTL DEF Spec
<1> QED
  BY <1>2, <1>3, PTL

-----------------------------------------------------------------------------
(* The advance is an account. *)

\* An advance that is not there is an account that is not open.
LEMMA InitImplements == Init => Balance!Init
  BY DEF Init, Balance!Init, HandedOut

Phase == CASE adv.status = "cancelled" -> "closed" [] HandedOut -> "open" [] OTHER -> "new"
Limit == IF HandedOut THEN adv.amount ELSE 0
Spent == adv.settled + adv.returned

\* A step that leaves the balance alone is no step of the account.
LEMMA StutterImplements ==
  ASSUME UNCHANGED <<Phase, Limit, Spent>> PROVE UNCHANGED Balance!vars
  BY DEF Phase, Limit, Spent, Balance!vars

\* A clearing that fits is a withdrawal.
LEMMA WithdrawalImplements ==
  ASSUME Sound, OpenToClear, NEW kind \in Kinds, NEW n \in Amounts, n <= Outstanding, Clear(kind, n)
  PROVE  Balance!Next
<1>0. /\ TypeOK /\ AdvanceSound
      /\ adv.amount \in Nat /\ adv.settled \in Nat /\ adv.returned \in Nat /\ n \in Nat \ {0}
  BY ConstantsAssumption DEF Sound, TypeOK, AdvanceType, Amounts, ConstantsAssumption
<1>1. /\ HandedOut' /\ adv'.amount = adv.amount
      /\ adv'.settled + adv'.returned = adv.settled + adv.returned + n
  BY <1>0, Clearing
<1>2. adv'.status \in {"settled", "partially_settled"}
  BY <1>0 DEF Clear, TypeOK, AdvanceType
<1>3. Phase = "open" /\ Limit = adv.amount /\ Phase' = "open" /\ Limit' = adv.amount
  BY <1>1, <1>2 DEF Phase, Limit, OpenToClear, HandedOut
<1>4. n <= Limit - Spent /\ Spent' = Spent + n
  BY <1>0, <1>1, <1>3 DEF Spent, Outstanding
<1>5. Balance!Withdraw(n)
  BY <1>3, <1>4 DEF Balance!Withdraw, Phase, Limit, Spent
<1> QED
  BY <1>5 DEF Balance!Next

\* Every step of the advance is a step of the account, or none.
LEMMA StepImplements == Sound /\ [Next]_vars => [Balance!Next]_(Balance!vars)
<1> SUFFICES ASSUME Sound, [Next]_vars PROVE Balance!Next \/ UNCHANGED Balance!vars
  OBVIOUS
<1> USE ConstantsAssumption DEF ConstantsAssumption
<1>0. /\ TypeOK /\ AdvanceSound /\ adv \in AdvanceType
      /\ adv.amount \in Nat /\ adv.settled \in Nat /\ adv.returned \in Nat
  BY DEF Sound, TypeOK, AdvanceType
<1>1. ASSUME UNCHANGED adv PROVE UNCHANGED Balance!vars
  BY <1>1, StutterImplements DEF Phase, Limit, Spent, HandedOut
<1>2. ASSUME AdvanceStep PROVE Balance!Next \/ UNCHANGED Balance!vars
  <2>1. ASSUME NEW n \in Amounts, NEW s \in {"draft", "pending_approval"}, adv.status = "absent",
               adv' = [adv EXCEPT !.status = s, !.amount = n]
        PROVE  UNCHANGED Balance!vars
    BY <1>0, <2>1, StutterImplements DEF Phase, Limit, Spent, HandedOut, AdvanceType
  <2>2. CASE \E n \in Amounts : CreateAdvance(n) \/ RequestSelfAdvance(n)
    BY <2>1, <2>2 DEF CreateAdvance, RequestSelfAdvance
  <2>3. ASSUME NEW u \in Users, AskEditAdvance(u) PROVE UNCHANGED Balance!vars
    BY <1>1, <2>3 DEF AskEditAdvance
  <2>4. ASSUME NEW u \in Users, NEW n \in Amounts, EditAdvance(u, n)
        PROVE  Balance!Next \/ UNCHANGED Balance!vars
    <3>1. /\ adv'.status = adv.status /\ adv'.amount = n
          /\ adv'.settled = adv.settled /\ adv'.returned = adv.returned
          /\ adv.settled + adv.returned <= n
      BY <1>0, <2>4 DEF EditAdvance, AdvanceType
    <3>2. CASE HandedOut
      <4>1. Phase = "open" /\ Phase' = "open" /\ Limit' = n /\ Spent' = Spent /\ Spent <= n
        BY <3>1, <3>2 DEF Phase, Limit, Spent, HandedOut
      <4>2. Balance!Resize(n)
        BY <4>1 DEF Balance!Resize, Phase, Limit, Spent
      <4> QED
        BY <4>2 DEF Balance!Next
    <3>3. CASE ~HandedOut
      BY <3>1, <3>3, StutterImplements DEF Phase, Limit, Spent, HandedOut
    <3> QED
      BY <3>2, <3>3
  <2>5. ASSUME NEW s, adv' = [adv EXCEPT !.status = s]
        PROVE  /\ adv'.status = s /\ adv'.amount = adv.amount
               /\ adv'.settled = adv.settled /\ adv'.returned = adv.returned
    BY <1>0, <2>5 DEF AdvanceType
  <2>6. CASE SubmitAdvance \/ RejectAdvance
    BY <2>5, <2>6, StutterImplements DEF SubmitAdvance, RejectAdvance, Phase, Limit, Spent, HandedOut
  <2>7. CASE ApproveAdvance
    <3>1. Phase = "new" /\ Phase' = "open" /\ Limit' = adv.amount /\ Spent' = 0 /\ adv.amount \in Amounts
      BY <1>0, <2>5, <2>7
      DEF ApproveAdvance, Phase, Limit, Spent, HandedOut, AdvanceSound, Amounts
    <3>2. Balance!Open(adv.amount)
      BY <3>1 DEF Balance!Open, Phase, Limit, Spent
    <3> QED
      BY <3>1, <3>2 DEF Balance!Next
  <2>8. CASE VoidAdvance
    <3>1. Phase = "open" /\ Phase' = "closed" /\ Limit' = 0 /\ Spent = 0 /\ Spent' = 0
      BY <1>0, <2>5, <2>8 DEF VoidAdvance, Phase, Limit, Spent, HandedOut
    <3>2. Balance!Close
      BY <3>1 DEF Balance!Close, Phase, Limit, Spent
    <3> QED
      BY <3>2 DEF Balance!Next
  <2> QED
    BY <1>2, <2>2, <2>3, <2>4, <2>6, <2>7, <2>8 DEF AdvanceStep
<1>3. ASSUME NEW d \in Docs, DocStep(d) PROVE UNCHANGED Balance!vars
  BY <1>1, <1>3 DEF DocStep, CreateSettlement, RequestSelfSettlement, CreateReturn, EditDoc, AskEditDoc,
                    SubmitSettlement, RejectSettlement, CancelReturn
<1>4. ASSUME ClearStep PROVE Balance!Next \/ UNCHANGED Balance!vars
  <2>0. Outstanding \in Int /\ Outstanding <= MaxAmount
    BY <1>0 DEF AdvanceSound, Outstanding
  <2>1. ASSUME NEW u \in Users, LockForApproval(u) \/ RollBack(u) PROVE UNCHANGED Balance!vars
    BY <1>1, <2>1 DEF LockForApproval, RollBack
  <2>2. ASSUME NEW u \in Users, FinishApproval(u) PROVE Balance!Next
    <3>1. /\ OpenToClear /\ work[u].total \in Nat \ {0} /\ work[u].total <= Outstanding
          /\ doc[work[u].on].kind \in Kinds
      BY <2>2, Fits
    <3>2. Clear(doc[work[u].on].kind, work[u].total)
      BY <2>2 DEF FinishApproval
    <3>3. work[u].total \in Amounts
      BY <2>0, <3>1 DEF Amounts
    <3> QED
      BY <3>1, <3>2, <3>3, WithdrawalImplements
  <2>3. ASSUME NEW u \in Users, NEW d \in Docs, ReadForApproval(u, d) PROVE UNCHANGED Balance!vars
    BY <1>1, <2>3 DEF ReadForApproval
  <2>4. ASSUME NEW d \in Docs, NEW ls \in SUBSET PoLines, SettleFromPOLines(d, ls) PROVE Balance!Next
    <3>1. OpenToClear /\ Cardinality(ls) \in Nat \ {0} /\ Cardinality(ls) <= Outstanding
      BY <2>4, Fits
    <3>2. Clear("settlement", Cardinality(ls)) /\ Cardinality(ls) \in Amounts
      BY <2>0, <2>4, <3>1 DEF SettleFromPOLines, Amounts
    <3> QED
      BY <3>1, <3>2, WithdrawalImplements DEF Kinds
  <2>5. ASSUME NEW d \in Docs, NEW n \in Amounts, SettleFromClaim(d, n) PROVE Balance!Next
    <3>1. OpenToClear /\ n <= Outstanding /\ Clear("settlement", n)
      BY <2>5, Fits DEF SettleFromClaim
    <3> QED
      BY <3>1, WithdrawalImplements DEF Kinds
  <2> QED
    BY <1>4, <2>1, <2>2, <2>3, <2>4, <2>5 DEF ClearStep
<1>5. CASE UNCHANGED vars
  BY <1>1, <1>5 DEF vars
<1> QED
  BY <1>2, <1>3, <1>4, <1>5 DEF Next

\* However approvals, claims, purchase orders, edits and a void overlap, the
\* advance behaves as an account of which nobody withdraws more than is left.
THEOREM AdvanceIsAnAccount == Spec => ImplementsAccount
<1> QED
  BY InitImplements, SoundAlways, StepImplements, PTL DEF Spec, ImplementsAccount, Balance!Spec
=============================================================================
