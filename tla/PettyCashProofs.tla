---------------------------- MODULE PettyCashProofs ----------------------------
(***************************************************************************)
(* Theorems about PettyCash for every number of people, claims and         *)
(* replenishments, and every bound on amounts and movements.               *)
(***************************************************************************)
EXTENDS PettyCash, TLAPS

\* A request names what it read; what it takes was in the float when it read.
WorkSound ==
  \A u \in Users :
    /\ On(u, "spend") => work[u].amount <= work[u].balance
    /\ On(u, "top") => work[u].on \in Tops /\ tops[work[u].on] # "absent"
    /\ On(u, "pass") => work[u].on \in Claims /\ claims[work[u].on].status # "absent"

\* The total stays as approved as long as the claim can still be paid.
ClaimSound ==
  \A c \in Claims :
    claims[c].status \in {"approved", "audited", "posted", "paid"} => approved[c] = claims[c].total

\* Who is about to pass a claim has seen the receipt it still has.
SeenSound ==
  \A u \in Users :
    On(u, "pass") /\ work[u].on \notin unproved =>
      (claims[work[u].on].pending => claims[work[u].on].receipt)

Sound ==
  /\ TypeOK /\ WorkSound /\ ClaimSound /\ SeenSound
  /\ BalanceTellsMovements /\ ToppedOnce /\ PaidAsApproved /\ ProvenBeforePaid

-----------------------------------------------------------------------------
FloatStep ==
  \/ UpdateFloat
  \/ \E u \in Users : Spend(u) \/ \E a \in Amounts : AskSpend(u, a)

TopStep ==
  \/ \E t \in Tops : RequestReplenishment(t) \/ RejectReplenishment(t)
  \/ \E u \in Users : Replenish(u) \/ \E t \in Tops, a \in Amounts : AskReplenish(u, t, a)

FileStep(c) ==
  \/ \E a \in Amounts : Create(c, a) \/ \E pending \in BOOLEAN : RequestSelf(c, a, pending)
  \/ \E a \in Amounts, removed \in BOOLEAN, resubmit \in BOOLEAN : Revise(c, a, removed, resubmit)
  \/ AttachFile(c) \/ DetachFile(c)

DecideStep(c) ==
  \/ Submit(c) \/ Approve(c) \/ FailAudit(c) \/ RejectClaim(c) \/ MarkPaid(c)
  \/ PostPayment(c) \/ PostPettyCash(c)

PassStep(u) == PassAudit(u) \/ \E c \in Claims : AskPassAudit(u, c)

\* The steps, in groups.
LEMMA Steps ==
  Next => \/ FloatStep \/ TopStep
          \/ \E c \in Claims : FileStep(c) \/ DecideStep(c)
          \/ \E u \in Users : PassStep(u)
  BY DEF Next, FloatStep, TopStep, FileStep, DecideStep, PassStep

-----------------------------------------------------------------------------
\* Entries of rows that stay in their types.
LEMMA ClaimSets ==
  ASSUME NEW k \in ClaimType
  PROVE  /\ \A s \in Statuses : [k EXCEPT !.status = s] \in ClaimType
         /\ \A s \in Statuses, n \in 0..MaxAmount : [k EXCEPT !.status = s, !.total = n] \in ClaimType
         /\ \A r \in BOOLEAN : [k EXCEPT !.receipt = r] \in ClaimType
         /\ \A s \in Statuses, n \in 0..MaxAmount, r \in BOOLEAN :
              [k EXCEPT !.total = n, !.receipt = r, !.status = s] \in ClaimType
  BY DEF ClaimType

FloatType == [balance : Cash, opening : 0..MaxAmount, active : BOOLEAN]
MovedType == [received : Cash, spent : Cash, count : 0..MaxMoves]

\* Entries of the float stay in its type.
LEMMA FloatSets ==
  ASSUME NEW k \in FloatType
  PROVE  /\ \A n \in Cash : [k EXCEPT !.balance = n] \in FloatType
         /\ \A b \in BOOLEAN : [k EXCEPT !.active = b] \in FloatType
  BY DEF FloatType

\* A movement keeps the sums natural numbers.
LEMMA MovesType ==
  ASSUME moved \in MovedType, NEW m \in Nat, NEW n \in Nat, Moves(m, n)
  PROVE  moved' \in MovedType
<1>1. /\ moved.received \in Nat /\ moved.spent \in Nat
      /\ moved.count \in Nat /\ moved.count < MaxMoves /\ MaxMoves \in Nat
  BY ConstantsAssumption DEF ConstantsAssumption, MovedType, Cash, Moves
<1>2. moved.received + m \in Nat /\ moved.spent + n \in Nat /\ moved.count + 1 \in 0..MaxMoves
  BY <1>1
<1> QED
  BY <1>2 DEF MovedType, Cash, Moves

\* A request that ends keeps the types.
LEMMA Rests == ASSUME TypeOK, NEW u \in Users, Rest(u) PROVE work' \in [Users -> WorkType]
<1>1. NoWork \in WorkType
  BY ConstantsAssumption DEF ConstantsAssumption, NoWork, WorkType, Cash
<1> QED
  BY <1>1 DEF TypeOK, Rest

\* A request that reads the float keeps the types.
LEMMA ReadsType ==
  ASSUME TypeOK, NEW u \in Users, NEW op \in {"spend", "top", "pass"},
         NEW row \in {"none"} \cup Tops \cup Claims, NEW a \in 0..MaxAmount, Reads(u, op, row, a)
  PROVE  work' \in [Users -> WorkType]
<1>1. [op |-> op, on |-> row, balance |-> float.balance, amount |-> a] \in WorkType
  BY DEF TypeOK, WorkType
<1> QED
  BY <1>1 DEF TypeOK, Reads

-----------------------------------------------------------------------------
\* The initial state is sound.
LEMMA InitSound == Init => Sound
<1> SUFFICES ASSUME Init PROVE Sound
  OBVIOUS
<1> USE ConstantsAssumption DEF ConstantsAssumption
<1>1. TypeOK
  <2>1. NoWork \in WorkType
    BY DEF NoWork, WorkType, Cash
  <2>2. NoClaim \in ClaimType
    BY DEF NoClaim, ClaimType, Statuses
  <2>3. float \in FloatType
    BY DEF Init, FloatType, Cash
  <2>4. moved \in MovedType
    BY DEF Init, MovedType, Cash
  <2>5. work \in [Users -> WorkType] /\ claims \in [Claims -> ClaimType]
    BY <2>1, <2>2 DEF Init
  <2>6. /\ tops \in [Tops -> TopStates] /\ posts \in [Tops -> Nat]
        /\ approved \in [Claims -> 0..MaxAmount]
    BY DEF Init, TopStates
  <2>7. [times |-> 0, amount |-> 0] \in [times : Nat, amount : Nat]
    OBVIOUS
  <2>8. paid \in [Claims -> [times : Nat, amount : Nat]]
    BY <2>7 DEF Init
  <2> QED
    BY <2>3, <2>4, <2>5, <2>6, <2>8 DEF Init, TypeOK, FloatType, MovedType
<1>2. WorkSound /\ SeenSound
  BY DEF Init, WorkSound, SeenSound, On, NoWork
<1>3. ClaimSound /\ PaidAsApproved /\ ProvenBeforePaid
  BY DEF Init, ClaimSound, PaidAsApproved, ProvenBeforePaid, NoClaim, Audited
<1>4. BalanceTellsMovements
  BY DEF Init, BalanceTellsMovements
<1>5. ToppedOnce
  BY DEF Init, ToppedOnce
<1> QED
  BY <1>1, <1>2, <1>3, <1>4, <1>5 DEF Sound

\* The steps of the float keep the types: a spend fits into what was read.
LEMMA TypeFloat == ASSUME TypeOK, WorkSound, FloatStep PROVE TypeOK'
<1> USE DEF TypeOK, cash, toppings, claimed
<1>0. float \in FloatType /\ moved \in MovedType
  BY DEF FloatType, MovedType
<1>1. CASE UpdateFloat
  <2>1. float' \in FloatType
    BY <1>0, <1>1, FloatSets DEF UpdateFloat, FloatType
  <2> QED
    BY <1>1, <2>1 DEF UpdateFloat, FloatType
<1>2. ASSUME NEW u \in Users, Spend(u) PROVE TypeOK'
  <2>1. work[u].balance - work[u].amount \in Cash /\ work[u].amount \in Nat
    BY <1>2, ConstantsAssumption DEF ConstantsAssumption, Spend, WorkSound, WorkType, Cash
  <2>2. float' \in FloatType
    BY <1>0, <1>2, <2>1, FloatSets DEF Spend, Writes
  <2>3. moved' \in MovedType
    BY <1>0, <1>2, <2>1, MovesType DEF Spend
  <2>4. work' \in [Users -> WorkType]
    BY <1>2, Rests DEF Spend
  <2> QED
    BY <1>2, <2>2, <2>3, <2>4 DEF Spend, Writes, FloatType, MovedType
<1>3. ASSUME NEW u \in Users, NEW a \in Amounts, AskSpend(u, a) PROVE TypeOK'
  <2>1. work' \in [Users -> WorkType]
    BY <1>3, ReadsType, ConstantsAssumption DEF ConstantsAssumption, AskSpend, Amounts
  <2> QED
    BY <1>3, <2>1 DEF AskSpend
<1> QED
  BY <1>1, <1>2, <1>3 DEF FloatStep

\* So do the steps of replenishments.
LEMMA TypeTop == ASSUME TypeOK, WorkSound, TopStep PROVE TypeOK'
<1> USE DEF TypeOK, cash, toppings, claimed
<1>0. float \in FloatType /\ moved \in MovedType
  BY DEF FloatType, MovedType
<1>1. ASSUME NEW t \in Tops, RequestReplenishment(t) \/ RejectReplenishment(t) PROVE TypeOK'
  BY <1>1 DEF RequestReplenishment, RejectReplenishment, TopStates
<1>2. ASSUME NEW u \in Users, Replenish(u) PROVE TypeOK'
  <2>1. work[u].on \in Tops /\ work[u].balance + work[u].amount \in Cash /\ work[u].amount \in Nat
    BY <1>2, ConstantsAssumption DEF ConstantsAssumption, Replenish, WorkSound, WorkType, Cash
  <2>2. float' \in FloatType
    BY <1>0, <1>2, <2>1, FloatSets DEF Replenish, Writes
  <2>3. moved' \in MovedType
    BY <1>0, <1>2, <2>1, MovesType DEF Replenish
  <2>4. work' \in [Users -> WorkType]
    BY <1>2, Rests DEF Replenish
  <2>5. tops' \in [Tops -> TopStates] /\ posts' \in [Tops -> Nat] /\ late' \subseteq Tops
    BY <1>2, <2>1 DEF Replenish, TopStates
  <2> QED
    BY <1>2, <2>2, <2>3, <2>4, <2>5 DEF Replenish, Writes, FloatType, MovedType
<1>3. ASSUME NEW u \in Users, NEW t \in Tops, NEW a \in Amounts, AskReplenish(u, t, a) PROVE TypeOK'
  <2>0. t \in {"none"} \cup Tops \cup Claims /\ a \in 0..MaxAmount
    BY ConstantsAssumption DEF ConstantsAssumption, Amounts
  <2>1. work' \in [Users -> WorkType]
    BY <1>3, <2>0, ReadsType DEF AskReplenish
  <2> QED
    BY <1>3, <2>1 DEF AskReplenish
<1> QED
  BY <1>1, <1>2, <1>3 DEF TopStep

\* So do the steps that write a claim.
LEMMA TypeFile == ASSUME TypeOK, NEW c \in Claims, FileStep(c) PROVE TypeOK'
<1> USE DEF TypeOK, cash, toppings
<1>0. claims[c] \in ClaimType /\ claims[c].status \in Statuses /\ claims[c].receipt \in BOOLEAN
  BY DEF ClaimType
<1>1. ASSUME NEW a \in Amounts, Create(c, a) PROVE TypeOK'
  <2>1. [claims[c] EXCEPT !.status = "draft", !.total = a] \in ClaimType
    <3>1. "draft" \in Statuses /\ a \in 0..MaxAmount
      BY ConstantsAssumption DEF ConstantsAssumption, Amounts, Statuses
    <3> QED
      BY <1>0, <3>1, ClaimSets
  <2> QED
    BY <1>1, <2>1 DEF Create
<1>2. ASSUME NEW a \in Amounts, NEW pending \in BOOLEAN, RequestSelf(c, a, pending) PROVE TypeOK'
  <2>1. [status |-> "submitted", total |-> a, pending |-> pending, receipt |-> FALSE] \in ClaimType
    BY ConstantsAssumption DEF ConstantsAssumption, Amounts, Statuses, ClaimType
  <2> QED
    BY <1>2, <2>1 DEF RequestSelf
<1>3. ASSUME NEW a \in Amounts, NEW removed \in BOOLEAN, NEW resubmit \in BOOLEAN,
             Revise(c, a, removed, resubmit)
      PROVE  TypeOK'
  <2> DEFINE k == [claims[c] EXCEPT !.total = a, !.receipt = @ /\ ~removed,
                                    !.status = IF resubmit THEN "submitted" ELSE @]
  <2>1. a \in 0..MaxAmount /\ (claims[c].receipt /\ ~removed) \in BOOLEAN
        /\ (IF resubmit THEN "submitted" ELSE claims[c].status) \in Statuses
    BY <1>0, ConstantsAssumption DEF ConstantsAssumption, Amounts, Statuses
  <2>2. k \in ClaimType
    BY <1>0, <2>1, ClaimSets
  <2> QED
    BY <1>3, <2>2 DEF Revise
<1>4. CASE AttachFile(c)
  BY <1>0, <1>4, ClaimSets DEF AttachFile
<1>5. CASE DetachFile(c)
  BY <1>0, <1>5, ClaimSets DEF DetachFile
<1> QED
  BY <1>1, <1>2, <1>3, <1>4, <1>5 DEF FileStep

\* A new status leaves a claim a claim.
LEMMA SetStatusType ==
  ASSUME TypeOK, NEW c \in Claims, NEW from, NEW to \in Statuses, SetStatus(c, from, to)
  PROVE  claims' \in [Claims -> ClaimType]
  BY ClaimSets DEF TypeOK, SetStatus

\* So do the decisions on a claim and its payment.
LEMMA TypeDecide == ASSUME TypeOK, NEW c \in Claims, DecideStep(c) PROVE TypeOK'
<1> USE DEF TypeOK, cash, toppings
<1>0. /\ float \in FloatType /\ moved \in MovedType
      /\ claims[c].total \in Nat /\ claims[c].total \in 0..MaxAmount
      /\ float.balance \in Nat
  BY ConstantsAssumption DEF ConstantsAssumption, FloatType, MovedType, ClaimType, Cash
<1>1. CASE Submit(c) \/ FailAudit(c) \/ RejectClaim(c) \/ MarkPaid(c)
  BY <1>1, SetStatusType DEF Submit, FailAudit, RejectClaim, MarkPaid, Statuses, Audited
<1>2. CASE Approve(c)
  BY <1>0, <1>2, SetStatusType DEF Approve, Statuses
<1>3. ASSUME Pays(c)
      PROVE  claims' \in [Claims -> ClaimType] /\ paid' \in [Claims -> [times : Nat, amount : Nat]]
  <2>1. claims' \in [Claims -> ClaimType]
    BY <1>3, SetStatusType DEF Pays, Statuses, Audited
  <2>2. [times |-> paid[c].times + 1, amount |-> paid[c].amount + claims[c].total] \in [times : Nat, amount : Nat]
    BY <1>0
  <2> QED
    BY <1>3, <2>1, <2>2 DEF Pays
<1>4. CASE PostPayment(c)
  BY <1>3, <1>4 DEF PostPayment, Pays
<1>5. CASE PostPettyCash(c)
  <2>1. float.balance - claims[c].total \in Cash
    BY <1>0, <1>5 DEF PostPettyCash, Cash
  <2>2. float' \in FloatType
    BY <1>0, <1>5, <2>1, FloatSets DEF PostPettyCash
  <2>3. moved' \in MovedType
    BY <1>0, <1>5, MovesType DEF PostPettyCash
  <2> QED
    BY <1>3, <1>5, <2>2, <2>3 DEF PostPettyCash, Pays, FloatType, MovedType
<1> QED
  BY <1>1, <1>2, <1>4, <1>5 DEF DecideStep

\* So does the audit.
LEMMA TypePass == ASSUME TypeOK, WorkSound, NEW u \in Users, PassStep(u) PROVE TypeOK'
<1> USE DEF TypeOK, cash, toppings, claimed
<1>1. CASE PassAudit(u)
  <2>1. work' \in [Users -> WorkType]
    BY <1>1, Rests DEF PassAudit
  <2>2. claims' \in [Claims -> ClaimType]
    BY <1>1, SetStatusType DEF PassAudit, WorkSound, Statuses, Audited
  <2> QED
    BY <1>1, <2>1, <2>2 DEF PassAudit
<1>2. ASSUME NEW c \in Claims, AskPassAudit(u, c) PROVE TypeOK'
  <2>0. c \in {"none"} \cup Tops \cup Claims /\ 0 \in 0..MaxAmount
    BY ConstantsAssumption DEF ConstantsAssumption
  <2>1. work' \in [Users -> WorkType]
    BY <1>2, <2>0, ReadsType DEF AskPassAudit
  <2> QED
    BY <1>2, <2>1 DEF AskPassAudit
<1> QED
  BY <1>1, <1>2 DEF PassStep
\* TypeOK is inductive, given WorkSound.
LEMMA StepType == ASSUME TypeOK, WorkSound, [Next]_vars PROVE TypeOK'
<1>1. CASE UNCHANGED vars
  BY <1>1 DEF vars, TypeOK
<1> QED
  BY <1>1, Steps, TypeFloat, TypeTop, TypeFile, TypeDecide, TypePass

-----------------------------------------------------------------------------
\* What a change of status, and a revision, leave of a claim.
LEMMA StatusSet ==
  ASSUME TypeOK, NEW c \in Claims, NEW from, NEW to, SetStatus(c, from, to)
  PROVE  /\ claims[c].status \in from
         /\ claims'[c].status = to /\ claims'[c].total = claims[c].total
         /\ claims'[c].pending = claims[c].pending /\ claims'[c].receipt = claims[c].receipt
         /\ \A d \in Claims \ {c} : claims'[d] = claims[d]
  BY DEF SetStatus, TypeOK, ClaimType

\* A revision starts and ends before the approval.
LEMMA Revised ==
  ASSUME TypeOK, NEW c \in Claims, NEW a, NEW removed \in BOOLEAN, NEW resubmit \in BOOLEAN,
         Revise(c, a, removed, resubmit)
  PROVE  /\ claims[c].status \in {"draft", "rejected"}
         /\ claims'[c].status \in {"draft", "rejected", "submitted"}
         /\ claims'[c].pending = claims[c].pending
         /\ claims'[c].receipt = (claims[c].receipt /\ ~removed)
         /\ \A d \in Claims \ {c} : claims'[d] = claims[d]
<1>1. /\ claims \in [Claims -> ClaimType]
      /\ claims' = [claims EXCEPT ![c].total = a, ![c].receipt = @ /\ ~removed,
                                  ![c].status = IF resubmit THEN "submitted" ELSE @]
  BY DEF TypeOK, Revise
<1>2. claims'[c] = [claims[c] EXCEPT !.total = a, !.receipt = claims[c].receipt /\ ~removed,
                                   !.status = IF resubmit THEN "submitted" ELSE claims[c].status]
  BY <1>1
<1>3. \A d \in Claims \ {c} : claims'[d] = claims[d]
  BY <1>1
<1>4. claims[c] \in ClaimType
  BY <1>1
<1>5. /\ claims'[c].status = IF resubmit THEN "submitted" ELSE claims[c].status
      /\ claims'[c].pending = claims[c].pending
  BY <1>2, <1>4 DEF ClaimType
<1>6. claims'[c].receipt = (claims[c].receipt /\ ~removed)
  BY <1>2, <1>4 DEF ClaimType
<1> QED
  BY <1>3, <1>5, <1>6 DEF Revise

\* The requests, and the row each of them is about.
LEMMA StepWork == ASSUME TypeOK, WorkSound, [Next]_vars PROVE WorkSound'
<1> USE DEF TypeOK, WorkSound, On, WorkType, NoWork, ClaimType
<1>0. ASSUME work' = work,
             \A t \in Tops : tops[t] # "absent" => tops'[t] # "absent",
             \A c \in Claims : claims[c].status # "absent" => claims'[c].status # "absent"
      PROVE  WorkSound'
  BY <1>0
<1>1. CASE UpdateFloat
  BY <1>0, <1>1 DEF UpdateFloat, toppings, claimed
<1>2. ASSUME NEW u \in Users, Spend(u) PROVE WorkSound'
  BY <1>2 DEF Spend, Rest, toppings, claimed
<1>3. ASSUME NEW u \in Users, NEW a \in Amounts, AskSpend(u, a) PROVE WorkSound'
  BY <1>3 DEF AskSpend, Reads, toppings, claimed
<1>4. ASSUME NEW t \in Tops, RequestReplenishment(t) \/ RejectReplenishment(t) PROVE WorkSound'
  BY <1>0, <1>4 DEF RequestReplenishment, RejectReplenishment, claimed
<1>5. ASSUME NEW u \in Users, Replenish(u) PROVE WorkSound'
  BY <1>5 DEF Replenish, Rest, claimed
<1>6. ASSUME NEW u \in Users, NEW t \in Tops, NEW a \in Amounts, AskReplenish(u, t, a) PROVE WorkSound'
  BY <1>6 DEF AskReplenish, Reads, toppings, claimed
<1>7. ASSUME NEW c \in Claims, FileStep(c) PROVE WorkSound'
  <2>1. CASE \E a \in Amounts : Create(c, a) \/ \E pending \in BOOLEAN : RequestSelf(c, a, pending)
    BY <1>0, <2>1 DEF Create, RequestSelf, toppings
  <2>2. ASSUME NEW a \in Amounts, NEW removed \in BOOLEAN, NEW resubmit \in BOOLEAN,
               Revise(c, a, removed, resubmit)
        PROVE  WorkSound'
    <3>1. \A d \in Claims : claims[d].status # "absent" => claims'[d].status # "absent"
      BY <2>2, Revised
    <3> QED
      BY <1>0, <2>2, <3>1 DEF Revise, toppings
  <2>3. CASE AttachFile(c) \/ DetachFile(c)
    BY <1>0, <2>3 DEF AttachFile, DetachFile, toppings
  <2> QED
    BY <1>7, <2>1, <2>2, <2>3 DEF FileStep
<1>8. ASSUME NEW c \in Claims, DecideStep(c) PROVE WorkSound'
  <2>1. /\ work' = work /\ tops' = tops
        /\ \A d \in Claims : claims[d].status # "absent" => claims'[d].status # "absent"
    BY <1>8 DEF DecideStep, Submit, Approve, FailAudit, RejectClaim, MarkPaid, PostPayment,
                PostPettyCash, Pays, SetStatus, toppings
  <2> QED
    BY <1>0, <2>1
<1>9. ASSUME NEW u \in Users, PassAudit(u) PROVE WorkSound'
  <2>1. \A d \in Claims : claims[d].status # "absent" => claims'[d].status # "absent"
    <3>1. CASE UNCHANGED claims
      BY <3>1
    <3>2. CASE SetStatus(work[u].on, {"approved"}, "audited")
      BY <1>9, <3>2, StatusSet DEF PassAudit
    <3> QED
      BY <1>9, <3>1, <3>2 DEF PassAudit
  <2>2. \A v \in Users : work'[v] = work[v] \/ work'[v].op = "none"
    BY <1>9 DEF PassAudit, Rest
  <2> QED
    BY <1>9, <2>1, <2>2 DEF PassAudit, toppings
<1>10. ASSUME NEW u \in Users, NEW c \in Claims, AskPassAudit(u, c) PROVE WorkSound'
  BY <1>10 DEF AskPassAudit, Reads, toppings, claimed
<1>11. CASE UNCHANGED vars
  BY <1>0, <1>11 DEF vars
<1> QED
  BY <1>1, <1>2, <1>3, <1>4, <1>5, <1>6, <1>7, <1>8, <1>9, <1>10, <1>11, Steps
  DEF FloatStep, TopStep, PassStep

\* The cash: every movement that is not late moves the balance by its amount.
LEMMA StepBalance ==
  ASSUME TypeOK, WorkSound, BalanceTellsMovements, [Next]_vars
  PROVE  BalanceTellsMovements'
<1> USE DEF TypeOK, BalanceTellsMovements, Cash
<1>0. ASSUME UNCHANGED cash PROVE BalanceTellsMovements'
  BY <1>0 DEF cash
<1>1. CASE UpdateFloat
  BY <1>1 DEF UpdateFloat
<1>2. ASSUME NEW u \in Users, Spend(u) PROVE BalanceTellsMovements'
  <2>1. /\ float'.balance = work[u].balance - work[u].amount /\ float'.opening = float.opening
        /\ moved'.spent = moved.spent + work[u].amount /\ moved'.received = moved.received + 0
        /\ ~crossed' => ~crossed /\ work[u].balance = float.balance
    BY <1>2 DEF Spend, Moves, Writes
  <2>2. /\ work[u].balance \in Nat /\ work[u].amount \in Int /\ moved.spent \in Nat
        /\ moved.received \in Nat /\ float.opening \in Int
    BY ConstantsAssumption DEF ConstantsAssumption, WorkType
  <2> QED
    BY <2>1, <2>2
<1>3. ASSUME NEW u \in Users, Replenish(u) PROVE BalanceTellsMovements'
  <2>1. /\ float'.balance = work[u].balance + work[u].amount /\ float'.opening = float.opening
        /\ moved'.spent = moved.spent + 0 /\ moved'.received = moved.received + work[u].amount
        /\ ~crossed' => ~crossed /\ work[u].balance = float.balance
    BY <1>3 DEF Replenish, Moves, Writes
  <2>2. /\ work[u].balance \in Nat /\ work[u].amount \in Int /\ moved.spent \in Nat
        /\ moved.received \in Nat /\ float.opening \in Int
    BY ConstantsAssumption DEF ConstantsAssumption, WorkType
  <2> QED
    BY <2>1, <2>2
<1>4. ASSUME NEW c \in Claims, PostPettyCash(c) PROVE BalanceTellsMovements'
  BY <1>4, ConstantsAssumption DEF ConstantsAssumption, PostPettyCash, Moves, ClaimType
<1>5. ASSUME NEW c \in Claims, FileStep(c) PROVE UNCHANGED cash
  BY <1>5 DEF FileStep, Create, RequestSelf, Revise, AttachFile, DetachFile
<1>6. ASSUME NEW c \in Claims, DecideStep(c), ~PostPettyCash(c) PROVE UNCHANGED cash
  BY <1>6 DEF DecideStep, Submit, Approve, FailAudit, RejectClaim, MarkPaid, PostPayment
<1>7. ASSUME NEW u \in Users, PassStep(u) PROVE UNCHANGED cash
  BY <1>7 DEF PassStep, PassAudit, AskPassAudit
<1>8. ASSUME FloatStep, ~UpdateFloat, ~\E u \in Users : Spend(u) PROVE UNCHANGED cash
  BY <1>8 DEF FloatStep, AskSpend
<1>9. ASSUME TopStep, ~\E u \in Users : Replenish(u) PROVE UNCHANGED cash
  BY <1>9 DEF TopStep, RequestReplenishment, RejectReplenishment, AskReplenish
<1>10. CASE UNCHANGED vars
  BY <1>10 DEF vars, cash
<1> QED
  BY <1>0, <1>1, <1>2, <1>3, <1>4, <1>5, <1>6, <1>7, <1>8, <1>9, <1>10, Steps

\* The replenishments.
LEMMA StepTops == ASSUME TypeOK, WorkSound, ToppedOnce, [Next]_vars PROVE ToppedOnce'
<1> USE DEF TypeOK, ToppedOnce
<1>0. ASSUME UNCHANGED toppings PROVE ToppedOnce'
  BY <1>0 DEF toppings
<1>1. ASSUME NEW t \in Tops, RequestReplenishment(t) \/ RejectReplenishment(t) PROVE ToppedOnce'
  BY <1>1 DEF RequestReplenishment, RejectReplenishment
<1>2. ASSUME NEW u \in Users, Replenish(u) PROVE ToppedOnce'
  <2>1. work[u].on \in Tops
    BY <1>2 DEF Replenish, WorkSound
  <2> QED
    BY <1>2, <2>1 DEF Replenish
<1>3. ASSUME NEW u \in Users, NEW t \in Tops, NEW a \in Amounts, AskReplenish(u, t, a)
      PROVE  UNCHANGED toppings
  BY <1>3 DEF AskReplenish
<1>4. ASSUME FloatStep PROVE UNCHANGED toppings
  BY <1>4 DEF FloatStep, UpdateFloat, Spend, AskSpend
<1>5. ASSUME NEW c \in Claims, FileStep(c) PROVE UNCHANGED toppings
  BY <1>5 DEF FileStep, Create, RequestSelf, Revise, AttachFile, DetachFile
<1>6. ASSUME NEW c \in Claims, DecideStep(c) PROVE UNCHANGED toppings
  BY <1>6 DEF DecideStep, Submit, Approve, FailAudit, RejectClaim, MarkPaid, PostPayment,
              PostPettyCash, Pays
<1>7. ASSUME NEW u \in Users, PassStep(u) PROVE UNCHANGED toppings
  BY <1>7 DEF PassStep, PassAudit, AskPassAudit
<1>8. CASE UNCHANGED vars
  BY <1>8 DEF vars, toppings
<1> QED
  BY <1>0, <1>1, <1>2, <1>3, <1>4, <1>5, <1>6, <1>7, <1>8, Steps DEF TopStep

-----------------------------------------------------------------------------
\* The claims: what is paid is what was approved, and the receipt was seen.
ClaimsSound == ClaimSound /\ PaidAsApproved /\ ProvenBeforePaid /\ SeenSound

\* The steps that write a claim keep the claims in order.
LEMMA FileClaims ==
  ASSUME TypeOK, WorkSound, ClaimsSound, NEW c \in Claims, FileStep(c) PROVE ClaimsSound'
<1>0. ASSUME NEW a \in Amounts, NEW removed \in BOOLEAN, NEW resubmit \in BOOLEAN,
             Revise(c, a, removed, resubmit)
      PROVE  /\ claims[c].status \in {"draft", "rejected"}
             /\ claims'[c].status \in {"draft", "rejected", "submitted"}
             /\ claims'[c].pending = claims[c].pending
             /\ claims'[c].receipt = (claims[c].receipt /\ ~removed)
             /\ \A d \in Claims \ {c} : claims'[d] = claims[d]
  BY <1>0, Revised
<1> USE DEF TypeOK, ClaimsSound, ClaimSound, PaidAsApproved, ProvenBeforePaid, SeenSound, WorkSound, On, Audited
<1>1. ASSUME NEW a \in Amounts, Create(c, a) PROVE ClaimsSound'
  BY <1>1 DEF Create
<1>2. ASSUME NEW a \in Amounts, NEW pending \in BOOLEAN, RequestSelf(c, a, pending) PROVE ClaimsSound'
  BY <1>2 DEF RequestSelf
<1>3. ASSUME NEW a \in Amounts, NEW removed \in BOOLEAN, NEW resubmit \in BOOLEAN,
             Revise(c, a, removed, resubmit)
      PROVE  ClaimsSound'
  <2>1. /\ claims[c].status \in {"draft", "rejected"}
        /\ claims'[c].status \in {"draft", "rejected", "submitted"}
        /\ claims'[c].pending = claims[c].pending
        /\ claims'[c].receipt = (claims[c].receipt /\ ~removed)
        /\ \A d \in Claims \ {c} : claims'[d] = claims[d]
    BY <1>0, <1>3
  <2>2. /\ UNCHANGED <<work, paid, approved>>
        /\ unproved' = IF removed /\ Auditing(c) THEN unproved \cup {c} ELSE unproved
    BY <1>3 DEF Revise
  <2>3. ClaimSound' /\ PaidAsApproved'
    BY <2>1, <2>2
  <2>4. unproved \subseteq unproved' /\ claims'[c].status \notin Audited
    BY <2>1, <2>2
  <2>5. ProvenBeforePaid'
    BY <2>1, <2>4
  <2>6. SeenSound'
    BY <2>1, <2>2 DEF Auditing
  <2> QED
    BY <2>3, <2>5, <2>6
<1>4. CASE AttachFile(c)
  BY <1>4 DEF AttachFile
<1>5. CASE DetachFile(c)
  BY <1>5 DEF DetachFile
<1> QED
  BY <1>1, <1>2, <1>3, <1>4, <1>5 DEF FileStep

\* So do the decisions on a claim and its payment.
LEMMA DecideClaims ==
  ASSUME TypeOK, WorkSound, ClaimsSound, NEW c \in Claims, DecideStep(c) PROVE ClaimsSound'
<1> USE DEF TypeOK, ClaimsSound, ClaimSound, PaidAsApproved, ProvenBeforePaid, SeenSound, WorkSound, On, Audited, SetStatus
<1>1. CASE Submit(c) \/ FailAudit(c) \/ RejectClaim(c)
  <2>1. PICK from \in {{"draft"}, {"approved"}, {"submitted", "approved"}},
             to \in {"submitted", "draft", "rejected"} : SetStatus(c, from, to)
    BY <1>1 DEF Submit, FailAudit, RejectClaim
  <2>2. /\ claims[c].status \notin {"posted", "paid"}
        /\ claims'[c].status \in {"submitted", "draft", "rejected"}
        /\ claims'[c].pending = claims[c].pending /\ claims'[c].receipt = claims[c].receipt
        /\ \A d \in Claims \ {c} : claims'[d] = claims[d]
    BY <2>1, StatusSet
  <2>3. UNCHANGED <<work, paid, approved, unproved>>
    BY <1>1 DEF Submit, FailAudit, RejectClaim
  <2> QED
    BY <2>2, <2>3
<1>2. CASE MarkPaid(c)
  BY <1>2 DEF MarkPaid
<1>3. CASE Approve(c)
  BY <1>3 DEF Approve
<1>4. CASE PostPayment(c) \/ PostPettyCash(c)
  <2>1. Pays(c)
    BY <1>4 DEF PostPayment, PostPettyCash
  <2>2. claims[c].total \in Nat /\ claims[c].status \notin {"posted", "paid"}
    BY <2>1, ConstantsAssumption DEF ConstantsAssumption, ClaimType, Pays
  <2>3. paid'[c] = [times |-> 1, amount |-> approved[c]]
    BY <2>1, <2>2 DEF Pays
  <2> QED
    BY <2>1, <2>3 DEF Pays
<1> QED
  BY <1>1, <1>2, <1>3, <1>4 DEF DecideStep

\* So does the audit.
LEMMA PassClaims ==
  ASSUME TypeOK, WorkSound, ClaimsSound, NEW u \in Users, PassStep(u) PROVE ClaimsSound'
<1> USE DEF TypeOK, ClaimsSound, ClaimSound, PaidAsApproved, ProvenBeforePaid, SeenSound, WorkSound, On, Audited, NoWork
<1>1. CASE PassAudit(u)
  <2>1. /\ work[u].op = "pass" /\ work[u].on \in Claims
        /\ UNCHANGED <<paid, approved, unproved>>
        /\ \A v \in Users : work'[v] = work[v] \/ work'[v].op = "none"
    BY <1>1 DEF PassAudit, Rest
  <2>2. CASE UNCHANGED claims
    BY <2>1, <2>2
  <2>3. CASE SetStatus(work[u].on, {"approved"}, "audited")
    <3> DEFINE c == work[u].on
    <3>1. /\ claims[c].status = "approved" /\ claims'[c].status = "audited"
          /\ claims'[c].total = claims[c].total
          /\ claims'[c].pending = claims[c].pending /\ claims'[c].receipt = claims[c].receipt
          /\ \A d \in Claims \ {c} : claims'[d] = claims[d]
      BY <2>1, <2>3, StatusSet
    <3>2. c \in unproved \/ (claims[c].pending => claims[c].receipt)
      BY <2>1
    <3> QED
      BY <2>1, <3>1, <3>2
  <2> QED
    BY <1>1, <2>2, <2>3 DEF PassAudit
<1>2. ASSUME NEW c \in Claims, AskPassAudit(u, c) PROVE ClaimsSound'
  BY <1>2 DEF AskPassAudit, Reads, claimed
<1> QED
  BY <1>1, <1>2 DEF PassStep

\* ClaimsSound is inductive, given types and requests.
LEMMA StepClaims == ASSUME TypeOK, WorkSound, ClaimsSound, [Next]_vars PROVE ClaimsSound'
<1> USE DEF ClaimsSound, ClaimSound, PaidAsApproved, ProvenBeforePaid, SeenSound, On
<1>0. ASSUME UNCHANGED claimed, \A u \in Users : On(u, "pass")' => work'[u] = work[u]
      PROVE  ClaimsSound'
  BY <1>0 DEF claimed
<1>1. ASSUME FloatStep PROVE ClaimsSound'
  BY <1>0, <1>1 DEF FloatStep, UpdateFloat, Spend, AskSpend, Rest, Reads, NoWork, TypeOK
<1>2. ASSUME TopStep PROVE ClaimsSound'
  BY <1>0, <1>2 DEF TopStep, RequestReplenishment, RejectReplenishment, Replenish, AskReplenish,
                    Rest, Reads, NoWork, TypeOK
<1>3. CASE UNCHANGED vars
  BY <1>0, <1>3 DEF vars, claimed
<1> QED
  BY <1>1, <1>2, <1>3, Steps, FileClaims, DecideClaims, PassClaims

-----------------------------------------------------------------------------
\* Sound is inductive.
LEMMA StepSound == Sound /\ [Next]_vars => Sound'
  BY StepType, StepWork, StepBalance, StepTops, StepClaims DEF Sound, ClaimsSound

\* The inductive invariant: the types, the requests, the cash and the claims.
THEOREM SoundAlways == Spec => []Sound
  BY InitSound, StepSound, PTL DEF Spec

\* The balance of a float stays within the natural numbers, and every request
\* names a row there is, for any number of people and claims.
THEOREM TypeCorrect == Spec => []TypeOK
<1>1. Sound => TypeOK
  BY DEF Sound
<1> QED
  BY <1>1, SoundAlways, PTL

\* The balance is the sum of the movements, unless one of the two handlers
\* that do not lock was overtaken; the payment of a claim never is.
THEOREM BalanceAlwaysTellsMovements == Spec => []BalanceTellsMovements
<1>1. Sound => BalanceTellsMovements
  BY DEF Sound
<1> QED
  BY <1>1, SoundAlways, PTL

\* A replenishment is posted once, unless it was decided during its approval.
THEOREM AlwaysToppedOnce == Spec => []ToppedOnce
<1>1. Sound => ToppedOnce
  BY DEF Sound
<1> QED
  BY <1>1, SoundAlways, PTL

\* A claim is paid once and as approved, through any number of rejections,
\* failed audits and revisions.
THEOREM AlwaysPaidAsApproved == Spec => []PaidAsApproved
<1>1. Sound => PaidAsApproved
  BY DEF Sound
<1> QED
  BY <1>1, SoundAlways, PTL

\* A claim filed without a receipt has one when it is paid, with the two ways
\* around that the property names.
THEOREM AlwaysProvenBeforePaid == Spec => []ProvenBeforePaid
<1>1. Sound => ProvenBeforePaid
  BY DEF Sound
<1> QED
  BY <1>1, SoundAlways, PTL
=============================================================================
