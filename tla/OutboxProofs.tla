---------------------------- MODULE OutboxProofs ----------------------------
(***************************************************************************)
(* Theorems about Outbox for every number of rows, overlapping runs,       *)
(* administrators, and every value of the limits.                          *)
(***************************************************************************)
EXTENDS Outbox, WellFoundedInduction, TLAPS

-----------------------------------------------------------------------------
(* The row in hand. *)

\* A non-empty set of rows has a first one, so the loop always has a row.
LEMMA FirstRow ==
  ASSUME NEW S, S \subseteq Rows, S # {}
  PROVE  \E r \in S : \A q \in S : r <= q
<1>1. S \subseteq Nat
  BY ConstantsAssumption DEF Rows, ConstantsAssumption
<1>2. \E r \in S : \A q \in S : ~(<<q, r>> \in OpToRel(<, Nat))
  BY <1>1, NatLessThanWellFounded, WFMin
<1>3. PICK r \in S : \A q \in S : ~(<<q, r>> \in OpToRel(<, Nat))
  BY <1>2
<1>4. \A q \in S : ~(q < r)
  BY <1>1, <1>3 DEF OpToRel
<1> QED
  BY <1>1, <1>4

\* A run at work has a current row in its batch, and a snapshot of it.
LEMMA CurrentHeld ==
  ASSUME TypeOK, NEW t \in Ticks, pc[t] # "idle"
  PROVE  /\ Current(t) \in Held(t) /\ Current(t) \in Rows
         /\ Held(t) # {}
         /\ Snapshot(t) \in [attempts : Int, errors : Nat]
<1>1. Held(t) # {} /\ Held(t) \subseteq Rows
  BY DEF TypeOK, RunsOK
<1>2. \E r \in Held(t) : \A q \in Held(t) : r <= q
  BY <1>1, FirstRow
<1>3. Current(t) \in Held(t)
  BY <1>2 DEF Current
<1>4. batch[t] \in [Held(t) -> [attempts : Int, errors : Nat]]
  BY DEF TypeOK, RunsOK
<1> QED
  BY <1>1, <1>3, <1>4 DEF Snapshot, Held

-----------------------------------------------------------------------------
(* Type correctness. *)

\* Going on to the next row keeps the runs of their types.
LEMMA AdvanceType ==
  ASSUME TypeOK, NEW t \in Ticks, pc[t] # "idle", Advance(t)
  PROVE  RunsOK'
<1> DEFINE rest == Held(t) \ {Current(t)}
<1>1. rest \subseteq Rows
  BY DEF TypeOK, RunsOK
<1>2. /\ batch' = [batch EXCEPT ![t] = [r \in rest |-> batch[t][r]]]
      /\ pc' = [pc EXCEPT ![t] = IF rest = {} THEN "idle" ELSE "next"]
  BY DEF Advance
<1>3. /\ batch'[t] = [r \in rest |-> batch[t][r]]
      /\ \A u \in Ticks \ {t} : batch'[u] = batch[u] /\ pc'[u] = pc[u]
      /\ pc'[t] = IF rest = {} THEN "idle" ELSE "next"
  BY <1>2 DEF TypeOK, RunsOK
<1>4. batch[t] \in [Held(t) -> [attempts : Int, errors : Nat]]
  BY DEF TypeOK, RunsOK
<1>5. batch'[t] \in [rest -> [attempts : Int, errors : Nat]] /\ DOMAIN batch'[t] = rest
  BY <1>3, <1>4
<1>6. ASSUME NEW u \in Ticks
      PROVE  /\ Held(u)' \subseteq Rows
             /\ batch'[u] \in [Held(u)' -> [attempts : Int, errors : Nat]]
             /\ (pc'[u] = "idle") <=> (Held(u)' = {})
  <2>1. CASE u = t
    BY <2>1, <1>1, <1>3, <1>5 DEF Held
  <2>2. CASE u # t
    BY <2>2, <1>3 DEF TypeOK, RunsOK, Held
  <2> QED
    BY <2>1, <2>2
<1>7. pc' \in [Ticks -> {"idle", "next", "check", "post", "mark", "failed", "bury"}]
  BY <1>2 DEF TypeOK, RunsOK
<1>8. batch' = [u \in Ticks |-> batch'[u]]
  BY <1>2 DEF TypeOK, RunsOK
<1> QED
  BY <1>6, <1>7, <1>8 DEF RunsOK

\* What the statements on a row of service_outbox make of it.
LEMMA ClaimedRow ==
  ASSUME NEW r \in RowType, NEW n \in Int, NEW w \in {"never", "recent", "old"}
  PROVE  /\ [r EXCEPT !.status = "processing", !.attempts = n, !.tried = w] \in RowType
         /\ [r EXCEPT !.status = "processing", !.attempts = n, !.tried = w].status = "processing"
BY DEF RowType

\* A row that failed is a row.
LEMMA FailedRow ==
  ASSUME NEW r \in RowType, NEW k \in Nat
  PROVE  [r EXCEPT !.status = "failed", !.errors = k, !.due = FALSE] \in RowType
BY DEF RowType

\* A row that is reset is a row, and pending.
LEMMA ResetRow ==
  ASSUME NEW r \in RowType, NEW n \in Int
  PROVE  /\ [r EXCEPT !.status = "pending", !.due = TRUE, !.attempts = n] \in RowType
         /\ [r EXCEPT !.status = "pending", !.due = TRUE, !.attempts = n].status = "pending"
BY DEF RowType

\* A row that is retried is a row, and pending.
LEMMA RetriedRow ==
  ASSUME NEW r \in RowType, NEW n \in Int, NEW k \in Nat
  PROVE  /\ [r EXCEPT !.status = "pending", !.attempts = n, !.errors = k, !.due = TRUE] \in RowType
         /\ [r EXCEPT !.status = "pending", !.attempts = n, !.errors = k, !.due = TRUE].status = "pending"
BY DEF RowType

\* Counting one entry up leaves a function to the natural numbers.
LEMMA CountUp ==
  ASSUME NEW S, NEW f \in [S -> Nat], NEW x
  PROVE  [f EXCEPT ![x] = f[x] + 1] \in [S -> Nat]
<1>1. CASE x \in S
  BY <1>1
<1>2. CASE x \notin S
  BY <1>2
<1> QED
  BY <1>1, <1>2

\* A new row is a row.
LEMMA InsertedType ==
  ASSUME TypeOK, NEW e \in Events \cup {NoEvent}
  PROVE  Inserted(e) \in RowType
BY ConstantsAssumption DEF TypeOK, Inserted, RowType, ConstantsAssumption

\* The initial state has the right types.
LEMMA TypeInit == Init => TypeOK
<1> SUFFICES ASSUME Init PROVE TypeOK
  OBVIOUS
<1> USE ConstantsAssumption DEF Init, ConstantsAssumption
<1>1. outbox \in [Rows -> RowType]
  BY DEF NoRow, RowType
<1>2. RunsOK
  BY DEF RunsOK, Unclaimed, Held
<1>3. LettersOK
  BY DEF LettersOK, NoLetter, LetterType
<1>4. SessionsOK
  BY DEF SessionsOK, Idle
<1>5. WorkerOK
  BY DEF WorkerOK, Closed
<1> QED
  BY <1>1, <1>2, <1>3, <1>4, <1>5 DEF TypeOK

\* Every step of a run keeps the types.
LEMMA TypeStep ==
  ASSUME TypeOK, NEW t \in Ticks, Step(t) \/ Fail(t) \/ Abort(t)
  PROVE  TypeOK'
<1> USE DEF tables, worker, history, vars
<1> DEFINE c == Current(t)
<1>a. ConstantsAssumption
  BY ConstantsAssumption
<1>b. ASSUME pc[t] # "idle"
      PROVE c \in Held(t) /\ c \in Rows /\ Snapshot(t) \in [attempts : Int, errors : Nat]
            /\ Held(t) # {}
  BY <1>b, CurrentHeld
<1>1. CASE Claim(t)
  <2>1. outbox' \in [Rows -> RowType]
    <3>1. ASSUME NEW r \in Rows
          PROVE  [outbox[r] EXCEPT !.status = "processing", !.attempts = @ + 1,
                    !.tried = IF @ = "never" THEN "recent" ELSE @] \in RowType
      <4>1. outbox[r] \in RowType
        BY DEF TypeOK
      <4>2. /\ outbox[r].attempts + 1 \in Int
            /\ (IF outbox[r].tried = "never" THEN "recent" ELSE outbox[r].tried)
                 \in {"never", "recent", "old"}
        BY <4>1 DEF RowType
      <4> QED
        BY <4>1, <4>2, ClaimedRow
    <3>2. \A r \in Rows : outbox[r] \in RowType
      BY DEF TypeOK
    <3> QED
      BY <1>1, <3>1, <3>2 DEF Claim
  <2>2. RunsOK'
    <3> DEFINE b == [r \in FirstClaimable |->
                       [attempts |-> outbox[r].attempts, errors |-> outbox[r].errors]]
    <3>1. FirstClaimable \subseteq Rows
      BY DEF FirstClaimable
    <3>2. b \in [FirstClaimable -> [attempts : Int, errors : Nat]]
      BY <3>1 DEF TypeOK, RowType
    <3>3. /\ batch' = [batch EXCEPT ![t] = b]
          /\ pc' = [pc EXCEPT ![t] = "next"]
          /\ FirstClaimable # {}
      BY <1>1 DEF Claim
    <3>4. ASSUME NEW u \in Ticks
          PROVE  /\ Held(u)' \subseteq Rows
                 /\ batch'[u] \in [Held(u)' -> [attempts : Int, errors : Nat]]
                 /\ (pc'[u] = "idle") <=> (Held(u)' = {})
      <4>1. CASE u = t
        <5>1. batch'[u] = b /\ pc'[u] = "next"
          BY <4>1, <3>3 DEF TypeOK, RunsOK
        <5>2. Held(u)' = FirstClaimable
          BY <5>1 DEF Held
        <5> QED
          BY <5>1, <5>2, <3>1, <3>2, <3>3
      <4>2. CASE u # t
        BY <4>2, <3>3 DEF TypeOK, RunsOK, Held
      <4> QED
        BY <4>1, <4>2
    <3> HIDE DEF b
    <3> QED
      BY <3>3, <3>4 DEF TypeOK, RunsOK
  <2> QED
    BY <1>1, <2>1, <2>2 DEF Claim, TypeOK, LettersOK, SessionsOK, WorkerOK
<1>2. CASE FindNothing(t)
  BY <1>2 DEF FindNothing, TypeOK, RunsOK, LettersOK, SessionsOK, WorkerOK, Held
<1>3. CASE Skip(t)
  <2>1. c \in Rows /\ Advance(t) /\ RunsOK'
    BY <1>3, <1>b, AdvanceType DEF Skip
  <2>2. outbox' \in [Rows -> RowType]
    BY <1>3, <2>1 DEF Skip, TypeOK, RowType
  <2> QED
    BY <1>3, <2>1, <2>2 DEF Skip, TypeOK, LettersOK, SessionsOK, WorkerOK
<1>4. CASE Start(t)
  <2>1. Held(t) # {}
    BY <1>4, <1>b DEF Start
  <2>2. RunsOK'
    BY <1>4, <2>1 DEF Start, TypeOK, RunsOK, Held
  <2>3. WorkerOK'
    <3>1. Closed \in [failures : 0..Threshold, last : {"none", "recent", "old"},
                      open : {"no", "open", "expired"}]
      BY <1>a DEF Closed, ConstantsAssumption
    <3>2. breaker' \in [failures : 0..Threshold, last : {"none", "recent", "old"},
                        open : {"no", "open", "expired"}]
      BY <1>4, <3>1 DEF Start, TypeOK, WorkerOK
    <3>3. ReadConfig(t)
      BY <1>4 DEF Start
    <3>4. cache' \in [limit : Limits \cup {DefaultLimit}, fresh : BOOLEAN]
      <4>1. cache' = cache \/ cache' = [limit |-> limit, fresh |-> TRUE]
        BY <3>3 DEF ReadConfig
      <4>2. limit \in Limits
        BY DEF TypeOK
      <4>3. [limit |-> limit, fresh |-> TRUE]
              \in [limit : Limits \cup {DefaultLimit}, fresh : BOOLEAN]
        BY <4>2
      <4> QED
        BY <4>1, <4>3 DEF TypeOK, WorkerOK
    <3>5. config' \in [Ticks -> Limits \cup {DefaultLimit}]
      BY <3>3 DEF ReadConfig, TypeOK, WorkerOK
    <3> QED
      BY <3>2, <3>4, <3>5 DEF WorkerOK
  <2> QED
    BY <1>4, <2>2, <2>3 DEF Start, TypeOK, LettersOK, SessionsOK
<1>5. CASE CheckJournal(t)
  <2>2. RunsOK'
    BY <1>5, <1>b DEF CheckJournal, TypeOK, RunsOK, Held
  <2> QED
    BY <1>5, <2>2 DEF CheckJournal, TypeOK, LettersOK, SessionsOK, WorkerOK
<1>6. CASE Post(t)
  <2>2. RunsOK'
    BY <1>6, <1>b DEF Post, TypeOK, RunsOK, Held
  <2>3. applied' \in [Events -> Nat]
    <3> DEFINE e == outbox[c].event
    <3>1. applied' = [applied EXCEPT ![e] = applied[e] + 1]
      BY <1>6 DEF Post
    <3>2. applied \in [Events -> Nat]
      BY DEF TypeOK
    <3> QED
      BY <3>1, <3>2, CountUp
  <2> QED
    BY <1>6, <2>2, <2>3 DEF Post, TypeOK, LettersOK, SessionsOK, WorkerOK
<1>7. CASE MarkDelivered(t)
  <2>1. c \in Rows /\ Advance(t) /\ RunsOK'
    BY <1>7, <1>b, AdvanceType DEF MarkDelivered
  <2>2. outbox' \in [Rows -> RowType]
    BY <1>7, <2>1 DEF MarkDelivered, TypeOK, RowType
  <2>3. WorkerOK'
    <3>1. breaker' = [breaker EXCEPT !.failures = 0, !.last = "none"]
      BY <1>7 DEF MarkDelivered
    <3>2. breaker \in [failures : 0..Threshold, last : {"none", "recent", "old"},
                       open : {"no", "open", "expired"}]
      BY DEF TypeOK, WorkerOK
    <3>3. 0 \in 0..Threshold
      BY <1>a DEF ConstantsAssumption
    <3>4. breaker' \in [failures : 0..Threshold, last : {"none", "recent", "old"},
                        open : {"no", "open", "expired"}]
      BY <3>1, <3>2, <3>3
    <3> QED
      BY <1>7, <3>4 DEF MarkDelivered, TypeOK, WorkerOK
  <2> QED
    BY <1>7, <2>1, <2>2, <2>3 DEF MarkDelivered, TypeOK, LettersOK, SessionsOK
<1>8. CASE Reschedule(t)
  <2>1. c \in Rows /\ Advance(t) /\ RunsOK' /\ Snapshot(t).errors \in Nat
    BY <1>8, <1>b, AdvanceType DEF Reschedule
  <2>2. outbox' \in [Rows -> RowType]
    <3> DEFINE row == [outbox[c] EXCEPT !.status = "failed",
                         !.errors = Snapshot(t).errors + 1, !.due = FALSE]
    <3>1. outbox[c] \in RowType /\ outbox \in [Rows -> RowType]
      BY <2>1 DEF TypeOK
    <3>2. row \in RowType
      <4>1. Snapshot(t).errors + 1 \in Nat
        BY <2>1
      <4> QED
        BY <3>1, <4>1, FailedRow
    <3>3. outbox' = [outbox EXCEPT ![c] = row]
      BY <1>8, <2>1, <3>1 DEF Reschedule
    <3> HIDE DEF row
    <3> QED
      BY <3>1, <3>2, <3>3
  <2> QED
    BY <1>8, <2>1, <2>2 DEF Reschedule, TypeOK, LettersOK, SessionsOK, WorkerOK
<1>9. CASE WriteLetter(t)
  <2>1. c \in Rows /\ Held(t) # {} /\ Snapshot(t) \in [attempts : Int, errors : Nat]
    BY <1>9, <1>b DEF WriteLetter
  <2>2. RunsOK'
    BY <1>9, <2>1 DEF WriteLetter, TypeOK, RunsOK, Held
  <2>3. PICK d \in LetterIds : letters' = [letters EXCEPT ![d] =
            [status |-> "pending", row |-> c, total |-> Snapshot(t).attempts + 1,
             errors |-> Snapshot(t).errors + 1, retry |-> 0]]
    BY <1>9 DEF WriteLetter
  <2>4. LettersOK' /\ \A n \in LetterIds : letters[n].status # "absent" => letters'[n].status # "absent"
    BY <2>1, <2>3, <1>a DEF TypeOK, LettersOK, LetterType, Rows, ConstantsAssumption
  <2>5. SessionsOK'
    BY <1>9, <2>4 DEF WriteLetter, TypeOK, SessionsOK, Idle
  <2> QED
    BY <1>9, <2>2, <2>4, <2>5 DEF WriteLetter, TypeOK, WorkerOK
<1>10. CASE Bury(t)
  <2>1. c \in Rows /\ Advance(t) /\ RunsOK'
    BY <1>10, <1>b, AdvanceType DEF Bury
  <2>2. outbox' \in [Rows -> RowType]
    BY <1>10, <2>1 DEF Bury, TypeOK, RowType
  <2> QED
    BY <1>10, <2>1, <2>2 DEF Bury, TypeOK, LettersOK, SessionsOK, WorkerOK
<1>11. CASE Fail(t)
  <2>2. RunsOK'
    BY <1>11, <1>b DEF Fail, TypeOK, RunsOK, Held
  <2>3. WorkerOK'
    BY <1>11, <1>a DEF Fail, CircuitFailure, TypeOK, WorkerOK, ConstantsAssumption
  <2> QED
    BY <1>11, <2>2, <2>3 DEF Fail, TypeOK, LettersOK, SessionsOK
<1>12. CASE Abort(t)
  <2>2. RunsOK'
    BY <1>12 DEF Abort, TypeOK, RunsOK, Held, Unclaimed
  <2> QED
    BY <1>12, <2>2 DEF Abort, TypeOK, LettersOK, SessionsOK, WorkerOK
<1> QED
  BY <1>1, <1>2, <1>3, <1>4, <1>5, <1>6, <1>7, <1>8, <1>9, <1>10, <1>11, <1>12
     DEF Step, Deliver, HandleFailure

\* Inserting an event, a crash of the worker and the clock keep the types.
LEMMA TypeEnvironment ==
  ASSUME TypeOK, (\E e \in Events : Enqueue(e)) \/ Crash \/ TimePasses
  PROVE  TypeOK'
<1> USE DEF tables, worker, history, vars
<1>1. CASE \E e \in Events : Enqueue(e)
  <2>1. PICK e \in Events, r \in Rows : outbox' = [outbox EXCEPT ![r] = Inserted(e)]
    BY <1>1 DEF Enqueue
  <2>2. outbox' \in [Rows -> RowType]
    BY <2>1, InsertedType DEF TypeOK
  <2> QED
    BY <1>1, <2>2 DEF Enqueue, TypeOK, RunsOK, Held, LettersOK, SessionsOK, WorkerOK
<1>2. CASE Crash
  <2>1. RunsOK'
    BY <1>2 DEF Crash, TypeOK, RunsOK, Held, Unclaimed
  <2>2. WorkerOK'
    BY <1>2, ConstantsAssumption DEF Crash, TypeOK, WorkerOK, Closed, ConstantsAssumption
  <2> QED
    BY <1>2, <2>1, <2>2 DEF Crash, TypeOK, LettersOK, SessionsOK
<1>3. CASE \E r \in Rows : BecomeDue(r) \/ GrowOld(r)
  <2>1. PICK r \in Rows : BecomeDue(r) \/ GrowOld(r)
    BY <1>3
  <2>2. outbox' \in [Rows -> RowType]
    <3>1. outbox[r] \in RowType /\ outbox \in [Rows -> RowType]
      BY <2>1 DEF TypeOK
    <3>2. /\ [outbox[r] EXCEPT !.due = TRUE] \in RowType
          /\ [outbox[r] EXCEPT !.tried = "old"] \in RowType
      BY <3>1 DEF RowType
    <3>3. \/ outbox' = [outbox EXCEPT ![r] = [outbox[r] EXCEPT !.due = TRUE]]
          \/ outbox' = [outbox EXCEPT ![r] = [outbox[r] EXCEPT !.tried = "old"]]
      BY <2>1 DEF BecomeDue, GrowOld
    <3> QED
      BY <3>1, <3>2, <3>3
  <2> QED
    BY <2>1, <2>2 DEF BecomeDue, GrowOld, TypeOK, RunsOK, Held, LettersOK, SessionsOK, WorkerOK
<1>4. CASE FailureWindowEnds \/ OpenPeriodEnds \/ CacheExpires
  <2>1. WorkerOK'
    BY <1>4 DEF FailureWindowEnds, OpenPeriodEnds, CacheExpires, TypeOK, WorkerOK
  <2> QED
    BY <1>4, <2>1 DEF FailureWindowEnds, OpenPeriodEnds, CacheExpires, TypeOK, RunsOK,
                      Held, LettersOK, SessionsOK
<1> QED
  BY <1>1, <1>2, <1>3, <1>4 DEF TimePasses

\* The requests of administrators keep the types.
LEMMA TypeAdminister ==
  ASSUME TypeOK, Administer
  PROVE  TypeOK'
<1> USE DEF tables, worker, history, vars
<1>1. ASSUME NEW a \in Admins, RetryRow(a)
      PROVE  TypeOK'
  <2> DEFINE r == session[a].id
  <2>1. r \in Rows
    BY <1>1 DEF RetryRow, TypeOK, SessionsOK, Idle
  <2>2. [outbox[r] EXCEPT !.status = "pending", !.attempts = 0, !.errors = 0, !.due = TRUE]
          \in RowType
    <3>1. outbox[r] \in RowType /\ 0 \in Int /\ 0 \in Nat
      BY <2>1 DEF TypeOK
    <3> HIDE DEF r
    <3> QED
      BY <3>1, RetriedRow
  <2>3. outbox' \in [Rows -> RowType]
    <3>1. outbox' = [outbox EXCEPT ![r] =
            [outbox[r] EXCEPT !.status = "pending", !.attempts = 0, !.errors = 0, !.due = TRUE]]
      BY <1>1 DEF RetryRow
    <3> HIDE DEF r
    <3> QED
      BY <2>1, <2>2, <3>1 DEF TypeOK
  <2>4. SessionsOK'
    BY <1>1 DEF RetryRow, TypeOK, SessionsOK, Idle
  <2> QED
    BY <1>1, <2>1, <2>3, <2>4 DEF RetryRow, TypeOK, RunsOK, Held, LettersOK, WorkerOK
<1>2. ASSUME NEW a \in Admins, RetryLetter(a)
      PROVE  TypeOK'
  <2> DEFINE d == session[a].id
  <2>1. d \in LetterIds /\ letters[d].row \in Rows /\ letters \in [LetterIds -> LetterType]
    BY <1>2 DEF RetryLetter, TypeOK, SessionsOK, Idle, LettersOK
  <2>2. PICK r \in Rows :
          /\ outbox' = [outbox EXCEPT ![r] = Inserted(outbox[letters[d].row].event)]
          /\ letters' = [letters EXCEPT ![d].status = "retried", ![d].retry = r]
    BY <1>2 DEF RetryLetter
  <2>3. outbox[letters[d].row].event \in Events \cup {NoEvent}
    BY <2>1 DEF TypeOK, RowType
  <2>4. outbox' \in [Rows -> RowType]
    BY <2>2, <2>3, InsertedType DEF TypeOK
  <2>5. /\ LettersOK'
        /\ \A n \in LetterIds : letters[n].status # "absent" => letters'[n].status # "absent"
    <3>1. \A n \in LetterIds \ {d} : letters'[n] = letters[n]
      BY <2>1, <2>2
    <3>2. /\ letters'[d].status = "retried" /\ letters'[d].row = letters[d].row
          /\ letters' \in [LetterIds -> LetterType]
      BY <2>1, <2>2, ConstantsAssumption DEF LetterType, Rows, ConstantsAssumption
    <3> QED
      BY <2>1, <3>1, <3>2 DEF TypeOK, LettersOK
  <2>6. SessionsOK'
    <3>1. session' = [session EXCEPT ![a] = Idle]
      BY <1>2 DEF RetryLetter
    <3> QED
      BY <2>5, <3>1 DEF TypeOK, SessionsOK, Idle
  <2> QED
    BY <1>2, <2>4, <2>5, <2>6 DEF RetryLetter, TypeOK, RunsOK, Held, WorkerOK
<1>3. ASSUME NEW a \in Admins, NEW r \in Rows, ChooseRow(a, r)
      PROVE  TypeOK'
  <2>1. SessionsOK'
    BY <1>3 DEF ChooseRow, TypeOK, SessionsOK, Idle
  <2> QED
    BY <1>3, <2>1 DEF ChooseRow, TypeOK, RunsOK, Held, LettersOK, WorkerOK
<1>4. ASSUME NEW a \in Admins, NEW d \in LetterIds, ChooseLetter(a, d)
      PROVE  TypeOK'
  <2>1. SessionsOK'
    BY <1>4 DEF ChooseLetter, TypeOK, SessionsOK, Idle
  <2> QED
    BY <1>4, <2>1 DEF ChooseLetter, TypeOK, RunsOK, Held, LettersOK, WorkerOK
<1>5. ASSUME NEW d \in LetterIds, Dismiss(d)
      PROVE  TypeOK'
  <2>1. letters' = [letters EXCEPT ![d].status = "dismissed"]
    BY <1>5 DEF Dismiss
  <2>2. /\ LettersOK'
        /\ \A n \in LetterIds : letters[n].status # "absent" => letters'[n].status # "absent"
    BY <1>5, <2>1 DEF Dismiss, TypeOK, LettersOK, LetterType
  <2>3. SessionsOK'
    BY <1>5, <2>2 DEF Dismiss, TypeOK, SessionsOK, Idle
  <2> QED
    BY <1>5, <2>2, <2>3 DEF Dismiss, TypeOK, RunsOK, Held, WorkerOK
<1>6. ASSUME NEW n \in Limits, EditConfig(n)
      PROVE  TypeOK'
  BY <1>6 DEF EditConfig, TypeOK, RunsOK, Held, LettersOK, SessionsOK, WorkerOK
<1>7. CASE ResetStuck
  <2>1. ASSUME NEW r \in Rows
        PROVE  [outbox[r] EXCEPT !.status = "pending", !.due = TRUE,
                  !.attempts = IF @ > 0 THEN @ - 1 ELSE 0] \in RowType
    <3>1. outbox[r] \in RowType
      BY DEF TypeOK
    <3>2. (IF outbox[r].attempts > 0 THEN outbox[r].attempts - 1 ELSE 0) \in Int
      BY <3>1 DEF RowType
    <3> QED
      BY <3>1, <3>2, ResetRow
  <2>2. outbox' \in [Rows -> RowType]
    BY <1>7, <2>1 DEF ResetStuck, TypeOK
  <2>3. raced' \subseteq Rows
    BY <1>7 DEF ResetStuck, TypeOK
  <2> QED
    BY <1>7, <2>2, <2>3 DEF ResetStuck, TypeOK, RunsOK, Held, LettersOK, SessionsOK, WorkerOK
<1> QED
  BY <1>1, <1>2, <1>3, <1>4, <1>5, <1>6, <1>7 DEF Administer

\* A step that changes nothing keeps the types.
LEMMA TypeStutter ==
  ASSUME TypeOK, UNCHANGED vars
  PROVE  TypeOK'
BY DEF vars, tables, worker, history, TypeOK, RunsOK, Held, LettersOK, SessionsOK, WorkerOK

\* In every reachable state the tables and the worker's memory are well formed:
\* a run that is not idle has a claimed row in hand, and a dead letter or a
\* request in progress refers to a row that exists.
THEOREM TypeCorrect == Spec => []TypeOK
<1>1. TypeOK /\ [Next]_vars => TypeOK'
  BY TypeStep, TypeEnvironment, TypeAdminister, TypeStutter DEF Next
<1> QED
  BY TypeInit, <1>1, PTL DEF Spec

-----------------------------------------------------------------------------
(* One run holds a row at a time. *)

\* No statement changes the event of a row, or makes a row disappear.
LEMMA EventsKept ==
  ASSUME TypeOK, [Next]_vars
  PROVE  \A r \in Rows : outbox[r].status # "absent" =>
           outbox'[r].event = outbox[r].event /\ outbox'[r].status # "absent"
<1> USE DEF TypeOK
<1> SUFFICES ASSUME NEW r \in Rows, outbox[r].status # "absent"
             PROVE  outbox'[r].event = outbox[r].event /\ outbox'[r].status # "absent"
  OBVIOUS
<1>0. outbox \in [Rows -> RowType]
  OBVIOUS
<1>1. CASE UNCHANGED outbox
  BY <1>1
<1>2. ASSUME NEW e \in Events, Enqueue(e)
      PROVE  outbox'[r] = outbox[r]
  BY <1>2, <1>0 DEF Enqueue, IsNextRow
<1>3. ASSUME NEW t \in Ticks, Claim(t)
      PROVE  outbox'[r].event = outbox[r].event /\ outbox'[r].status # "absent"
  BY <1>3, <1>0 DEF Claim, RowType
<1>4. ASSUME NEW t \in Ticks, Skip(t) \/ MarkDelivered(t) \/ Reschedule(t) \/ Bury(t)
      PROVE  outbox'[r].event = outbox[r].event /\ outbox'[r].status # "absent"
  BY <1>4, <1>0 DEF Skip, MarkDelivered, Reschedule, Bury, RowType
<1>5. ASSUME NEW q \in Rows, BecomeDue(q) \/ GrowOld(q)
      PROVE  outbox'[r].event = outbox[r].event /\ outbox'[r].status # "absent"
  BY <1>5, <1>0 DEF BecomeDue, GrowOld, RowType
<1>6. ASSUME NEW a \in Admins, RetryRow(a)
      PROVE  outbox'[r].event = outbox[r].event /\ outbox'[r].status # "absent"
  <2> DEFINE q == session[a].id
  <2>1. outbox' = [outbox EXCEPT ![q] = [outbox[q] EXCEPT !.status = "pending",
                     !.attempts = 0, !.errors = 0, !.due = TRUE]]
    BY <1>6 DEF RetryRow
  <2> HIDE DEF q
  <2>2. CASE r # q
    BY <2>1, <2>2, <1>0
  <2>3. CASE r = q
    BY <2>1, <2>3, <1>0 DEF RowType
  <2> QED
    BY <2>2, <2>3
<1>7. ASSUME NEW a \in Admins, RetryLetter(a)
      PROVE  outbox'[r] = outbox[r]
  BY <1>7, <1>0 DEF RetryLetter, IsNextRow
<1>8. CASE ResetStuck
  BY <1>8, <1>0 DEF ResetStuck, RowType
<1>9. ASSUME NEW t \in Ticks, Start(t) \/ CheckJournal(t) \/ Post(t) \/ WriteLetter(t)
                              \/ Fail(t) \/ Abort(t) \/ FindNothing(t)
      PROVE  UNCHANGED outbox
  BY <1>9 DEF Start, CheckJournal, Post, WriteLetter, Fail, Abort, FindNothing, tables, vars
<1>10. CASE Crash \/ FailureWindowEnds \/ OpenPeriodEnds \/ CacheExpires
            \/ UNCHANGED vars
  BY <1>10 DEF Crash, FailureWindowEnds, OpenPeriodEnds, CacheExpires,
               tables, vars
<1>11. ASSUME NEW a \in Admins,
              (\E q \in Rows : ChooseRow(a, q)) \/ (\E d \in LetterIds : ChooseLetter(a, d))
       PROVE  UNCHANGED outbox
  BY <1>11 DEF ChooseRow, ChooseLetter, tables
<1>12. ASSUME (\E d \in LetterIds : Dismiss(d)) \/ (\E n \in Limits : EditConfig(n))
       PROVE  UNCHANGED outbox
  BY <1>12 DEF Dismiss, EditConfig
<1> QED
  BY <1>1, <1>2, <1>3, <1>4, <1>5, <1>6, <1>7, <1>8, <1>9, <1>10, <1>11, <1>12
     DEF Next, Step, Deliver, HandleFailure, TimePasses, Administer

\* What a step does to the runs: a run claims rows, gives one up or goes on;
\* the others keep theirs.  A crash ends them all.
Others(t) == \A u \in Ticks \ {t} : batch'[u] = batch[u] /\ pc'[u] = pc[u]

\* Going on to the next row drops the current one and touches no other run.
LEMMA AdvanceFrame ==
  ASSUME TypeOK, NEW t \in Ticks, Advance(t)
  PROVE  /\ Others(t)
         /\ Held(t)' = Held(t) \ {Current(t)}
         /\ pc'[t] \in {"idle", "next"}
<1>1. /\ batch' = [batch EXCEPT ![t] = [r \in Held(t) \ {Current(t)} |-> batch[t][r]]]
      /\ pc' = [pc EXCEPT ![t] = IF Held(t) \ {Current(t)} = {} THEN "idle" ELSE "next"]
  BY DEF Advance
<1>2. /\ batch'[t] = [r \in Held(t) \ {Current(t)} |-> batch[t][r]]
      /\ Others(t) /\ pc'[t] \in {"idle", "next"}
  BY <1>1 DEF TypeOK, RunsOK, Others
<1>3. Held(t)' = Held(t) \ {Current(t)}
  BY <1>2 DEF Held
<1> QED
  BY <1>2, <1>3

\* Nothing is held at first.
LEMMA HolderInit == Init => HolderInv
BY TypeInit DEF Init, HolderInv, HeldIsProcessing, OneHolder, Held, Unclaimed

\* A step that keeps the batches and touches no row that a run holds, except
\* rows it records as raced, keeps the invariant.
LEMMA HolderFrame ==
  ASSUME HolderInv, TypeOK', \A u \in Ticks : Held(u)' \subseteq Held(u),
         raced \subseteq raced',
         \A u \in Ticks : \A r \in Held(u)' :
            /\ outbox'[r].status # "absent"
            /\ outbox'[r].status = outbox[r].status \/ r \in raced'
  PROVE  HolderInv'
<1>1. HeldIsProcessing'
  BY DEF HolderInv, HeldIsProcessing
<1>2. OneHolder'
  BY DEF HolderInv, OneHolder
<1> QED
  BY <1>1, <1>2 DEF HolderInv

\* A run lets go of the row in hand and writes its status.
LEMMA HolderRelease ==
  ASSUME HolderInv, TypeOK', NEW t \in Ticks, pc[t] # "idle", Advance(t), raced' = raced,
         \A r \in Rows : outbox[r].status # "absent" => outbox'[r].status # "absent",
         \A r \in Rows \ {Current(t)} : outbox'[r] = outbox[r]
  PROVE  HolderInv'
<1>1. TypeOK
  BY DEF HolderInv
<1>2. Current(t) \in Held(t)
  BY <1>1, CurrentHeld
<1>3. \A u \in Ticks : Held(u)' \subseteq Held(u) /\ Held(u) \subseteq Rows
  BY <1>1, AdvanceFrame DEF Others, Held, TypeOK, RunsOK
<1>4. ASSUME NEW u \in Ticks, NEW r \in Held(u)'
      PROVE  /\ outbox'[r].status # "absent"
             /\ outbox'[r].status = outbox[r].status \/ r \in raced'
  <2>1. r \in Held(u) /\ r \in Rows
    BY <1>3, <1>4
  <2>2. outbox'[r].status # "absent"
    BY <2>1 DEF HolderInv, HeldIsProcessing
  <2>3. CASE r # Current(t)
    BY <2>1, <2>2, <2>3
  <2>4. CASE r = Current(t)
    <3>1. u # t
      BY <2>4, <1>1, <1>4, AdvanceFrame
    <3>2. r \in raced
      BY <3>1, <2>1, <2>4, <1>2 DEF HolderInv, OneHolder
    <3> QED
      BY <2>2, <3>2
  <2> QED
    BY <2>3, <2>4
<1> QED
  BY <1>3, <1>4, HolderFrame

\* TypeOK is inductive.
LEMMA TypeNext == TypeOK /\ [Next]_vars => TypeOK'
BY TypeStep, TypeEnvironment, TypeAdminister, TypeStutter DEF Next

\* The claiming transaction marks the rows it claims and writes no other.
LEMMA ClaimStatus ==
  ASSUME TypeOK, NEW t \in Ticks, Claim(t)
  PROVE  \A r \in Rows : /\ r \in FirstClaimable => outbox'[r].status = "processing"
                         /\ r \notin FirstClaimable => outbox'[r] = outbox[r]
<1>1. ASSUME NEW r \in FirstClaimable
      PROVE  outbox'[r].status = "processing"
  <2>0. r \in Rows
    BY DEF FirstClaimable
  <2>1. outbox'[r] = [outbox[r] EXCEPT !.status = "processing", !.attempts = @ + 1,
                        !.tried = IF @ = "never" THEN "recent" ELSE @]
    BY <1>1, <2>0 DEF Claim
  <2>2. outbox[r] \in RowType
    BY <2>0 DEF TypeOK
  <2>3. PICK n \in Int, w \in {"never", "recent", "old"} :
          /\ n = outbox[r].attempts + 1
          /\ w = IF outbox[r].tried = "never" THEN "recent" ELSE outbox[r].tried
    BY <2>2 DEF RowType
  <2>4. outbox'[r] = [outbox[r] EXCEPT !.status = "processing", !.attempts = n, !.tried = w]
    BY <2>1, <2>3
  <2>5. [outbox[r] EXCEPT !.status = "processing", !.attempts = n, !.tried = w].status
          = "processing"
    BY <2>2, ClaimedRow
  <2> QED
    BY <2>4, <2>5
<1> QED
  BY <1>1 DEF Claim

\* SELECT ... FOR UPDATE SKIP LOCKED takes rows no run holds, and marks them.
LEMMA HolderClaim ==
  ASSUME HolderInv, TypeOK', NEW t \in Ticks, Claim(t)
  PROVE  HolderInv'
<1>1. /\ FirstClaimable \subseteq Rows
      /\ \A r \in FirstClaimable : outbox[r].status \in {"pending", "failed"}
  BY DEF FirstClaimable, Claimable
<1>2. /\ batch' = [batch EXCEPT ![t] = [r \in FirstClaimable |->
            [attempts |-> outbox[r].attempts, errors |-> outbox[r].errors]]]
      /\ raced' = raced
  BY DEF Claim, history
<1>3. /\ Held(t)' = FirstClaimable
      /\ \A u \in Ticks \ {t} : Held(u)' = Held(u)
  BY <1>2 DEF HolderInv, TypeOK, RunsOK, Held
<1>4. \A r \in Rows : /\ r \in FirstClaimable => outbox'[r].status = "processing"
                      /\ r \notin FirstClaimable => outbox'[r] = outbox[r]
  BY ClaimStatus DEF HolderInv
<1>5. \A u \in Ticks : Held(u) \subseteq Rows
  BY DEF HolderInv, TypeOK, RunsOK
<1>6. \A u \in Ticks : \A r \in Held(u) \cap FirstClaimable : r \in raced
  BY <1>1 DEF HolderInv, HeldIsProcessing
<1>7. HeldIsProcessing'
  <2>1. ASSUME NEW u \in Ticks, NEW r \in Held(u)'
        PROVE  outbox'[r].status # "absent" /\ (r \notin raced' => outbox'[r].status = "processing")
    BY <1>1, <1>2, <1>3, <1>4, <1>5, <2>1 DEF HolderInv, HeldIsProcessing
  <2> QED
    BY <2>1 DEF HeldIsProcessing
<1>8. OneHolder'
  BY <1>2, <1>3, <1>6 DEF HolderInv, OneHolder
<1> QED
  BY <1>7, <1>8 DEF HolderInv

\* Every step of a run keeps one holder per row.
LEMMA HolderStep ==
  ASSUME HolderInv, NEW t \in Ticks, Step(t) \/ Fail(t) \/ Abort(t)
  PROVE  HolderInv'
<1>1. TypeOK /\ TypeOK'
  BY TypeStep DEF HolderInv
<1>2. CASE Claim(t)
  BY <1>1, <1>2, HolderClaim
<1>3. CASE Skip(t) \/ MarkDelivered(t) \/ Reschedule(t) \/ Bury(t)
  <2>1. pc[t] # "idle" /\ Advance(t) /\ raced' = raced
    BY <1>3 DEF Skip, MarkDelivered, Reschedule, Bury, history
  <2>2. /\ \A r \in Rows \ {Current(t)} : outbox'[r] = outbox[r]
        /\ \A r \in Rows : outbox[r].status # "absent" => outbox'[r].status # "absent"
    BY <1>1, <1>3 DEF Skip, MarkDelivered, Reschedule, Bury, TypeOK, RowType
  <2> QED
    BY <1>1, <2>1, <2>2, HolderRelease
<1>4. CASE Start(t) \/ CheckJournal(t) \/ Post(t) \/ WriteLetter(t) \/ Fail(t) \/ FindNothing(t)
  <2>1. UNCHANGED <<outbox, batch, raced>>
    BY <1>4 DEF Start, CheckJournal, Post, WriteLetter, Fail, FindNothing, tables, worker,
                history, vars
  <2> QED
    BY <1>1, <2>1, HolderFrame DEF Held, HolderInv, HeldIsProcessing
<1>5. CASE Abort(t)
  <2>1. UNCHANGED <<outbox, raced>> /\ batch' = [batch EXCEPT ![t] = Unclaimed]
    BY <1>5 DEF Abort, tables, history
  <2>2. \A u \in Ticks : Held(u)' \subseteq Held(u)
    BY <1>1, <2>1 DEF TypeOK, RunsOK, Held, Unclaimed
  <2> QED
    BY <1>1, <2>1, <2>2, HolderFrame DEF HolderInv, HeldIsProcessing
<1> QED
  BY <1>2, <1>3, <1>4, <1>5 DEF Step, Deliver, HandleFailure

\* So does every other step.
LEMMA HolderOther ==
  ASSUME HolderInv,
         \/ \E e \in Events : Enqueue(e)
         \/ Crash \/ TimePasses \/ Administer \/ UNCHANGED vars
  PROVE  HolderInv'
<1> USE DEF tables, worker, history, vars
<1>1. TypeOK /\ TypeOK'
  BY TypeEnvironment, TypeAdminister, TypeStutter DEF HolderInv
<1>2. \A u \in Ticks : \A r \in Held(u) : r \in Rows /\ outbox[r].status # "absent"
  BY <1>1 DEF HolderInv, HeldIsProcessing, TypeOK, RunsOK
<1>3. CASE Crash
  <2>1. UNCHANGED <<outbox, raced>> /\ \A u \in Ticks : Held(u)' = {}
    BY <1>3 DEF Crash, Held, Unclaimed
  <2> QED
    BY <1>1, <2>1, HolderFrame
<1>4. ASSUME UNCHANGED batch, raced \subseteq raced',
             \A u \in Ticks : \A r \in Held(u) :
                /\ outbox'[r].status # "absent"
                /\ outbox'[r].status = outbox[r].status \/ r \in raced'
      PROVE  HolderInv'
  BY <1>1, <1>4, HolderFrame DEF Held
<1>5. CASE \E e \in Events : Enqueue(e)
  <2>1. PICK q \in Rows, e \in Events : /\ outbox[q].status = "absent"
                       /\ outbox' = [outbox EXCEPT ![q] = Inserted(e)]
                       /\ UNCHANGED <<batch, raced>>
    BY <1>5 DEF Enqueue, IsNextRow
  <2>2. \A u \in Ticks : \A r \in Held(u) : outbox'[r] = outbox[r]
    BY <1>1, <1>2, <2>1 DEF TypeOK
  <2> QED
    BY <1>2, <1>4, <2>1, <2>2
<1>6. CASE TimePasses
  <2>1. UNCHANGED <<batch, raced>>
    BY <1>6 DEF TimePasses, BecomeDue, GrowOld, FailureWindowEnds, OpenPeriodEnds, CacheExpires
  <2>2. \A r \in Rows : outbox'[r].status = outbox[r].status
    BY <1>1, <1>6 DEF TimePasses, BecomeDue, GrowOld, FailureWindowEnds, OpenPeriodEnds,
                      CacheExpires, TypeOK, RowType
  <2> QED
    BY <1>2, <1>4, <2>1, <2>2
<1>7. ASSUME NEW a \in Admins, RetryRow(a)
      PROVE  HolderInv'
  <2>1. UNCHANGED batch /\ raced \subseteq raced'
    BY <1>7 DEF RetryRow
  <2>2. \A u \in Ticks : \A r \in Held(u) :
           outbox'[r] = outbox[r] \/ (r \in raced' /\ outbox'[r].status = "pending")
    <3> DEFINE q == session[a].id
    <3>1. outbox' = [outbox EXCEPT ![q] = [outbox[q] EXCEPT !.status = "pending",
                       !.attempts = 0, !.errors = 0, !.due = TRUE]]
      BY <1>7 DEF RetryRow
    <3>2. ASSUME NEW u \in Ticks, NEW r \in Held(u), r # q
          PROVE  outbox'[r] = outbox[r]
      BY <1>1, <1>2, <3>1, <3>2 DEF TypeOK
    <3>3. ASSUME NEW u \in Ticks, q \in Held(u)
          PROVE  q \in raced' /\ outbox'[q].status = "pending"
      <4>1. outbox[q] \in RowType /\ q \in Rows /\ 0 \in Int /\ 0 \in Nat
        BY <1>1, <1>2, <3>3 DEF TypeOK
      <4>2. outbox'[q] = [outbox[q] EXCEPT !.status = "pending",
                       !.attempts = 0, !.errors = 0, !.due = TRUE]
        BY <1>1, <3>1, <4>1 DEF TypeOK
      <4>3. outbox'[q].status = "pending"
        <5>1. [outbox[q] EXCEPT !.status = "pending", !.attempts = 0, !.errors = 0,
                 !.due = TRUE].status = "pending"
          <6> HIDE DEF q
          <6> QED
            BY <4>1, RetriedRow
        <5> QED
          BY <4>2, <5>1
      <4> QED
        BY <1>7, <3>3, <4>3 DEF RetryRow, IsHeld
    <3> QED
      BY <3>2, <3>3
  <2> QED
    BY <1>2, <1>4, <2>1, <2>2
<1>8. CASE ResetStuck
  <2>1. UNCHANGED batch /\ raced \subseteq raced'
    BY <1>8 DEF ResetStuck
  <2>2. \A u \in Ticks : \A r \in Held(u) :
           outbox'[r] = outbox[r] \/ (r \in raced' /\ outbox'[r].status = "pending")
    <3>1. ASSUME NEW u \in Ticks, NEW r \in Held(u), Stuck(r)
          PROVE  r \in raced' /\ outbox'[r].status = "pending"
      <4>1. outbox[r] \in RowType /\ r \in Rows
        BY <1>1, <1>2, <3>1 DEF TypeOK
      <4>2. (IF outbox[r].attempts > 0 THEN outbox[r].attempts - 1 ELSE 0) \in Int
        BY <4>1 DEF RowType
      <4>3. outbox'[r] = [outbox[r] EXCEPT !.status = "pending", !.due = TRUE,
                            !.attempts = IF @ > 0 THEN @ - 1 ELSE 0]
        BY <1>8, <3>1, <4>1 DEF ResetStuck
      <4>4. outbox'[r].status = "pending"
        BY <4>1, <4>2, <4>3, ResetRow
      <4> QED
        BY <1>8, <3>1, <4>1, <4>4 DEF ResetStuck, IsHeld
    <3>2. ASSUME NEW u \in Ticks, NEW r \in Held(u), ~Stuck(r)
          PROVE  outbox'[r] = outbox[r]
      BY <1>2, <1>8, <3>2 DEF ResetStuck
    <3> QED
      BY <3>1, <3>2
  <2> QED
    BY <1>2, <1>4, <2>1, <2>2
<1>9. ASSUME NEW a \in Admins, RetryLetter(a)
      PROVE  HolderInv'
  <2>1. PICK q \in Rows : /\ outbox[q].status = "absent"
                          /\ outbox' = [outbox EXCEPT ![q] =
                               Inserted(outbox[letters[session[a].id].row].event)]
                          /\ UNCHANGED <<batch, raced>>
    BY <1>9 DEF RetryLetter, IsNextRow
  <2>2. \A u \in Ticks : \A r \in Held(u) : outbox'[r] = outbox[r]
    BY <1>1, <1>2, <2>1 DEF TypeOK
  <2> QED
    BY <1>2, <1>4, <2>1, <2>2
<1>10. ASSUME \/ \E a \in Admins, q \in Rows : ChooseRow(a, q)
              \/ \E a \in Admins, d \in LetterIds : ChooseLetter(a, d)
              \/ \E d \in LetterIds : Dismiss(d)
              \/ \E n \in Limits : EditConfig(n)
              \/ UNCHANGED vars
       PROVE  HolderInv'
  <2>1. UNCHANGED <<outbox, batch, raced>>
    BY <1>10 DEF ChooseRow, ChooseLetter, Dismiss, EditConfig
  <2> QED
    BY <1>2, <1>4, <2>1
<1> QED
  BY <1>3, <1>5, <1>6, <1>7, <1>8, <1>9, <1>10 DEF Administer

\* HolderInv is inductive.
LEMMA HolderNext == HolderInv /\ [Next]_vars => HolderInv'
BY HolderStep, HolderOther DEF Next

\* FOR UPDATE SKIP LOCKED and the status 'processing' give a row to one run at
\* a time: overlapping timers never hold the same row, unless a request of an
\* administrator raced with a run.
THEOREM OneHolderAlways == Spec => []OneHolder
<1>1. HolderInv => OneHolder
  BY DEF HolderInv
<1> QED
  BY HolderInit, HolderNext, <1>1, PTL DEF Spec

\* A row marked delivered is not taken back by a late statement of a run.
THEOREM DeliveredFinal == Spec => DeliveredIsFinal
<1>1. ASSUME HolderInv, [Next]_vars, NEW r \in Rows,
             outbox[r].status = "delivered", r \notin raced'
      PROVE  outbox'[r].status = "delivered"
  <2> USE DEF tables, worker, history, vars
  <2>1. outbox \in [Rows -> RowType] /\ raced \subseteq raced'
    BY <1>1 DEF HolderInv, TypeOK, Next, Step, Deliver, HandleFailure, TimePasses, Administer,
       Enqueue, Claim, FindNothing, Skip, Start, CheckJournal, Post, MarkDelivered, Reschedule,
       WriteLetter, Bury, Fail, Abort, Crash, BecomeDue, GrowOld, FailureWindowEnds,
       OpenPeriodEnds, CacheExpires, ChooseRow, RetryRow, ResetStuck,
       ChooseLetter, RetryLetter, Dismiss, EditConfig
  <2>2. \A t \in Ticks : r \notin Held(t)
    BY <1>1, <2>1 DEF HolderInv, HeldIsProcessing
  <2>3. ASSUME NEW t \in Ticks, Skip(t) \/ MarkDelivered(t) \/ Reschedule(t) \/ Bury(t)
        PROVE  outbox'[r] = outbox[r]
    <3>1. Current(t) \in Held(t)
      BY <1>1, <2>3, CurrentHeld DEF HolderInv, Skip, MarkDelivered, Reschedule, Bury
    <3> QED
      BY <2>1, <2>2, <2>3, <3>1 DEF Skip, MarkDelivered, Reschedule, Bury
  <2>4. ASSUME NEW t \in Ticks, Claim(t)
        PROVE  outbox'[r] = outbox[r]
    BY <1>1, <2>4 DEF Claim, FirstClaimable, Claimable
  <2>5. ASSUME NEW e \in Events, Enqueue(e)
        PROVE  outbox'[r] = outbox[r]
    BY <1>1, <2>1, <2>5 DEF Enqueue, IsNextRow
  <2>6. ASSUME NEW a \in Admins, RetryRow(a) \/ RetryLetter(a)
        PROVE  outbox'[r] = outbox[r]
    BY <1>1, <2>1, <2>6 DEF RetryRow, RetryLetter, IsNextRow
  <2>7. ASSUME NEW q \in Rows, BecomeDue(q) \/ GrowOld(q)
        PROVE  outbox'[r].status = outbox[r].status
    BY <2>1, <2>7 DEF BecomeDue, GrowOld, RowType
  <2>8. CASE ResetStuck
    BY <1>1, <2>8 DEF ResetStuck, Stuck
  <2>9. ASSUME NEW t \in Ticks, Start(t) \/ CheckJournal(t) \/ Post(t) \/ WriteLetter(t)
                                \/ Fail(t) \/ Abort(t) \/ FindNothing(t)
        PROVE  outbox' = outbox
    BY <2>9 DEF Start, CheckJournal, Post, WriteLetter, Fail, Abort, FindNothing
  <2>10. ASSUME \/ Crash \/ FailureWindowEnds \/ OpenPeriodEnds \/ CacheExpires
                \/ UNCHANGED vars
                \/ \E a \in Admins, q \in Rows : ChooseRow(a, q)
                \/ \E a \in Admins, d \in LetterIds : ChooseLetter(a, d)
                \/ \E d \in LetterIds : Dismiss(d)
                \/ \E n \in Limits : EditConfig(n)
         PROVE  outbox' = outbox
    BY <2>10 DEF Crash, FailureWindowEnds, OpenPeriodEnds, CacheExpires,
                 ChooseRow, ChooseLetter, Dismiss, EditConfig
  <2> QED
    BY <1>1, <2>3, <2>4, <2>5, <2>6, <2>7, <2>8, <2>9, <2>10
       DEF Next, Step, Deliver, HandleFailure, TimePasses, Administer
<1>2. HolderInv /\ [Next]_vars
        => [\A r \in Rows : outbox[r].status = "delivered" /\ r \notin raced'
                            => outbox'[r].status = "delivered"]_vars
  BY <1>1
<1> QED
  BY HolderInit, HolderNext, <1>2, PTL DEF Spec, DeliveredIsFinal

-----------------------------------------------------------------------------
(* A guarded event is carried out once. *)

\* A run that a step leaves alone keeps its row in hand, and its event.
LEMMA InHand ==
  ASSUME HolderInv, [Next]_vars, NEW u \in Ticks, pc[u] # "idle", batch'[u] = batch[u]
  PROVE  /\ Current(u)' = Current(u)
         /\ outbox'[Current(u)].event = outbox[Current(u)].event
<1>1. Current(u) \in Held(u) /\ Current(u) \in Rows
  BY CurrentHeld DEF HolderInv
<1>2. Current(u)' = Current(u)
  BY DEF Current, Held
<1>3. outbox[Current(u)].status # "absent"
  BY <1>1 DEF HolderInv, HeldIsProcessing
<1> QED
  BY <1>1, <1>2, <1>3, EventsKept DEF HolderInv

\* A step that carries nothing out, after which every run is where it was or
\* is not delivering, keeps the invariant.
LEMMA DeliveryFrame ==
  ASSUME DeliverOnce, HolderInv', [Next]_vars, applied' = applied, concurrent' = concurrent,
         \A u \in Ticks : \/ pc'[u] = pc[u] /\ batch'[u] = batch[u]
                         \/ pc'[u] \in {"idle", "next", "failed", "bury"}
  PROVE  DeliverOnce'
<1>1. \A u \in Ticks : pc'[u] \in {"check", "post", "mark"} =>
        /\ pc[u] = pc'[u]
        /\ outbox'[Current(u)'].event = outbox[Current(u)].event
  BY InHand DEF DeliverOnce
<1>2. \A u \in Ticks, e \in Events : Delivering(u, e)' => Delivering(u, e)
  BY <1>1 DEF Delivering
<1>3. DeliveryInv'
  BY <1>1, <1>2 DEF DeliverOnce, DeliveryInv
<1>4. GuardedOnce'
  BY DEF DeliverOnce, GuardedOnce
<1> QED
  BY <1>3, <1>4 DEF DeliverOnce

\* The three steps of a delivery keep the other runs and the row in hand.
LEMMA DeliverySame ==
  ASSUME HolderInv, [Next]_vars, NEW t \in Ticks, pc[t] # "idle", batch' = batch,
         Others(t)
  PROVE  /\ Current(t)' = Current(t)
         /\ outbox'[Current(t)'].event = outbox[Current(t)].event
         /\ \A u \in Ticks \ {t} : pc'[u] # "idle" =>
              outbox'[Current(u)'].event = outbox[Current(u)].event
BY InHand DEF Others

\* Starting a row keeps what the runs know of their events.
LEMMA StartKeeps ==
  ASSUME DeliverOnce, HolderInv', [Next]_vars, NEW t \in Ticks, Start(t)
  PROVE  DeliverOnce'
<1> DEFINE ev == outbox[Current(t)].event
<1>1. /\ pc[t] = "next" /\ batch' = batch /\ applied' = applied /\ outbox' = outbox
      /\ pc' = [pc EXCEPT ![t] = IF ev \in Guarded THEN "check" ELSE "post"]
      /\ concurrent' = IF \E u \in Ticks \ {t} : Delivering(u, ev)
                       THEN concurrent \cup {ev} ELSE concurrent
  BY DEF Start, tables
<1>2. /\ Others(t)
      /\ pc'[t] = IF ev \in Guarded THEN "check" ELSE "post"
      /\ concurrent \subseteq concurrent'
  BY <1>1 DEF Others, DeliverOnce, HolderInv, TypeOK, RunsOK
<1>3. /\ outbox'[Current(t)'].event = ev
      /\ \A u \in Ticks \ {t} : pc[u] # "idle" =>
           outbox'[Current(u)'].event = outbox[Current(u)].event
  BY <1>1, <1>2, DeliverySame DEF DeliverOnce, Others
<1>4. \A u \in Ticks \ {t}, e \in Events : Delivering(u, e)' => Delivering(u, e)
  BY <1>2, <1>3 DEF Delivering, Others
<1>5. \A e \in Events : Delivering(t, e)' => e = ev
  BY <1>3 DEF Delivering
<1>6. ASSUME NEW e \in Events, NEW u \in Ticks, NEW w \in Ticks, u # w,
             Delivering(u, e)', Delivering(w, e)'
      PROVE  e \in concurrent'
  <2>1. CASE u # t /\ w # t
    BY <1>2, <1>4, <1>6, <2>1 DEF DeliverOnce, DeliveryInv
  <2>2. CASE u = t
    BY <1>1, <1>4, <1>5, <1>6, <2>2
  <2>3. CASE w = t
    BY <1>1, <1>4, <1>5, <1>6, <2>3
  <2> QED
    BY <2>1, <2>2, <2>3
<1>7. DeliveryInv'
  <2>1. ASSUME NEW e \in Events, NEW u \in Ticks
        PROVE  /\ pc'[u] = "post" /\ outbox'[Current(u)'].event = e /\ e \in Guarded
                    => applied'[e] = 0 \/ e \in concurrent'
               /\ pc'[u] = "mark" /\ outbox'[Current(u)'].event = e => applied'[e] > 0
    BY <1>1, <1>2, <1>3, <2>1 DEF DeliverOnce, DeliveryInv, Others
  <2> QED
    BY <1>6, <2>1 DEF DeliveryInv
<1>8. GuardedOnce'
  BY <1>1, <1>2 DEF DeliverOnce, GuardedOnce
<1> QED
  BY <1>7, <1>8 DEF DeliverOnce

\* So does looking for the journal, which is what makes it known.
LEMMA CheckKeeps ==
  ASSUME DeliverOnce, HolderInv', [Next]_vars, NEW t \in Ticks, CheckJournal(t)
  PROVE  DeliverOnce'
<1> DEFINE ev == outbox[Current(t)].event
<1>1. /\ pc[t] = "check" /\ batch' = batch /\ applied' = applied /\ outbox' = outbox
      /\ pc' = [pc EXCEPT ![t] = IF applied[ev] > 0 THEN "mark" ELSE "post"]
      /\ concurrent' = concurrent
  BY DEF CheckJournal, tables, history
<1>2. /\ Others(t)
      /\ pc'[t] = IF applied[ev] > 0 THEN "mark" ELSE "post"
  BY <1>1 DEF Others, DeliverOnce, HolderInv, TypeOK, RunsOK
<1>3. /\ outbox'[Current(t)'].event = ev
      /\ \A u \in Ticks \ {t} : pc[u] # "idle" =>
           outbox'[Current(u)'].event = outbox[Current(u)].event
  BY <1>1, <1>2, DeliverySame DEF DeliverOnce, Others
<1>4. \A u \in Ticks, e \in Events : Delivering(u, e)' => Delivering(u, e)
  BY <1>1, <1>2, <1>3 DEF Delivering, Others
<1>5. \A e \in Events : applied[e] \in Nat
  BY DEF DeliverOnce, HolderInv, TypeOK
<1>6. DeliveryInv'
  <2>1. ASSUME NEW e \in Events, NEW u \in Ticks
        PROVE  /\ pc'[u] = "post" /\ outbox'[Current(u)'].event = e /\ e \in Guarded
                    => applied'[e] = 0 \/ e \in concurrent'
               /\ pc'[u] = "mark" /\ outbox'[Current(u)'].event = e => applied'[e] > 0
    BY <1>1, <1>2, <1>3, <1>5, <2>1 DEF DeliverOnce, DeliveryInv, Others
  <2> QED
    BY <1>1, <1>4, <2>1 DEF DeliverOnce, DeliveryInv
<1>7. GuardedOnce'
  BY <1>1 DEF DeliverOnce, GuardedOnce
<1> QED
  BY <1>6, <1>7 DEF DeliverOnce

\* Carrying the event out counts it once, or two runs were at it.
LEMMA PostKeeps ==
  ASSUME DeliverOnce, HolderInv', [Next]_vars, NEW t \in Ticks, Post(t)
  PROVE  DeliverOnce'
<1> DEFINE ev == outbox[Current(t)].event
<1>1. /\ pc[t] = "post" /\ batch' = batch /\ outbox' = outbox
      /\ applied' = [applied EXCEPT ![ev] = applied[ev] + 1]
      /\ pc' = [pc EXCEPT ![t] = "mark"] /\ concurrent' = concurrent
  BY DEF Post, history
<1>2. Others(t) /\ pc'[t] = "mark"
  BY <1>1 DEF Others, DeliverOnce, HolderInv, TypeOK, RunsOK
<1>3. /\ outbox'[Current(t)'].event = ev
      /\ \A u \in Ticks \ {t} : pc[u] # "idle" =>
           outbox'[Current(u)'].event = outbox[Current(u)].event
  BY <1>1, <1>2, DeliverySame DEF DeliverOnce, Others
<1>4. \A u \in Ticks, e \in Events : Delivering(u, e)' => Delivering(u, e)
  BY <1>2, <1>3 DEF Delivering, Others
<1>5. \A x \in Events : applied[x] \in Nat
  BY <1>1 DEF DeliverOnce, HolderInv, TypeOK
<1>5a. \A x \in Events : x = ev => applied'[x] = applied[x] + 1
  BY <1>1 DEF DeliverOnce, HolderInv, TypeOK
<1>5b. \A x \in Events : x # ev => applied'[x] = applied[x]
  BY <1>1 DEF DeliverOnce, HolderInv, TypeOK
<1>6. \A u \in Ticks \ {t} : pc[u] = "post" /\ outbox[Current(u)].event = ev /\ ev \in Events
        => ev \in concurrent
  BY <1>1 DEF DeliverOnce, DeliveryInv, Delivering
<1>7. DeliveryInv'
  <2>1. ASSUME NEW e \in Events, NEW u \in Ticks
        PROVE  /\ pc'[u] = "post" /\ outbox'[Current(u)'].event = e /\ e \in Guarded
                    => applied'[e] = 0 \/ e \in concurrent'
               /\ pc'[u] = "mark" /\ outbox'[Current(u)'].event = e => applied'[e] > 0
    <3>0. /\ applied[e] \in Nat
          /\ e = ev => applied'[e] = applied[e] + 1
          /\ e # ev => applied'[e] = applied[e]
      BY <1>5, <1>5a, <1>5b
    <3>1. CASE u = t
      <4>1. pc'[u] = "mark" /\ (outbox'[Current(u)'].event = e => e = ev)
        BY <1>2, <1>3, <3>1
      <4> QED
        BY <3>0, <4>1
    <3>2. CASE u # t
      <4>1. /\ pc'[u] = pc[u]
            /\ pc[u] # "idle" => outbox'[Current(u)'].event = outbox[Current(u)].event
        BY <1>2, <1>3, <3>2 DEF Others
      <4>2. ASSUME pc'[u] = "post", outbox'[Current(u)'].event = e, e \in Guarded
            PROVE  applied'[e] = 0 \/ e \in concurrent'
        <5>1. pc[u] = "post" /\ outbox[Current(u)].event = e
          BY <4>1, <4>2
        <5>2. applied[e] = 0 \/ e \in concurrent
          BY <4>2, <5>1 DEF DeliverOnce, DeliveryInv
        <5>3. e = ev => e \in concurrent
          BY <1>6, <3>2, <5>1
        <5> QED
          BY <1>1, <3>0, <5>2, <5>3
      <4>3. ASSUME pc'[u] = "mark", outbox'[Current(u)'].event = e
            PROVE  applied'[e] > 0
        <5>1. applied[e] > 0
          BY <4>1, <4>3 DEF DeliverOnce, DeliveryInv
        <5> QED
          BY <3>0, <5>1
      <4> QED
        BY <4>2, <4>3
    <3> QED
      BY <3>1, <3>2
  <2> QED
    BY <1>1, <1>4, <2>1 DEF DeliverOnce, DeliveryInv
<1>8. GuardedOnce'
  <2>1. ASSUME NEW e \in Guarded, applied'[e] > 1
        PROVE  e \in concurrent'
    <3>1. e \in Events
      BY ConstantsAssumption DEF ConstantsAssumption
    <3>2. CASE e # ev
      BY <1>1, <1>5, <1>5a, <1>5b, <2>1, <3>1, <3>2 DEF DeliverOnce, GuardedOnce
    <3>3. CASE e = ev
      BY <1>1, <1>5, <1>5a, <1>5b, <2>1, <3>1, <3>3 DEF DeliverOnce, DeliveryInv
    <3> QED
      BY <3>2, <3>3
  <2> QED
    BY <2>1 DEF GuardedOnce
<1> QED
  BY <1>7, <1>8 DEF DeliverOnce

\* Nothing is carried out at first.
LEMMA DeliverOnceInit == Init => DeliverOnce
<1> SUFFICES ASSUME Init PROVE DeliverOnce
  OBVIOUS
<1>1. /\ \A t \in Ticks : pc[t] = "idle"
      /\ \A e \in Events : applied[e] = 0
      /\ Guarded \subseteq Events
  BY ConstantsAssumption DEF Init, ConstantsAssumption
<1> QED
  BY <1>1, HolderInit DEF DeliverOnce, DeliveryInv, Delivering, GuardedOnce

\* DeliverOnce is inductive.
LEMMA DeliverOnceNext == DeliverOnce /\ [Next]_vars => DeliverOnce'
<1> SUFFICES ASSUME DeliverOnce, [Next]_vars PROVE DeliverOnce'
  OBVIOUS
<1> USE DEF tables, worker, history, vars
<1>1. HolderInv' /\ TypeOK
  BY HolderNext DEF DeliverOnce, HolderInv
<1>2. ASSUME NEW t \in Ticks, Start(t) \/ CheckJournal(t) \/ Post(t)
      PROVE  DeliverOnce'
  BY <1>1, <1>2, StartKeeps, CheckKeeps, PostKeeps
<1>3. ASSUME NEW t \in Ticks, Skip(t) \/ MarkDelivered(t) \/ Reschedule(t) \/ Bury(t)
      PROVE  DeliverOnce'
  <2>1. Advance(t) /\ applied' = applied /\ concurrent' = concurrent
    BY <1>3 DEF Skip, MarkDelivered, Reschedule, Bury, Judge
  <2> QED
    BY <1>1, <2>1, AdvanceFrame, DeliveryFrame DEF Others
<1>4. ASSUME NEW t \in Ticks, Claim(t) \/ WriteLetter(t) \/ Fail(t) \/ Abort(t) \/ FindNothing(t)
      PROVE  DeliverOnce'
  <2>1. applied' = applied /\ concurrent' = concurrent
    BY <1>4 DEF Claim, WriteLetter, Fail, Abort, FindNothing
  <2>2. \A u \in Ticks : \/ pc'[u] = pc[u] /\ batch'[u] = batch[u]
                        \/ pc'[u] \in {"idle", "next", "failed", "bury"}
    BY <1>1, <1>4 DEF Claim, WriteLetter, Fail, Abort, FindNothing, TypeOK, RunsOK
  <2> QED
    BY <1>1, <2>1, <2>2, DeliveryFrame
<1>5. CASE Crash
  BY <1>1, <1>5, DeliveryFrame DEF Crash
<1>6. ASSUME UNCHANGED <<pc, batch, applied, concurrent>>
      PROVE  DeliverOnce'
  BY <1>1, <1>6, DeliveryFrame
<1>7. CASE (\E e \in Events : Enqueue(e)) \/ TimePasses \/ UNCHANGED vars
  <2>1. UNCHANGED <<pc, batch, applied, concurrent>>
    BY <1>7 DEF Enqueue, TimePasses, BecomeDue, GrowOld, FailureWindowEnds, OpenPeriodEnds,
                CacheExpires
  <2> QED
    BY <1>6, <2>1
<1>8. CASE Administer
  <2>1. UNCHANGED <<pc, batch, applied, concurrent>>
    BY <1>8 DEF Administer, RetryRow, RetryLetter, ChooseRow, ChooseLetter, Dismiss,
                EditConfig, ResetStuck
  <2> QED
    BY <1>6, <2>1
<1> QED
  BY <1>2, <1>3, <1>4, <1>5, <1>7, <1>8 DEF Next, Step, Deliver, HandleFailure

\* The journal check that a guarded handler makes outside its transaction is
\* enough for any number of rows, retries, crashes, resets and dead letters
\* sent again: the event is posted once, unless two runs delivered it at the
\* same moment.
THEOREM GuardedOnceAlways == Spec => []GuardedOnce
<1>1. DeliverOnce => GuardedOnce
  BY DEF DeliverOnce
<1> QED
  BY DeliverOnceInit, DeliverOnceNext, <1>1, PTL DEF Spec

-----------------------------------------------------------------------------
(* Two runs deliver one event together only after somebody intervened. *)

\* A step never forgets a race, a concurrent delivery or a changed limit, and
\* never turns a dead letter back or moves it to another row.
LEMMA HistoryGrows ==
  ASSUME TypeOK, [Next]_vars
  PROVE  /\ raced \subseteq raced' /\ concurrent \subseteq concurrent' /\ drifted \subseteq drifted'
         /\ \A d \in LetterIds : letters[d].status # "absent" =>
              /\ letters'[d].row = letters[d].row
              /\ letters'[d].status # "absent"
              /\ letters[d].status = "retried" => letters'[d].status = "retried"
<1> USE DEF tables, worker, history, vars, TypeOK, LettersOK
<1>1. raced \subseteq raced' /\ concurrent \subseteq concurrent' /\ drifted \subseteq drifted'
  BY DEF Next, Step, Deliver, HandleFailure, TimePasses, Administer,
       Enqueue, Claim, FindNothing, Skip, Start, CheckJournal, Post, MarkDelivered, Reschedule,
       WriteLetter, Bury, Fail, Abort, Crash, BecomeDue, GrowOld, FailureWindowEnds,
       OpenPeriodEnds, CacheExpires, ChooseRow, RetryRow, ResetStuck, Judge,
       ChooseLetter, RetryLetter, Dismiss, EditConfig
<1>2. ASSUME NEW t \in Ticks, WriteLetter(t), NEW d \in LetterIds, letters[d].status # "absent"
      PROVE  letters'[d] = letters[d]
  BY <1>2 DEF WriteLetter, IsNextLetter
<1>3. ASSUME NEW d \in LetterIds, letters[d].status # "absent",
             \/ \E a \in Admins : RetryLetter(a)
             \/ \E g \in LetterIds : Dismiss(g)
      PROVE  /\ letters'[d].row = letters[d].row
             /\ letters'[d].status # "absent"
             /\ letters[d].status = "retried" => letters'[d].status = "retried"
  <2>1. letters[d] \in LetterType
    BY <1>3
  <2>2. ASSUME NEW g \in LetterIds, Dismiss(g)
        PROVE  /\ letters'[d].row = letters[d].row
               /\ letters'[d].status # "absent"
               /\ letters[d].status = "retried" => letters'[d].status = "retried"
    BY <1>3, <2>1, <2>2 DEF Dismiss, LetterType
  <2>3. ASSUME NEW a \in Admins, RetryLetter(a)
        PROVE  letters'[d].row = letters[d].row /\ letters'[d].status \in {letters[d].status, "retried"}
    <3> DEFINE g == session[a].id
    <3>1. \E q \in Rows : letters' = [letters EXCEPT ![g].status = "retried", ![g].retry = q]
      BY <2>3 DEF RetryLetter
    <3> HIDE DEF g
    <3>2. CASE d # g
      BY <3>1, <3>2
    <3>3. CASE d = g
      BY <2>1, <3>1, <3>3 DEF LetterType
    <3> QED
      BY <3>2, <3>3
  <2> QED
    BY <1>3, <2>2, <2>3
<1>4. \/ letters' = letters
      \/ \E t \in Ticks : WriteLetter(t)
      \/ \E a \in Admins : RetryLetter(a)
      \/ \E g \in LetterIds : Dismiss(g)
  BY DEF Next, Step, Deliver, HandleFailure, TimePasses, Administer,
       Enqueue, Claim, FindNothing, Skip, Start, CheckJournal, Post, MarkDelivered, Reschedule,
       Bury, Fail, Abort, Crash, BecomeDue, GrowOld, FailureWindowEnds,
       OpenPeriodEnds, CacheExpires, ChooseRow, RetryRow, ResetStuck,
       ChooseLetter, EditConfig
<1> QED
  BY <1>1, <1>2, <1>3, <1>4

\* The first row of an event makes no second one, and nothing has been retried.
LEMMA ByHandInit == Init => HandInv
<1> SUFFICES ASSUME Init PROVE HandInv
  OBVIOUS
<1>1. /\ \A r \in Rows : outbox[r].status = "absent" /\ outbox[r].event = NoEvent
      /\ \A d \in LetterIds : letters[d].status = "absent"
      /\ concurrent = {} /\ \A a \in Admins : session[a].kind = "none"
  BY DEF Init, NoRow, NoLetter, Idle
<1> QED
  BY <1>1, HolderInit DEF HandInv, ByHandInv, ConcurrentOnlyByHand

\* A retry is remembered with the event it was for.
LEMMA ResentStays ==
  ASSUME HandInv, [Next]_vars, NEW e, e # NoEvent, Resent(e)
  PROVE  Resent(e)'
<1>1. PICK r \in Rows, d \in LetterIds :
         outbox[r].event = e /\ letters[d].row = r /\ letters[d].status = "retried"
  BY DEF Resent, RowsOf, LettersOf
<1>2. outbox[r].status # "absent"
  BY <1>1 DEF HandInv, ByHandInv
<1>3. outbox'[r].event = e
  BY <1>1, <1>2, EventsKept DEF HandInv, HolderInv
<1>4. letters'[d].row = r /\ letters'[d].status = "retried"
  BY <1>1, HistoryGrows DEF HandInv, HolderInv
<1> QED
  BY <1>3, <1>4 DEF Resent, RowsOf, LettersOf

\* Only an insertion writes a row that is not there.
LEMMA AbsentStays ==
  ASSUME HandInv, [Next]_vars, NEW r \in Rows, outbox[r].status = "absent",
         ~\E e \in Events : Enqueue(e), ~\E a \in Admins : RetryLetter(a)
  PROVE  outbox'[r].event = outbox[r].event /\ outbox'[r].status = "absent"
<1> USE DEF tables, worker, history, vars
<1>0. TypeOK /\ outbox \in [Rows -> RowType]
  BY DEF HandInv, HolderInv, TypeOK
<1>1. \A t \in Ticks : r \notin Held(t)
  BY DEF HandInv, HolderInv, HeldIsProcessing
<1>2. ASSUME NEW t \in Ticks, Skip(t) \/ MarkDelivered(t) \/ Reschedule(t) \/ Bury(t)
      PROVE  outbox'[r] = outbox[r]
  <2>1. Current(t) \in Held(t)
    BY <1>0, <1>2, CurrentHeld DEF Skip, MarkDelivered, Reschedule, Bury
  <2> QED
    BY <1>0, <1>1, <1>2, <2>1 DEF Skip, MarkDelivered, Reschedule, Bury
<1>3. ASSUME NEW t \in Ticks, Claim(t)
      PROVE  outbox'[r] = outbox[r]
  BY <1>3 DEF Claim, FirstClaimable, Claimable
<1>4. ASSUME NEW a \in Admins, RetryRow(a)
      PROVE  outbox'[r] = outbox[r]
  <2> DEFINE q == session[a].id
  <2>1. /\ q # r
        /\ outbox' = [outbox EXCEPT ![q] = [outbox[q] EXCEPT !.status = "pending",
                       !.attempts = 0, !.errors = 0, !.due = TRUE]]
    BY <1>4 DEF RetryRow, HandInv, ByHandInv
  <2> HIDE DEF q
  <2> QED
    BY <1>0, <2>1
<1>5. ASSUME NEW q \in Rows, BecomeDue(q) \/ GrowOld(q)
      PROVE  outbox'[r].event = outbox[r].event /\ outbox'[r].status = outbox[r].status
  BY <1>0, <1>5 DEF BecomeDue, GrowOld, RowType
<1>6. CASE ResetStuck
  BY <1>6 DEF ResetStuck, Stuck
<1>7. ASSUME NEW t \in Ticks, Start(t) \/ CheckJournal(t) \/ Post(t) \/ WriteLetter(t)
                              \/ Fail(t) \/ Abort(t) \/ FindNothing(t)
      PROVE  outbox' = outbox
  BY <1>7 DEF Start, CheckJournal, Post, WriteLetter, Fail, Abort, FindNothing
<1>8. ASSUME \/ Crash \/ FailureWindowEnds \/ OpenPeriodEnds \/ CacheExpires
             \/ UNCHANGED vars
             \/ \E a \in Admins, q \in Rows : ChooseRow(a, q)
             \/ \E a \in Admins, d \in LetterIds : ChooseLetter(a, d)
             \/ \E d \in LetterIds : Dismiss(d)
             \/ \E n \in Limits : EditConfig(n)
      PROVE  outbox' = outbox
  BY <1>8 DEF Crash, FailureWindowEnds, OpenPeriodEnds, CacheExpires,
              ChooseRow, ChooseLetter, Dismiss, EditConfig
<1> QED
  BY <1>2, <1>3, <1>4, <1>5, <1>6, <1>7, <1>8
     DEF Next, Step, Deliver, HandleFailure, TimePasses, Administer

\* The rows a step adds: the first of its event, or a copy made by a retry.
LEMMA NewRows ==
  ASSUME HandInv, [Next]_vars
  PROVE  \/ \A r \in Rows : outbox'[r].event = outbox[r].event
                          /\ (outbox'[r].status = "absent" <=> outbox[r].status = "absent")
         \/ \E q \in Rows, e \in Events :
              /\ outbox[q].status = "absent" /\ outbox'[q].status # "absent"
              /\ outbox'[q].event = e
              /\ \A r \in Rows \ {q} : outbox'[r] = outbox[r]
              /\ (\A r \in Rows : outbox[r].event # e) \/ Resent(e)'
<1> USE DEF tables, worker, history, vars
<1>0. /\ TypeOK /\ outbox \in [Rows -> RowType] /\ letters \in [LetterIds -> LetterType]
      /\ SessionsOK
  BY DEF HandInv, HolderInv, TypeOK, LettersOK
<1>1. ASSUME NEW e \in Events, Enqueue(e)
      PROVE  \E q \in Rows :
              /\ outbox[q].status = "absent" /\ outbox'[q].status # "absent"
              /\ outbox'[q].event = e
              /\ \A r \in Rows \ {q} : outbox'[r] = outbox[r]
              /\ \A r \in Rows : outbox[r].event # e
  BY <1>0, <1>1 DEF Enqueue, IsNextRow, Inserted
<1>2. ASSUME NEW a \in Admins, RetryLetter(a)
      PROVE  \E q \in Rows, e \in Events :
              /\ outbox[q].status = "absent" /\ outbox'[q].status # "absent"
              /\ outbox'[q].event = e
              /\ \A r \in Rows \ {q} : outbox'[r] = outbox[r]
              /\ Resent(e)'
  <2> DEFINE d == session[a].id
  <2> DEFINE k == letters[d].row
  <2>1. /\ session[a].kind = "letter"
        /\ \E q \in Rows : /\ outbox[q].status = "absent"
                           /\ outbox' = [outbox EXCEPT ![q] = Inserted(outbox[k].event)]
                           /\ letters' = [letters EXCEPT ![d] =
                                [letters[d] EXCEPT !.status = "retried", !.retry = q]]
    BY <1>2 DEF RetryLetter, IsNextRow
  <2>2. d \in LetterIds /\ letters[d].status # "absent" /\ letters[d] \in LetterType
    BY <1>0, <2>1 DEF SessionsOK, Idle
  <2> HIDE DEF d
  <2>3. k \in Rows /\ outbox[k].status # "absent" /\ outbox[k].event \in Events
    BY <1>0, <2>2 DEF HandInv, HolderInv, TypeOK, LettersOK, ByHandInv, RowType
  <2>e. PICK e \in Events : e = outbox[k].event
    BY <2>3
  <2>4. PICK q \in Rows : /\ outbox[q].status = "absent"
                          /\ outbox' = [outbox EXCEPT ![q] = Inserted(e)]
                          /\ letters' = [letters EXCEPT ![d] =
                               [letters[d] EXCEPT !.status = "retried", !.retry = q]]
    BY <2>1, <2>e
  <2>5. outbox'[q] = Inserted(e) /\ \A r \in Rows \ {q} : outbox'[r] = outbox[r]
    BY <1>0, <2>4
  <2>6. k # q /\ outbox'[k] = outbox[k]
    BY <2>3, <2>4, <2>5
  <2>7. letters'[d].row = k /\ letters'[d].status = "retried"
    BY <1>0, <2>2, <2>4 DEF LetterType
  <2>8. Resent(e)'
    <3>1. \E r \in Rows : outbox'[r].event = e /\ letters'[d].row = r /\ letters'[d].status = "retried"
      BY <2>3, <2>e, <2>6, <2>7
    <3> QED
      BY <2>2, <3>1 DEF Resent, RowsOf, LettersOf
  <2> QED
    <3>1. outbox'[q].status # "absent" /\ outbox'[q].event = e
      BY <2>5 DEF Inserted
    <3> QED
      BY <2>4, <2>5, <2>8, <3>1
<1>3. CASE ~\E e \in Events : Enqueue(e)
  <2> SUFFICES ASSUME ~\E a \in Admins : RetryLetter(a)
               PROVE  \A r \in Rows : outbox'[r].event = outbox[r].event
                          /\ (outbox'[r].status = "absent" <=> outbox[r].status = "absent")
    BY <1>2
  <2> SUFFICES ASSUME NEW r \in Rows, outbox[r].status = "absent"
               PROVE  outbox'[r].event = outbox[r].event /\ outbox'[r].status = "absent"
    BY <1>0, EventsKept
  <2> QED
    BY <1>3, AbsentStays
<1> QED
  BY <1>1, <1>2, <1>3

\* A dead letter appears for the row its run has in hand.
LEMMA NewLetter ==
  ASSUME TypeOK, [Next]_vars, NEW d \in LetterIds, letters[d].status = "absent",
         letters'[d].status # "absent"
  PROVE  \E t \in Ticks : WriteLetter(t) /\ letters'[d].row = Current(t)
<1> USE DEF tables, worker, history, vars
<1>0. /\ letters \in [LetterIds -> LetterType] /\ SessionsOK
  BY DEF TypeOK, LettersOK
<1>1. ASSUME NEW t \in Ticks, WriteLetter(t)
      PROVE  letters'[d].row = Current(t)
  <2>1. PICK g \in LetterIds : letters' = [letters EXCEPT ![g] =
            [status |-> "pending", row |-> Current(t), total |-> Snapshot(t).attempts + 1,
             errors |-> Snapshot(t).errors + 1, retry |-> 0]]
    BY <1>1 DEF WriteLetter
  <2> QED
    BY <1>0, <2>1
<1>2. ASSUME NEW a \in Admins, RetryLetter(a)
      PROVE  FALSE
  <2> DEFINE g == session[a].id
  <2>1. /\ session[a].kind = "letter"
        /\ \E q \in Rows : letters' = [letters EXCEPT ![g].status = "retried", ![g].retry = q]
    BY <1>2 DEF RetryLetter
  <2>2. g # d
    BY <1>0, <2>1 DEF SessionsOK, Idle
  <2> HIDE DEF g
  <2> QED
    BY <1>0, <2>1, <2>2
<1>3. ASSUME NEW g \in LetterIds, Dismiss(g)
      PROVE  FALSE
  BY <1>0, <1>3 DEF Dismiss
<1>4. \/ letters' = letters
      \/ \E t \in Ticks : WriteLetter(t)
      \/ \E a \in Admins : RetryLetter(a)
      \/ \E g \in LetterIds : Dismiss(g)
  BY DEF Next, Step, Deliver, HandleFailure, TimePasses, Administer,
       Enqueue, Claim, FindNothing, Skip, Start, CheckJournal, Post, MarkDelivered, Reschedule,
       Bury, Fail, Abort, Crash, BecomeDue, GrowOld, FailureWindowEnds,
       OpenPeriodEnds, CacheExpires, ChooseRow, RetryRow, ResetStuck,
       ChooseLetter, EditConfig
<1> QED
  BY <1>1, <1>2, <1>3, <1>4

\* Two rows of one event: one of them was made by a retry.
LEMMA SecondRows ==
  ASSUME HandInv, [Next]_vars, NEW r \in Rows, NEW q \in Rows, r # q,
         NEW e, e # NoEvent, outbox'[r].event = e, outbox'[q].event = e
  PROVE  Resent(e)'
<1>2. CASE outbox[r].event = e /\ outbox[q].event = e
  <2>1. Resent(e)
    BY <1>2 DEF HandInv, ByHandInv
  <2> QED
    BY <2>1, ResentStays
<1>3. CASE ~(outbox[r].event = e /\ outbox[q].event = e)
  <2>1. PICK n \in Rows, f \in Events :
              /\ outbox'[n].event = f
              /\ \A k \in Rows \ {n} : outbox'[k] = outbox[k]
              /\ (\A k \in Rows : outbox[k].event # f) \/ Resent(f)'
    BY <1>3, NewRows
  <2>2. f = e /\ (\E k \in Rows : outbox[k].event = f)
    BY <1>3, <2>1
  <2> QED
    BY <2>1, <2>2
<1> QED
  BY <1>2, <1>3

\* ByHandInv is kept.
LEMMA ByHandNext == HandInv /\ [Next]_vars => ByHandInv'
<1> SUFFICES ASSUME HandInv, [Next]_vars PROVE ByHandInv'
  OBVIOUS
<1> USE DEF tables, worker, history, vars
<1>0. /\ TypeOK /\ TypeOK' /\ HolderInv /\ ByHandInv
  BY TypeNext DEF HandInv, HolderInv
<1>1. \A r \in Rows : outbox'[r].status = "absent" <=> outbox'[r].event = NoEvent
  BY <1>0, NewRows, ConstantsAssumption DEF ByHandInv, ConstantsAssumption
<1>2. ASSUME NEW d \in LetterIds, letters'[d].status # "absent"
      PROVE  outbox'[letters'[d].row].status # "absent"
  <2>1. CASE letters[d].status # "absent"
    <3>1. letters[d].row \in Rows /\ outbox[letters[d].row].status # "absent"
      BY <1>0, <2>1 DEF TypeOK, LettersOK, ByHandInv
    <3> QED
      BY <1>0, <2>1, <3>1, EventsKept, HistoryGrows
  <2>2. CASE letters[d].status = "absent"
    <3>1. PICK t \in Ticks : WriteLetter(t) /\ letters'[d].row = Current(t)
      BY <1>0, <1>2, <2>2, NewLetter
    <3>2. Current(t) \in Held(t) /\ outbox' = outbox
      BY <1>0, <3>1, CurrentHeld DEF WriteLetter
    <3> QED
      BY <1>0, <3>1, <3>2 DEF HolderInv, HeldIsProcessing
  <2> QED
    BY <2>1, <2>2
<1>3. ASSUME NEW a \in Admins, session'[a].kind = "row"
      PROVE  outbox'[session'[a].id].status # "absent"
  <2>1. \/ session'[a] = session[a]
        \/ \E r \in Rows : ChooseRow(a, r)
    <3>1. \/ session' = session
          \/ \E b \in Admins, r \in Rows : ChooseRow(b, r)
          \/ \E b \in Admins, d \in LetterIds : ChooseLetter(b, d)
          \/ \E b \in Admins : RetryRow(b) \/ RetryLetter(b)
      BY DEF Next, Step, Deliver, HandleFailure, TimePasses, Administer,
       Enqueue, Claim, FindNothing, Skip, Start, CheckJournal, Post, MarkDelivered, Reschedule,
       WriteLetter, Bury, Fail, Abort, Crash, BecomeDue, GrowOld, FailureWindowEnds,
       OpenPeriodEnds, CacheExpires, ResetStuck, Dismiss, EditConfig
    <3>2. ASSUME NEW b \in Admins, RetryRow(b) \/ RetryLetter(b)
          PROVE  session'[a] = session[a]
      BY <1>0, <1>3, <3>2 DEF RetryRow, RetryLetter, Idle, TypeOK, SessionsOK
    <3>3. ASSUME NEW b \in Admins, NEW d \in LetterIds, ChooseLetter(b, d)
          PROVE  session'[a] = session[a]
      BY <1>0, <1>3, <3>3 DEF ChooseLetter, TypeOK, SessionsOK
    <3>4. ASSUME NEW b \in Admins, NEW r \in Rows, ChooseRow(b, r), b # a
          PROVE  session'[a] = session[a]
      BY <1>0, <3>4 DEF ChooseRow, TypeOK, SessionsOK
    <3> QED
      BY <3>1, <3>2, <3>3, <3>4
  <2>2. CASE session'[a] = session[a]
    <3>1. session[a].id \in Rows /\ outbox[session[a].id].status # "absent"
      BY <1>0, <1>3, <2>2 DEF TypeOK, SessionsOK, ByHandInv, Idle
    <3> QED
      BY <1>0, <2>2, <3>1, EventsKept
  <2>3. ASSUME NEW r \in Rows, ChooseRow(a, r)
        PROVE  session'[a].id = r /\ outbox'[r].status # "absent"
    BY <1>0, <2>3 DEF ChooseRow, TypeOK, SessionsOK
  <2> QED
    BY <2>1, <2>2, <2>3
<1>4. concurrent' \subseteq Events
  <2>1. ASSUME NEW t \in Ticks, Start(t)
        PROVE  concurrent' \subseteq Events
    <3>1. Current(t) \in Held(t) /\ Current(t) \in Rows
      BY <1>0, <2>1, CurrentHeld DEF Start
    <3>2. outbox[Current(t)].event \in Events
      BY <1>0, <3>1 DEF HolderInv, HeldIsProcessing, ByHandInv, TypeOK, RowType
    <3> QED
      BY <1>0, <2>1, <3>2 DEF Start, ByHandInv
  <2>2. (\E t \in Ticks : Start(t)) \/ concurrent' = concurrent
    BY DEF Next, Step, Deliver, HandleFailure, TimePasses, Administer,
       Enqueue, Claim, FindNothing, Skip, CheckJournal, Post, MarkDelivered, Reschedule,
       WriteLetter, Bury, Fail, Abort, Crash, BecomeDue, GrowOld, FailureWindowEnds,
       OpenPeriodEnds, CacheExpires, ChooseRow, RetryRow, ResetStuck, Judge,
       ChooseLetter, RetryLetter, Dismiss, EditConfig
  <2> QED
    BY <1>0, <2>1, <2>2 DEF ByHandInv
<1>5. ASSUME NEW r \in Rows, NEW q \in Rows, r # q, NEW e, e # NoEvent,
             outbox'[r].event = e, outbox'[q].event = e
      PROVE  Resent(e)'
  BY <1>5, SecondRows
<1> QED
  BY <1>1, <1>2, <1>3, <1>4, <1>5 DEF ByHandInv, Resent, RowsOf, LettersOf

\* The invariant is inductive: a run that finds another delivering the same
\* event holds the same row, which is raced, or the event has two rows.
LEMMA HandNext == HandInv /\ [Next]_vars => HandInv'
<1> SUFFICES ASSUME HandInv, [Next]_vars PROVE HandInv'
  OBVIOUS
<1>0. HolderInv /\ HolderInv' /\ ByHandInv /\ ByHandInv' /\ TypeOK
  BY HolderNext, ByHandNext DEF HandInv, HolderInv
<1> DEFINE Why(e) == \E r \in RowsOf(e) : r \in raced \/ \E d \in LettersOf(r) : letters[d].status = "retried"
<1>1. ASSUME NEW e \in concurrent
      PROVE  Why(e)'
  <2>1. e \in Events /\ e # NoEvent
    BY <1>0, <1>1, ConstantsAssumption DEF ByHandInv, ConstantsAssumption
  <2>2. PICK r \in Rows : outbox[r].event = e /\ (r \in raced \/ \E d \in LettersOf(r) : letters[d].status = "retried")
    BY <1>1 DEF HandInv, ConcurrentOnlyByHand, RowsOf
  <2>3. CASE r \in raced
    <3>1. outbox'[r].event = e /\ r \in raced'
      BY <1>0, <2>1, <2>2, <2>3, EventsKept, HistoryGrows DEF ByHandInv
    <3> QED
      BY <3>1 DEF RowsOf
  <2>4. CASE \E d \in LettersOf(r) : letters[d].status = "retried"
    <3>1. Resent(e)
      BY <2>2, <2>4 DEF Resent, RowsOf
    <3>2. Resent(e)'
      BY <2>1, <3>1, ResentStays
    <3> QED
      BY <3>2 DEF Resent
  <2> QED
    BY <2>2, <2>3, <2>4
<1>2. ASSUME NEW t \in Ticks, Start(t), NEW e \in concurrent', e \notin concurrent
      PROVE  Why(e)'
  <2>1. PICK u \in Ticks \ {t} : Delivering(u, e) /\ e = outbox[Current(t)].event
    BY <1>2 DEF Start
  <2>2. /\ outbox' = outbox /\ raced' = raced /\ letters' = letters
    BY <1>2 DEF Start, tables
  <2>3. /\ Current(t) \in Held(t) /\ Current(t) \in Rows
        /\ Current(u) \in Held(u) /\ Current(u) \in Rows
    BY <1>0, <1>2, <2>1, CurrentHeld DEF Start, Delivering
  <2>4. CASE Current(t) = Current(u)
    <3>1. Current(t) \in raced
      BY <1>0, <2>1, <2>3, <2>4 DEF HolderInv, OneHolder
    <3> QED
      BY <2>1, <2>2, <2>3, <3>1 DEF RowsOf
  <2>5. CASE Current(t) # Current(u)
    <3>1. outbox[Current(u)].event = e /\ e # NoEvent
      BY <1>0, <1>2, <2>1, ConstantsAssumption DEF Delivering, ByHandInv, ConstantsAssumption
    <3>2. Resent(e)
      BY <1>0, <2>1, <2>3, <2>5, <3>1 DEF ByHandInv
    <3> QED
      BY <2>2, <3>2 DEF Resent, RowsOf, LettersOf
  <2> QED
    BY <2>4, <2>5
<1>3. (\E t \in Ticks : Start(t)) \/ concurrent' = concurrent
  BY DEF Next, Step, Deliver, HandleFailure, TimePasses, Administer, tables, worker, history, vars,
       Enqueue, Claim, FindNothing, Skip, CheckJournal, Post, MarkDelivered, Reschedule,
       WriteLetter, Bury, Fail, Abort, Crash, BecomeDue, GrowOld, FailureWindowEnds,
       OpenPeriodEnds, CacheExpires, ChooseRow, RetryRow, ResetStuck, Judge,
       ChooseLetter, RetryLetter, Dismiss, EditConfig
<1>4. \A e \in concurrent' : Why(e)'
  BY <1>1, <1>2, <1>3
<1>5. ConcurrentOnlyByHand'
  BY <1>4 DEF ConcurrentOnlyByHand
<1> QED
  BY <1>0, <1>5 DEF HandInv

\* Two runs deliver one event at the same moment only after an administrator
\* raced with a run or retried a dead letter of it: overlapping timers never do.
THEOREM ConcurrentOnlyByHandAlways == Spec => []ConcurrentOnlyByHand
<1>1. HandInv => ConcurrentOnlyByHand
  BY DEF HandInv
<1> QED
  BY ByHandInit, HandNext, <1>1, PTL DEF Spec

-----------------------------------------------------------------------------
(* The attempts of a row and the errors recorded for it agree. *)

\* What a step leaves alone: the columns CountInv reads of a row, of the dead
\* letters, and a run that only gives rows up.
SameRow(r) == /\ outbox'[r].status = outbox[r].status
              /\ outbox'[r].attempts = outbox[r].attempts
              /\ outbox'[r].errors = outbox[r].errors
              /\ outbox'[r].limit = outbox[r].limit
SameLetter(d) == /\ letters'[d].row = letters[d].row
                 /\ letters'[d].total = letters[d].total
                 /\ letters'[d].errors = letters[d].errors
                 /\ letters[d].status # "absent" => letters'[d].status # "absent"
NoMoreHeld(u) == /\ Held(u)' \subseteq Held(u)
                 /\ \A r \in Held(u)' : batch'[u][r] = batch[u][r]
                 /\ pc'[u] = "bury" => pc[u] = "bury" /\ batch'[u] = batch[u]

\* Nothing is claimed, nothing was read and no dead letter is written at first.
LEMMA CountInit == Init => CountInv
<1> SUFFICES ASSUME Init PROVE CountInv
  OBVIOUS
<1>1. /\ \A r \in Rows : outbox[r] = NoRow
      /\ \A d \in LetterIds : letters[d].row = 0
      /\ \A t \in Ticks : pc[t] = "idle" /\ Held(t) = {}
  BY DEF Init, NoLetter, Held, Unclaimed
<1>2. 0 \notin Rows
  BY DEF Rows
<1>3. \A r \in Rows : Accounted(r)
  BY <1>1 DEF Accounted, NoRow
<1>4. \A t \in Ticks : Knows(t)
  BY <1>1 DEF Knows
<1> QED
  BY <1>1, <1>2, <1>3, <1>4, HolderInit DEF CountInv

\* A step that writes the rows of S only, none of which is held afterwards,
\* and claims nothing, keeps the invariant.
LEMMA CountFrame ==
  ASSUME CountInv, [Next]_vars, NEW S \in SUBSET Rows,
         \A r \in Rows \ S : SameRow(r),
         \A r \in S : Excused(r)' \/ (Accounted(r)' /\ \A u \in Ticks : r \notin Held(u)'),
         limit' = limit \/ S = Rows,
         \A d \in LetterIds : SameLetter(d),
         \A u \in Ticks : NoMoreHeld(u)
  PROVE  CountInv'
<1>0. HolderInv' /\ TypeOK /\ TypeOK'
  BY HolderNext DEF CountInv, HolderInv
<1>1. \A r : Excused(r) => Excused(r)'
  BY <1>0, HistoryGrows DEF Excused
<1>2. \A r \in Rows : LettersOf(r)' = LettersOf(r)
  BY DEF LettersOf, SameLetter
<1>3. ASSUME NEW r \in Rows \ S, ~Excused(r)'
      PROVE  Accounted(r)'
  <2>1. Accounted(r) /\ SameRow(r) /\ limit' = limit
    BY <1>1, <1>3 DEF CountInv
  <2> QED
    BY <1>2, <2>1 DEF Accounted, SameRow
<1>4. ASSUME NEW t \in Ticks
      PROVE  Knows(t)'
  <2>1. ASSUME NEW r \in Held(t)', ~Excused(r)'
        PROVE  /\ outbox'[r].attempts = batch'[t][r].attempts + 1
               /\ outbox'[r].errors = batch'[t][r].errors
    <3>1. r \in Held(t) /\ r \in Rows /\ batch'[t][r] = batch[t][r] /\ ~Excused(r)
      BY <1>0, <1>1, <2>1 DEF NoMoreHeld, TypeOK, RunsOK
    <3>2. SameRow(r)
      BY <2>1, <3>1
    <3> QED
      BY <3>1, <3>2 DEF CountInv, Knows, SameRow
  <2>2. ASSUME pc'[t] = "bury", ~Excused(Current(t))'
        PROVE  /\ LettersOf(Current(t))' # {}
               /\ outbox'[Current(t)'].attempts >= outbox'[Current(t)'].limit
    <3>1. pc[t] = "bury" /\ Current(t)' = Current(t) /\ Held(t)' = Held(t)
      BY <2>2 DEF NoMoreHeld, Current, Held
    <3>2. Current(t)' \in Held(t)' /\ Current(t) \in Rows
      BY <1>0, <3>1, CurrentHeld
    <3>3. ~Excused(Current(t)) /\ SameRow(Current(t))
      BY <1>1, <2>2, <3>1, <3>2 DEF Excused
    <3>4. LettersOf(Current(t)) # {} /\ outbox[Current(t)].attempts >= outbox[Current(t)].limit
      BY <3>1, <3>3 DEF CountInv, Knows
    <3> QED
      BY <1>2, <3>1, <3>2, <3>3, <3>4 DEF SameRow, LettersOf
  <2> QED
    BY <2>1, <2>2 DEF Knows
<1>5. ASSUME NEW d \in LetterIds, letters'[d].row \in Rows
      PROVE  /\ letters'[d].status # "absent"
             /\ Excused(letters[d].row)' \/ letters'[d].total = letters'[d].errors
  BY <1>1, <1>5 DEF CountInv, SameLetter, Excused
<1> QED
  BY <1>0, <1>3, <1>4, <1>5 DEF CountInv

\* A run that gives its row up: the row must be accounted for, no run holds it.
LEMMA CountRelease ==
  ASSUME CountInv, [Next]_vars, NEW t \in Ticks, pc[t] # "idle", Advance(t),
         raced' = raced, limit' = limit, letters' = letters,
         NEW c, c = Current(t), \A r \in Rows \ {c} : SameRow(r),
         Excused(c)' \/ Accounted(c)'
  PROVE  CountInv'
<1>0. TypeOK /\ HolderInv
  BY DEF CountInv, HolderInv
<1>1. c \in Held(t) /\ c \in Rows
  BY <1>0, CurrentHeld
<1>2. Others(t) /\ Held(t)' = Held(t) \ {c} /\ pc'[t] \in {"idle", "next"}
  BY <1>0, AdvanceFrame
<1>3. batch'[t] = [r \in Held(t) \ {c} |-> batch[t][r]]
  BY <1>0 DEF Advance, TypeOK, RunsOK
<1>4. \A u \in Ticks : NoMoreHeld(u)
  BY <1>2, <1>3 DEF NoMoreHeld, Others, Held
<1>5. ASSUME NEW u \in Ticks, c \in Held(u)'
      PROVE  c \in raced'
  <2>1. u # t
    BY <1>2, <1>5
  <2>2. c \in Held(u)
    BY <1>4, <1>5 DEF NoMoreHeld
  <2> QED
    BY <1>0, <1>1, <2>1, <2>2 DEF HolderInv, OneHolder
<1>6. \A d \in LetterIds : SameLetter(d)
  BY DEF SameLetter
<1>7. \A r \in {c} : Excused(r)' \/ (Accounted(r)' /\ \A u \in Ticks : r \notin Held(u)')
  BY <1>5 DEF Excused
<1>8. {c} \in SUBSET Rows
  BY <1>1
<1> QED
  BY <1>4, <1>6, <1>7, <1>8, CountFrame

\* A row given up: skipped and its attempt given back, delivered, failed with
\* one error more, or buried with its dead letter.
LEMMA CountGiveUp ==
  ASSUME CountInv, [Next]_vars, NEW t \in Ticks,
         Skip(t) \/ MarkDelivered(t) \/ Reschedule(t) \/ Bury(t)
  PROVE  CountInv'
<1> USE DEF tables, worker, history, vars
<1>0. /\ HolderInv /\ TypeOK /\ outbox \in [Rows -> RowType]
      /\ \A u \in Ticks : Knows(u)
      /\ \A r \in Rows : Excused(r) \/ Accounted(r)
  BY DEF CountInv, HolderInv, TypeOK
<1>1. pc[t] # "idle" /\ Advance(t) /\ raced' = raced /\ limit' = limit /\ letters' = letters
  BY DEF Skip, MarkDelivered, Reschedule, Bury
<1>2. PICK c \in Rows : c = Current(t) /\ c \in Held(t)
  BY <1>0, <1>1, CurrentHeld
<1>3. LettersOf(c)' = LettersOf(c) /\ (Excused(c) => Excused(c)')
  BY <1>0, <1>1, HistoryGrows DEF LettersOf, Excused
<1>4. ~Excused(c) => /\ outbox[c].status = "processing" /\ outbox[c].limit = limit
                     /\ outbox[c].attempts = outbox[c].errors + 1
                     /\ outbox[c].attempts = batch[t][c].attempts + 1
                     /\ outbox[c].errors = batch[t][c].errors
                     /\ pc[t] = "bury" => /\ LettersOf(c) # {}
                                          /\ outbox[c].attempts >= outbox[c].limit
  BY <1>0, <1>2 DEF HolderInv, HeldIsProcessing, Excused, Accounted, Knows
<1>5. outbox[c].errors \in Nat /\ outbox[c].attempts \in Int
  BY <1>0 DEF RowType
<1>6. CASE Skip(t)
  <2>1. outbox' = [outbox EXCEPT ![c].status = "pending", ![c].attempts = outbox[c].attempts - 1]
    BY <1>0, <1>2, <1>6 DEF Skip
  <2>2. /\ outbox'[c].status = "pending" /\ outbox'[c].attempts = outbox[c].attempts - 1
        /\ outbox'[c].errors = outbox[c].errors /\ outbox'[c].limit = outbox[c].limit
        /\ \A r \in Rows \ {c} : outbox'[r] = outbox[r]
    BY <1>0, <2>1 DEF RowType
  <2>3. Excused(c)' \/ Accounted(c)'
    BY <1>1, <1>3, <1>4, <1>5, <2>2 DEF Accounted
  <2> QED
    BY <1>1, <1>2, <2>2, <2>3, CountRelease DEF SameRow
<1>7. CASE MarkDelivered(t)
  <2>1. /\ outbox'[c].status = "delivered" /\ outbox'[c].limit = outbox[c].limit
        /\ \A r \in Rows \ {c} : outbox'[r] = outbox[r]
    BY <1>0, <1>2, <1>7 DEF MarkDelivered, RowType
  <2>2. Excused(c)' \/ Accounted(c)'
    BY <1>1, <1>3, <1>4, <2>1 DEF Accounted
  <2> QED
    BY <1>1, <1>2, <2>1, <2>2, CountRelease DEF SameRow
<1>8. CASE Reschedule(t)
  <2>k. PICK k \in Nat : k = Snapshot(t).errors + 1
    BY <1>0, <1>1, CurrentHeld
  <2>1. /\ outbox' = [outbox EXCEPT ![c].status = "failed", ![c].errors = k, ![c].due = FALSE]
        /\ pc[t] = "failed" /\ ~(batch[t][c].attempts + 1 >= config[t])
        /\ k = batch[t][c].errors + 1
        /\ config[t] # limit => c \in drifted'
    BY <1>2, <1>8, <2>k DEF Reschedule, Exhausted, Snapshot, Judge
  <2>2. batch[t][c].attempts \in Int /\ config[t] \in Int /\ limit \in Int
    BY <1>0, <1>2, ConstantsAssumption DEF TypeOK, RunsOK, WorkerOK, ConstantsAssumption
  <2>3. /\ outbox'[c].status = "failed" /\ outbox'[c].errors = k
        /\ outbox'[c].attempts = outbox[c].attempts /\ outbox'[c].limit = outbox[c].limit
        /\ \A r \in Rows \ {c} : outbox'[r] = outbox[r]
    <3>1. outbox' = [outbox EXCEPT ![c].status = "failed", ![c].errors = k, ![c].due = FALSE]
      BY <2>1
    <3> QED
      BY <1>0, <3>1 DEF RowType
  <2>4. Excused(c)' \/ (outbox[c].attempts < outbox[c].limit /\ ~Excused(c))
    BY <1>3, <1>4, <2>1, <2>2 DEF Excused
  <2>5. Excused(c)' \/ Accounted(c)'
    BY <1>1, <1>3, <1>4, <1>5, <2>1, <2>3, <2>4 DEF Accounted
  <2> QED
    BY <1>1, <1>2, <2>3, <2>5, CountRelease DEF SameRow
<1>9. CASE Bury(t)
  <2>1. /\ outbox'[c].status = "failed" /\ outbox'[c].limit = outbox[c].limit
        /\ outbox'[c].attempts = outbox[c].attempts /\ outbox'[c].errors = outbox[c].errors
        /\ \A r \in Rows \ {c} : outbox'[r] = outbox[r]
        /\ pc[t] = "bury"
    BY <1>0, <1>2, <1>9 DEF Bury, RowType
  <2>2. Excused(c)' \/ Accounted(c)'
    BY <1>1, <1>3, <1>4, <2>1 DEF Accounted
  <2> QED
    BY <1>1, <1>2, <2>1, <2>2, CountRelease DEF SameRow
<1> QED
  BY <1>6, <1>7, <1>8, <1>9

\* A claim: every row claimed had as many attempts as errors, and gets one more.
LEMMA CountClaim ==
  ASSUME CountInv, [Next]_vars, NEW t \in Ticks, Claim(t)
  PROVE  CountInv'
<1> USE DEF tables, worker, history, vars
<1>0. /\ HolderInv /\ HolderInv' /\ TypeOK /\ outbox \in [Rows -> RowType]
      /\ \A u \in Ticks : Knows(u)
      /\ \A r \in Rows : Excused(r) \/ Accounted(r)
  BY HolderNext DEF CountInv, HolderInv, TypeOK
<1>1. raced' = raced /\ drifted' = drifted /\ limit' = limit /\ letters' = letters
  BY DEF Claim
<1>2. /\ \A r : LettersOf(r)' = LettersOf(r)
      /\ \A r : Excused(r)' <=> Excused(r)
  BY <1>1 DEF LettersOf, Excused
<1>3. /\ FirstClaimable \subseteq Rows
      /\ \A r \in FirstClaimable : /\ outbox[r].status \in {"pending", "failed"}
                                  /\ outbox[r].attempts < outbox[r].limit
  BY DEF FirstClaimable, Claimable
<1>4. /\ batch'[t] = [r \in FirstClaimable |->
            [attempts |-> outbox[r].attempts, errors |-> outbox[r].errors]]
      /\ pc'[t] = "next" /\ Others(t)
  BY <1>0 DEF Claim, TypeOK, RunsOK, Others
<1>5. ASSUME NEW r \in FirstClaimable
      PROVE  /\ outbox'[r].status = "processing" /\ outbox'[r].attempts = outbox[r].attempts + 1
             /\ outbox'[r].errors = outbox[r].errors /\ outbox'[r].limit = outbox[r].limit
  BY <1>0, <1>3 DEF Claim, RowType
<1>6. \A r \in Rows \ FirstClaimable : outbox'[r] = outbox[r]
  BY DEF Claim
<1>7. ASSUME NEW r \in Rows, ~Excused(r)'
      PROVE  Accounted(r)'
  <2>1. Accounted(r) /\ outbox[r] \in RowType /\ limit \in Int
    BY <1>0, <1>2, <1>7, ConstantsAssumption DEF TypeOK, ConstantsAssumption
  <2>2. CASE r \in FirstClaimable
    <3>1. outbox[r].attempts = outbox[r].errors /\ outbox[r].limit = limit
      BY <1>3, <2>1, <2>2 DEF Accounted, RowType
    <3> QED
      BY <1>1, <1>5, <2>2, <3>1 DEF Accounted
  <2>3. CASE r \notin FirstClaimable
    BY <1>1, <1>2, <1>6, <2>1, <2>3 DEF Accounted
  <2> QED
    BY <2>2, <2>3
<1>8. Knows(t)'
  BY <1>3, <1>4, <1>5 DEF Knows, Held
<1>9. ASSUME NEW u \in Ticks \ {t}
      PROVE  Knows(u)'
  <2>1. batch'[u] = batch[u] /\ pc'[u] = pc[u] /\ Held(u)' = Held(u) /\ Current(u)' = Current(u)
    BY <1>4 DEF Others, Held, Current
  <2>2. ASSUME NEW r \in Held(u), ~Excused(r)
        PROVE  r \in Rows /\ outbox'[r] = outbox[r]
    <3>1. r \in Rows /\ outbox[r].status = "processing"
      BY <1>0, <2>2 DEF HolderInv, HeldIsProcessing, TypeOK, RunsOK, Excused
    <3> QED
      BY <1>3, <1>6, <3>1
  <2>3. pc[u] = "bury" => Current(u) \in Held(u)
    BY <1>0, CurrentHeld
  <2>4. ASSUME NEW r \in Held(u)', ~Excused(r)'
        PROVE  /\ outbox'[r].attempts = batch'[u][r].attempts + 1
               /\ outbox'[r].errors = batch'[u][r].errors
    BY <1>0, <1>2, <2>1, <2>2, <2>4 DEF Knows
  <2>5. ASSUME pc'[u] = "bury", ~Excused(Current(u))'
        PROVE  /\ LettersOf(Current(u))' # {}
               /\ outbox'[Current(u)'].attempts >= outbox'[Current(u)'].limit
    <3>1. PICK c : c = Current(u) /\ c = Current(u)'
      BY <2>1
    <3>2. c \in Held(u) /\ pc[u] = "bury" /\ ~Excused(c)
      BY <1>2, <2>1, <2>3, <2>5, <3>1 DEF Excused
    <3>3. LettersOf(c) # {} /\ outbox[c].attempts >= outbox[c].limit
      BY <1>0, <3>1, <3>2 DEF Knows
    <3> QED
      BY <1>1, <2>2, <3>1, <3>2, <3>3 DEF LettersOf
  <2> QED
    BY <2>4, <2>5 DEF Knows
<1>10. \A d \in LetterIds : letters'[d].row \in Rows =>
         /\ letters'[d].status # "absent"
         /\ Excused(letters[d].row)' \/ letters'[d].total = letters'[d].errors
  BY <1>1, <1>2 DEF CountInv, Excused
<1> QED
  BY <1>0, <1>7, <1>8, <1>9, <1>10 DEF CountInv

\* A dead letter is written for the row in hand, with the attempts and the
\* errors its run had read when it claimed the row.
LEMMA CountLetter ==
  ASSUME CountInv, [Next]_vars, NEW t \in Ticks, WriteLetter(t)
  PROVE  CountInv'
<1> USE DEF tables, worker, history, vars
<1>0. /\ HolderInv /\ HolderInv' /\ TypeOK /\ outbox \in [Rows -> RowType]
      /\ letters \in [LetterIds -> LetterType]
      /\ \A u \in Ticks : Knows(u)
      /\ \A r \in Rows : Excused(r) \/ Accounted(r)
  BY HolderNext DEF CountInv, HolderInv, TypeOK, LettersOK
<1>1. /\ outbox' = outbox /\ batch' = batch /\ limit' = limit /\ pc[t] = "failed"
      /\ pc' = [pc EXCEPT ![t] = "bury"]
  BY DEF WriteLetter
<1>2. PICK c \in Rows : c = Current(t) /\ c \in Held(t)
  BY <1>0, <1>1, CurrentHeld
<1>3. PICK d \in LetterIds :
        /\ letters[d].status = "absent"
        /\ letters' = [letters EXCEPT ![d] =
             [status |-> "pending", row |-> c, total |-> batch[t][c].attempts + 1,
              errors |-> batch[t][c].errors + 1, retry |-> 0]]
  BY <1>2 DEF WriteLetter, IsNextLetter, Snapshot
<1>4. /\ letters'[d].status = "pending" /\ letters'[d].row = c
      /\ letters'[d].total = batch[t][c].attempts + 1
      /\ letters'[d].errors = batch[t][c].errors + 1
      /\ \A g \in LetterIds \ {d} : letters'[g] = letters[g]
  BY <1>0, <1>3
<1>5. \A r : Excused(r) => Excused(r)'
  BY <1>0, HistoryGrows DEF Excused
<1>6. \A r \in Rows : LettersOf(r) # {} => LettersOf(r)' # {}
  <2>1. letters[d].row \notin Rows
    BY <1>3 DEF CountInv
  <2> QED
    BY <1>4, <2>1 DEF LettersOf
<1>7. \A u \in Ticks : Held(u)' = Held(u) /\ Current(u)' = Current(u)
  BY <1>1 DEF Held, Current
<1>8. ~Excused(c)' => /\ batch[t][c].attempts = batch[t][c].errors
                      /\ outbox[c].attempts >= outbox[c].limit
  <2> SUFFICES ASSUME ~Excused(c)' PROVE /\ batch[t][c].attempts = batch[t][c].errors
                                         /\ outbox[c].attempts >= outbox[c].limit
    OBVIOUS
  <2>1. ~Excused(c) /\ config[t] = limit
    BY <1>2, <1>5 DEF WriteLetter, Judge, Excused
  <2>2. batch[t][c].attempts + 1 >= config[t]
    BY <1>2 DEF WriteLetter, Exhausted, Snapshot
  <2>3. /\ outbox[c].status = "processing" /\ outbox[c].limit = limit
        /\ outbox[c].attempts = outbox[c].errors + 1
        /\ outbox[c].attempts = batch[t][c].attempts + 1
        /\ outbox[c].errors = batch[t][c].errors
    BY <1>0, <1>2, <2>1 DEF HolderInv, HeldIsProcessing, Excused, Accounted, Knows
  <2>4. outbox[c] \in RowType /\ batch[t][c] \in [attempts : Int, errors : Nat]
    BY <1>0, <1>2 DEF TypeOK, RunsOK
  <2> QED
    BY <2>1, <2>2, <2>3, <2>4 DEF RowType
<1>9. ASSUME NEW r \in Rows, ~Excused(r)'
      PROVE  Accounted(r)'
  BY <1>0, <1>1, <1>5, <1>6, <1>9 DEF Accounted
<1>10. ASSUME NEW u \in Ticks
       PROVE  Knows(u)'
  <2>1. ASSUME NEW r \in Held(u)', ~Excused(r)'
        PROVE  /\ outbox'[r].attempts = batch'[u][r].attempts + 1
               /\ outbox'[r].errors = batch'[u][r].errors
    BY <1>0, <1>1, <1>5, <1>7, <2>1 DEF Knows
  <2>2. ASSUME pc'[u] = "bury", ~Excused(Current(u))'
        PROVE  /\ LettersOf(Current(u))' # {}
               /\ outbox'[Current(u)'].attempts >= outbox'[Current(u)'].limit
    <3>1. CASE u = t
      <4>1. Current(u)' = c /\ ~Excused(c)'
        BY <1>2, <1>7, <2>2, <3>1 DEF Excused
      <4> QED
        BY <1>1, <1>4, <1>8, <4>1 DEF LettersOf
    <3>2. CASE u # t
      <4>1. pc[u] = "bury"
        BY <1>0, <1>1, <2>2, <3>2 DEF TypeOK, RunsOK
      <4>2. PICK q \in Rows : q = Current(u)
        BY <1>0, <4>1, CurrentHeld
      <4>3. Current(u)' = q /\ ~Excused(q)
        BY <1>5, <1>7, <2>2, <4>2 DEF Excused
      <4>4. LettersOf(q) # {} /\ outbox[q].attempts >= outbox[q].limit
        BY <1>0, <4>1, <4>2, <4>3 DEF Knows
      <4>5. LettersOf(q)' # {}
        BY <1>6, <4>4
      <4> QED
        BY <1>1, <4>3, <4>4, <4>5 DEF LettersOf
    <3> QED
      BY <3>1, <3>2
  <2> QED
    BY <2>1, <2>2 DEF Knows
<1>11. ASSUME NEW g \in LetterIds, letters'[g].row \in Rows
       PROVE  /\ letters'[g].status # "absent"
              /\ Excused(letters[g].row)' \/ letters'[g].total = letters'[g].errors
  <2>1. CASE g = d
    BY <1>4, <1>8, <2>1 DEF Excused
  <2>2. CASE g # d
    BY <1>4, <1>5, <1>11, <2>2 DEF CountInv, Excused
  <2> QED
    BY <2>1, <2>2
<1> QED
  BY <1>0, <1>9, <1>10, <1>11 DEF CountInv

\* A request of an administrator: a row reset while nobody holds it starts over
\* with no attempts and no errors, and an edited limit excuses every row.
LEMMA CountAdminister ==
  ASSUME CountInv, [Next]_vars, Administer
  PROVE  CountInv'
<1> USE DEF tables, worker, history, vars
<1>0. /\ HolderInv /\ TypeOK /\ outbox \in [Rows -> RowType] /\ SessionsOK
      /\ letters \in [LetterIds -> LetterType]
      /\ \A r \in Rows : Excused(r) \/ Accounted(r)
      /\ \A u \in Ticks : \A r \in Held(u) : r \in Rows /\ outbox[r].status # "absent"
  BY DEF CountInv, HolderInv, HeldIsProcessing, TypeOK, LettersOK, RunsOK
<1>1. UNCHANGED <<batch, pc>>
  BY DEF Administer, ChooseRow, RetryRow, ResetStuck, ChooseLetter, RetryLetter, Dismiss, EditConfig
<1>2. \A u \in Ticks : NoMoreHeld(u) /\ Held(u)' = Held(u)
  BY <1>1 DEF NoMoreHeld, Held
<1>3. \A r : Excused(r) => Excused(r)'
  BY <1>0, HistoryGrows DEF Excused
<1>4. ASSUME NEW a \in Admins, RetryRow(a)
      PROVE  CountInv'
  <2>1. PICK q \in Rows : q = session[a].id
    BY <1>0, <1>4 DEF RetryRow, SessionsOK, Idle
  <2>2. /\ outbox' = [outbox EXCEPT ![q].status = "pending", ![q].attempts = 0,
                                    ![q].errors = 0, ![q].due = TRUE]
        /\ limit' = limit /\ letters' = letters
        /\ IsHeld(q) \/ outbox[q].status = "absent" => q \in raced'
    BY <1>4, <2>1 DEF RetryRow
  <2>3. /\ outbox'[q].status = "pending" /\ outbox'[q].attempts = 0 /\ outbox'[q].errors = 0
        /\ outbox'[q].limit = outbox[q].limit
        /\ \A r \in Rows \ {q} : outbox'[r] = outbox[r]
    BY <1>0, <2>2 DEF RowType
  <2>4. Excused(q)' \/ (Accounted(q)' /\ \A u \in Ticks : q \notin Held(u)')
    BY <1>0, <1>2, <1>3, <2>2, <2>3 DEF Accounted, Excused, IsHeld
  <2>5. {q} \in SUBSET Rows /\ (\A r \in Rows \ {q} : SameRow(r)) /\ \A d \in LetterIds : SameLetter(d)
    BY <2>2, <2>3 DEF SameRow, SameLetter
  <2>6. \A r \in {q} : Excused(r)' \/ (Accounted(r)' /\ \A u \in Ticks : r \notin Held(u)')
    BY <2>4
  <2> QED
    BY <1>2, <2>2, <2>5, <2>6, CountFrame
<1>5. CASE ResetStuck
  <2> DEFINE S == {r \in Rows : Stuck(r)}
  <2>1. /\ limit' = limit /\ letters' = letters
        /\ \A r \in S : IsHeld(r) => r \in raced'
        /\ \A r \in Rows \ S : outbox'[r] = outbox[r]
    BY <1>5 DEF ResetStuck
  <2>2. ASSUME NEW r \in S, ~Excused(r)'
        PROVE  Accounted(r)' /\ \A u \in Ticks : r \notin Held(u)'
    <3>1. /\ outbox[r].status = "processing" /\ outbox[r].attempts = outbox[r].errors + 1
          /\ outbox[r].limit = limit /\ outbox[r] \in RowType
      BY <1>0, <1>3, <2>2 DEF Accounted, Stuck
    <3>2. outbox[r].attempts > 0 /\ outbox[r].attempts - 1 = outbox[r].errors
      BY <3>1 DEF RowType
    <3>3. outbox'[r] = [outbox[r] EXCEPT !.status = "pending", !.due = TRUE,
                                         !.attempts = outbox[r].errors]
      BY <1>5, <2>2, <3>2 DEF ResetStuck
    <3>4. /\ outbox'[r].status = "pending" /\ outbox'[r].attempts = outbox[r].errors
          /\ outbox'[r].errors = outbox[r].errors /\ outbox'[r].limit = outbox[r].limit
      BY <3>1, <3>3 DEF RowType
    <3>5. \A u \in Ticks : r \notin Held(u)'
      BY <1>2, <2>1, <2>2 DEF IsHeld, Excused
    <3> QED
      BY <2>1, <3>1, <3>4, <3>5 DEF Accounted
  <2>3. (\A r \in Rows \ S : SameRow(r)) /\ \A d \in LetterIds : SameLetter(d)
    BY <2>1 DEF SameRow, SameLetter
  <2>4. \A r \in S : Excused(r)' \/ (Accounted(r)' /\ \A u \in Ticks : r \notin Held(u)')
    BY <2>2
  <2>5. S \in SUBSET Rows
    OBVIOUS
  <2> HIDE DEF S
  <2> QED
    BY <1>2, <2>1, <2>3, <2>4, <2>5, CountFrame
<1>6. ASSUME NEW a \in Admins, RetryLetter(a)
      PROVE  CountInv'
  <2> DEFINE d == session[a].id
  <2>1. /\ session[a].kind = "letter" /\ limit' = limit
        /\ \E q \in Rows : /\ outbox[q].status = "absent"
                           /\ outbox' = [outbox EXCEPT ![q] = Inserted(outbox[letters[d].row].event)]
                           /\ letters' = [letters EXCEPT ![d].status = "retried", ![d].retry = q]
    BY <1>6 DEF RetryLetter, IsNextRow
  <2>2. d \in LetterIds /\ letters[d] \in LetterType
    BY <1>0, <2>1 DEF SessionsOK, Idle
  <2> HIDE DEF d
  <2>3. PICK q \in Rows : /\ outbox[q].status = "absent"
                          /\ outbox' = [outbox EXCEPT ![q] = Inserted(outbox[letters[d].row].event)]
                          /\ letters' = [letters EXCEPT ![d].status = "retried", ![d].retry = q]
    BY <2>1
  <2>4. \A g \in LetterIds : SameLetter(g)
    <3>1. /\ letters'[d].row = letters[d].row /\ letters'[d].total = letters[d].total
          /\ letters'[d].errors = letters[d].errors /\ letters'[d].status = "retried"
          /\ \A g \in LetterIds \ {d} : letters'[g] = letters[g]
      BY <1>0, <2>2, <2>3 DEF LetterType
    <3> QED
      BY <3>1 DEF SameLetter
  <2>5. outbox'[q] = Inserted(outbox[letters[d].row].event)
        /\ \A r \in Rows \ {q} : outbox'[r] = outbox[r]
    BY <1>0, <2>3
  <2>6. Accounted(q)' /\ \A u \in Ticks : q \notin Held(u)'
    BY <1>0, <1>2, <2>1, <2>3, <2>5 DEF Accounted, Inserted
  <2>7. {q} \in SUBSET Rows /\ (\A r \in Rows \ {q} : SameRow(r))
        /\ \A r \in {q} : Excused(r)' \/ (Accounted(r)' /\ \A u \in Ticks : r \notin Held(u)')
    BY <2>5, <2>6 DEF SameRow
  <2> QED
    BY <1>2, <2>1, <2>4, <2>7, CountFrame
<1>7. ASSUME NEW n \in Limits, EditConfig(n)
      PROVE  CountInv'
  <2>1. /\ outbox' = outbox /\ letters' = letters
        /\ \A r \in Rows : outbox[r].status # "absent" => r \in drifted'
    BY <1>7 DEF EditConfig
  <2>2. \A r \in Rows : Excused(r)' \/ (Accounted(r)' /\ \A u \in Ticks : r \notin Held(u)')
    BY <1>0, <1>2, <2>1 DEF Excused, Accounted
  <2>3. Rows \in SUBSET Rows /\ (\A r \in Rows \ Rows : SameRow(r)) /\ \A d \in LetterIds : SameLetter(d)
    BY <2>1 DEF SameLetter
  <2> QED
    BY <1>2, <2>2, <2>3, CountFrame
<1>8. ASSUME \/ \E a \in Admins, r \in Rows : ChooseRow(a, r)
             \/ \E a \in Admins, d \in LetterIds : ChooseLetter(a, d)
             \/ \E d \in LetterIds : Dismiss(d)
      PROVE  CountInv'
  <2>1. outbox' = outbox /\ limit' = limit
    BY <1>8 DEF ChooseRow, ChooseLetter, Dismiss
  <2>2. \A d \in LetterIds : SameLetter(d)
    BY <1>0, <1>8 DEF ChooseRow, ChooseLetter, Dismiss, SameLetter, LetterType
  <2>3. {} \in SUBSET Rows /\ (\A r \in Rows \ {} : SameRow(r))
        /\ \A r \in {} : Excused(r)' \/ (Accounted(r)' /\ \A u \in Ticks : r \notin Held(u)')
    BY <2>1 DEF SameRow
  <2> QED
    BY <1>2, <2>1, <2>2, <2>3, CountFrame
<1> QED
  BY <1>4, <1>5, <1>6, <1>7, <1>8 DEF Administer

\* A step that writes no row and no dead letter, and claims nothing.
LEMMA CountSilent ==
  ASSUME CountInv, [Next]_vars, \A r \in Rows : SameRow(r), limit' = limit,
         letters' = letters, \A u \in Ticks : NoMoreHeld(u)
  PROVE  CountInv'
<1>1. {} \in SUBSET Rows /\ (\A r \in Rows \ {} : SameRow(r))
      /\ \A r \in {} : Excused(r)' \/ (Accounted(r)' /\ \A u \in Ticks : r \notin Held(u)')
  OBVIOUS
<1>2. \A d \in LetterIds : SameLetter(d)
  BY DEF SameLetter
<1> QED
  BY <1>1, <1>2, CountFrame

\* The invariant is inductive.
LEMMA CountNext == CountInv /\ [Next]_vars => CountInv'
<1> SUFFICES ASSUME CountInv, [Next]_vars PROVE CountInv'
  OBVIOUS
<1> USE DEF tables, worker, history, vars
<1>0. /\ HolderInv /\ TypeOK /\ outbox \in [Rows -> RowType]
      /\ \A u \in Ticks : \A r \in Held(u) : outbox[r].status # "absent"
  BY DEF CountInv, HolderInv, HeldIsProcessing, TypeOK
<1>1. ASSUME NEW e \in Events, Enqueue(e)
      PROVE  CountInv'
  <2>1. PICK q \in Rows : outbox[q].status = "absent" /\ outbox' = [outbox EXCEPT ![q] = Inserted(e)]
    BY <1>1 DEF Enqueue, IsNextRow
  <2>2. UNCHANGED <<limit, letters, batch, pc>>
    BY <1>1 DEF Enqueue
  <2>3. outbox'[q] = Inserted(e) /\ \A r \in Rows \ {q} : outbox'[r] = outbox[r]
    BY <1>0, <2>1
  <2>4. \A u \in Ticks : NoMoreHeld(u) /\ q \notin Held(u)'
    BY <1>0, <2>1, <2>2 DEF NoMoreHeld, Held
  <2>5. Accounted(q)'
    BY <2>2, <2>3 DEF Accounted, Inserted
  <2>6. {q} \in SUBSET Rows /\ (\A r \in Rows \ {q} : SameRow(r))
        /\ \A r \in {q} : Excused(r)' \/ (Accounted(r)' /\ \A u \in Ticks : r \notin Held(u)')
    BY <2>3, <2>4, <2>5 DEF SameRow
  <2>7. \A d \in LetterIds : SameLetter(d)
    BY <2>2 DEF SameLetter
  <2> QED
    BY <2>2, <2>4, <2>6, <2>7, CountFrame
<1>2. ASSUME NEW t \in Ticks, Start(t) \/ CheckJournal(t) \/ Post(t) \/ Fail(t) \/ FindNothing(t)
      PROVE  CountInv'
  <2>1. UNCHANGED <<outbox, limit, letters, batch>>
    BY <1>2 DEF Start, CheckJournal, Post, Fail, FindNothing
  <2>2. \A u \in Ticks : pc'[u] = "bury" => pc[u] = "bury"
    BY <1>0, <1>2 DEF Start, CheckJournal, Post, Fail, FindNothing, TypeOK, RunsOK
  <2>3. (\A u \in Ticks : NoMoreHeld(u)) /\ \A r \in Rows : SameRow(r)
    BY <2>1, <2>2 DEF NoMoreHeld, Held, SameRow
  <2> QED
    BY <2>1, <2>3, CountSilent
<1>3. ASSUME NEW t \in Ticks, Abort(t)
      PROVE  CountInv'
  <2>1. UNCHANGED <<outbox, limit, letters>>
    BY <1>3 DEF Abort
  <2>2. \A u \in Ticks : NoMoreHeld(u)
    BY <1>0, <1>3 DEF Abort, NoMoreHeld, Held, Unclaimed, TypeOK, RunsOK
  <2>3. \A r \in Rows : SameRow(r)
    BY <2>1 DEF SameRow
  <2> QED
    BY <2>1, <2>2, <2>3, CountSilent
<1>4. CASE Crash
  <2>1. UNCHANGED <<outbox, limit, letters>>
    BY <1>4 DEF Crash
  <2>2. \A u \in Ticks : NoMoreHeld(u)
    BY <1>4 DEF Crash, NoMoreHeld, Held, Unclaimed
  <2>3. \A r \in Rows : SameRow(r)
    BY <2>1 DEF SameRow
  <2> QED
    BY <2>1, <2>2, <2>3, CountSilent
<1>5. CASE TimePasses \/ UNCHANGED vars
  <2>1. UNCHANGED <<limit, letters, batch, pc>>
    BY <1>5 DEF TimePasses, BecomeDue, GrowOld, FailureWindowEnds, OpenPeriodEnds, CacheExpires
  <2>2. \A u \in Ticks : NoMoreHeld(u)
    BY <2>1 DEF NoMoreHeld, Held
  <2>3. \A r \in Rows : SameRow(r)
    BY <1>0, <1>5 DEF TimePasses, BecomeDue, GrowOld, FailureWindowEnds, OpenPeriodEnds,
                      CacheExpires, RowType, SameRow
  <2> QED
    BY <2>1, <2>2, <2>3, CountSilent
<1> QED
  BY <1>1, <1>2, <1>3, <1>4, <1>5, CountClaim, CountLetter, CountGiveUp, CountAdminister
     DEF Next, Step, Deliver, HandleFailure

\* An attempt is counted exactly when an error was recorded for it, through
\* skips, crashes, resets and retries, on every row whose limit was not edited
\* and that no administrator moved under a run.
THEOREM AttemptsMatchErrorsAlways == Spec => []AttemptsMatchErrors
<1>1. ASSUME CountInv
      PROVE  AttemptsMatchErrors
  <2>1. ASSUME NEW r \in Rows \ (raced \cup drifted)
        PROVE  Accounted(r) /\ \A d \in LettersOf(r) : letters[d].total = letters[d].errors
    BY <1>1, <2>1 DEF CountInv, Excused, LettersOf
  <2> QED
    BY <2>1 DEF AttemptsMatchErrors, Accounted
<1> QED
  BY CountInit, CountNext, <1>1, PTL DEF Spec

\* A row that failed with all its attempts used has a dead letter: nothing is
\* left behind silently.
THEOREM NoSilentLossAlways == Spec => []NoSilentLoss
<1>1. ASSUME CountInv
      PROVE  NoSilentLoss
  <2>1. ASSUME NEW r \in Rows, outbox[r].status = "failed", outbox[r].attempts >= outbox[r].limit,
               r \notin drifted \cup raced
        PROVE  LettersOf(r) # {}
    <3>1. Accounted(r) /\ outbox[r].attempts \in Int /\ outbox[r].limit \in Int
      BY <1>1, <2>1 DEF CountInv, HolderInv, TypeOK, RowType, Excused
    <3> QED
      BY <2>1, <3>1 DEF Accounted
  <2> QED
    BY <2>1 DEF NoSilentLoss
<1> QED
  BY CountInit, CountNext, <1>1, PTL DEF Spec

-----------------------------------------------------------------------------
(* The outbox is a lease. *)

\* A step that moves no row and no batch is no step of the lease.
LEMMA QueueStutter ==
  ASSUME raced' = raced,
         \A r \in Rows : /\ outbox'[r].status = outbox[r].status
                         /\ \A t \in Ticks : r \in Held(t)' <=> r \in Held(t)
  PROVE  UNCHANGED Queue!vars
<1>1. \A r \in Rows : Holders(r)' = Holders(r)
  BY DEF Holders
<1>2. \A r \in Rows : TaskPhase(outbox[r].status)' = TaskPhase(outbox[r].status)
  BY DEF TaskPhase
<1> QED
  BY <1>1, <1>2 DEF Queue!vars

\* The claiming transaction takes open rows that no run holds.
LEMMA ClaimTakes ==
  ASSUME HolderInv, NEW t \in Ticks, Claim(t)
  PROVE  Queue!Take(t, FirstClaimable)
<1>1. TypeOK /\ raced' = raced
  BY DEF HolderInv, Claim, history
<1>2. /\ FirstClaimable \subseteq Rows
      /\ \A r \in FirstClaimable : outbox[r].status \in {"pending", "failed"}
  BY DEF FirstClaimable, Claimable
<1>3. /\ Held(t)' = FirstClaimable /\ Held(t) = {}
      /\ \A u \in Ticks \ {t} : Held(u)' = Held(u)
  BY <1>1 DEF Claim, TypeOK, RunsOK, Held
<1>4. \A r \in Rows : /\ r \in FirstClaimable => outbox'[r].status = "processing"
                      /\ r \notin FirstClaimable => outbox'[r] = outbox[r]
  BY <1>1, ClaimStatus
<1>5. \A r \in FirstClaimable : Holders(r) = {} \/ r \in raced
  BY <1>2 DEF Holders, HolderInv, HeldIsProcessing
<1>6. \A r \in Rows : Holders(r)' = IF r \in FirstClaimable THEN Holders(r) \cup {t}
                                                           ELSE Holders(r)
  BY <1>2, <1>3 DEF Holders
<1>7. \A r \in FirstClaimable : TaskPhase(outbox[r].status) = "open"
  BY <1>2 DEF TaskPhase
<1>8. TaskPhase("processing") = "taken"
  BY DEF TaskPhase
<1>9. \A r \in Rows : TaskPhase(outbox'[r].status)
                       = IF r \in FirstClaimable THEN "taken" ELSE TaskPhase(outbox[r].status)
  BY <1>4, <1>8
<1> QED
  BY <1>1, <1>2, <1>5, <1>6, <1>7, <1>9 DEF Queue!Take, Queue!Free

\* What a run writes of the row in hand before it goes on returns the row.
LEMMA AdvanceReturns ==
  ASSUME HolderInv, NEW t \in Ticks, pc[t] # "idle", Advance(t), raced' = raced,
         outbox'[Current(t)].status \in {"pending", "failed", "delivered"},
         \A r \in Rows \ {Current(t)} : outbox'[r] = outbox[r]
  PROVE  Queue!Return(t, {Current(t)})
<1> DEFINE c == Current(t)
<1>1. TypeOK /\ outbox \in [Rows -> RowType]
  BY DEF HolderInv, TypeOK
<1>2. c \in Held(t) /\ c \in Rows
  BY <1>1, CurrentHeld
<1>3. Held(t)' = Held(t) \ {c} /\ \A u \in Ticks \ {t} : Held(u)' = Held(u)
  BY <1>1, AdvanceFrame DEF Others, Held
<1> HIDE DEF c
<1>4. \A r \in Rows : Holders(r)' = IF r \in {c} THEN Holders(r) \ {t} ELSE Holders(r)
  BY <1>3 DEF Holders
<1>5. t \in Holders(c) /\ (outbox[c].status = "processing" \/ c \in raced)
  BY <1>2 DEF Holders, HolderInv, HeldIsProcessing
<1>6. TaskPhase(outbox[c].status) = "taken" \/ c \in raced
  BY <1>5 DEF TaskPhase
<1>7. TaskPhase(outbox'[c].status) \in {"open", "done"}
  BY DEF TaskPhase, c
<1>8. \A r \in Rows \ {c} : TaskPhase(outbox'[r].status) = TaskPhase(outbox[r].status)
  BY DEF c
<1>9. \A r \in Rows : TaskPhase(outbox[r].status) \in {"new", "open", "taken", "done"}
  BY <1>1 DEF TaskPhase, RowType
<1>10. \A r \in Rows : TaskPhase(outbox'[r].status) \in {"new", "open", "taken", "done"}
  BY <1>7, <1>8, <1>9
<1> QED
  BY <1>2, <1>4, <1>5, <1>6, <1>7, <1>8, <1>10 DEF Queue!Return, Queue!Phases, c

\* Inserting a row, for a service or from a dead letter, is an arrival.
LEMMA InsertArrives ==
  ASSUME TypeOK, UNCHANGED <<batch, raced>>, NEW r \in Rows, IsNextRow(r),
         \E e : outbox' = [outbox EXCEPT ![r] = Inserted(e)]
  PROVE  Queue!Arrive(r)
<1>1. /\ outbox[r].status = "absent" /\ outbox'[r].status = "pending"
      /\ \A q \in Rows \ {r} : outbox'[q] = outbox[q]
  BY DEF TypeOK, IsNextRow, Inserted
<1>2. \A q \in Rows : Holders(q)' = Holders(q)
  BY DEF Holders, Held
<1>3. /\ TaskPhase(outbox[r].status) = "new" /\ TaskPhase(outbox'[r].status) = "open"
      /\ \A q \in Rows \ {r} : TaskPhase(outbox'[q].status) = TaskPhase(outbox[q].status)
  BY <1>1 DEF TaskPhase
<1> QED
  BY <1>2, <1>3 DEF Queue!Arrive

\* An administrator's reset opens rows again, and those that a run holds, or
\* that were delivered, are recorded as raced.
LEMMA ResetReopens ==
  ASSUME TypeOK, batch' = batch, NEW S \in SUBSET Rows,
         \A r \in S : outbox[r].status # "absent" /\ outbox'[r].status = "pending",
         \A r \in Rows \ S : outbox'[r] = outbox[r],
         raced \subseteq raced', raced' \subseteq raced \cup S,
         \A r \in S : IsHeld(r) \/ outbox[r].status = "delivered" => r \in raced'
  PROVE  Queue!Reopen(S)
<1>1. \A r \in Rows : Holders(r)' = Holders(r)
  BY DEF Holders, Held
<1>2. \A r \in Rows : outbox[r].status \in {"absent", "pending", "processing", "delivered", "failed"}
  BY DEF TypeOK, RowType
<1>3. \A r \in S : /\ TaskPhase(outbox[r].status) # "new"
                   /\ TaskPhase(outbox[r].status) = "done" => r \in raced'
                   /\ TaskPhase(outbox'[r].status) = "open"
  BY <1>2 DEF TaskPhase
<1>4. \A r \in S : Holders(r) # {} => r \in raced'
  BY DEF Holders, IsHeld
<1>5. \A r \in Rows : TaskPhase(outbox'[r].status)
                        = IF r \in S THEN "open" ELSE TaskPhase(outbox[r].status)
  BY <1>3
<1> QED
  BY <1>1, <1>3, <1>4, <1>5 DEF Queue!Reopen

\* Every step of a run is a step of the lease, or none.
LEMMA RunImplements ==
  ASSUME HolderInv, NEW t \in Ticks, Step(t) \/ Fail(t) \/ Abort(t)
  PROVE  Queue!Next \/ UNCHANGED Queue!vars
<1>1. TypeOK
  BY DEF HolderInv
<1>2. CASE Claim(t)
  <2>1. FirstClaimable \in SUBSET Rows
    BY DEF FirstClaimable
  <2> QED
    BY <1>2, <2>1, ClaimTakes DEF Queue!Next
<1>3. CASE Skip(t) \/ MarkDelivered(t) \/ Reschedule(t) \/ Bury(t)
  <2>1. pc[t] # "idle" /\ Advance(t) /\ raced' = raced
    BY <1>3 DEF Skip, MarkDelivered, Reschedule, Bury, history
  <2>2. Current(t) \in Rows
    BY <1>1, <2>1, CurrentHeld
  <2>3. /\ outbox'[Current(t)].status \in {"pending", "failed", "delivered"}
        /\ \A r \in Rows \ {Current(t)} : outbox'[r] = outbox[r]
    BY <1>1, <1>3, <2>2 DEF Skip, MarkDelivered, Reschedule, Bury, TypeOK, RowType
  <2> QED
    BY <2>1, <2>2, <2>3, AdvanceReturns DEF Queue!Next
<1>4. CASE Start(t) \/ CheckJournal(t) \/ Post(t) \/ WriteLetter(t) \/ Fail(t) \/ FindNothing(t)
  <2>1. UNCHANGED <<outbox, batch, raced>>
    BY <1>4 DEF Start, CheckJournal, Post, WriteLetter, Fail, FindNothing, tables, worker,
                history, vars
  <2> QED
    BY <2>1, QueueStutter DEF Held
<1>5. CASE Abort(t)
  <2>1. UNCHANGED <<outbox, raced>> /\ batch' = [batch EXCEPT ![t] = Unclaimed]
    BY <1>5 DEF Abort, tables, history
  <2>2. Held(t)' = {} /\ \A u \in Ticks \ {t} : Held(u)' = Held(u)
    BY <1>1, <2>1 DEF TypeOK, RunsOK, Held, Unclaimed
  <2>3. \A r \in Rows : Holders(r)' = Holders(r) \ {t}
    BY <2>2 DEF Holders
  <2>4. Queue!Die({t})
    BY <2>1, <2>3 DEF Queue!Die
  <2> QED
    BY <2>4 DEF Queue!Next
<1> QED
  BY <1>2, <1>3, <1>4, <1>5 DEF Step, Deliver, HandleFailure

\* So is every other step.
LEMMA OtherImplements ==
  ASSUME HandInv,
         \/ \E e \in Events : Enqueue(e)
         \/ Crash \/ TimePasses \/ Administer \/ UNCHANGED vars
  PROVE  Queue!Next \/ UNCHANGED Queue!vars
<1>1. TypeOK /\ outbox \in [Rows -> RowType]
  BY DEF HandInv, HolderInv, TypeOK
<1>2. CASE \E e \in Events : Enqueue(e)
  <2>1. PICK r \in Rows :
          /\ IsNextRow(r) /\ \E e : outbox' = [outbox EXCEPT ![r] = Inserted(e)]
          /\ UNCHANGED <<batch, raced>>
    BY <1>2 DEF Enqueue, worker, history
  <2> QED
    BY <1>1, <2>1, InsertArrives DEF Queue!Next
<1>3. CASE Crash
  <2>1. UNCHANGED <<outbox, raced>> /\ \A t \in Ticks : Held(t)' = {}
    BY <1>3 DEF Crash, tables, history, Held, Unclaimed
  <2>2. \A r \in Rows : Holders(r)' = Holders(r) \ Ticks
    BY <2>1 DEF Holders
  <2>3. Queue!Die(Ticks)
    BY <2>1, <2>2 DEF Queue!Die
  <2> QED
    BY <2>3 DEF Queue!Next
<1>4. CASE TimePasses \/ UNCHANGED vars
  <2>1. UNCHANGED <<batch, raced>>
    BY <1>4 DEF TimePasses, BecomeDue, GrowOld, FailureWindowEnds, OpenPeriodEnds, CacheExpires,
       vars, worker, history
  <2>2. \A r \in Rows : outbox'[r].status = outbox[r].status
    BY <1>1, <1>4 DEF TimePasses, BecomeDue, GrowOld, FailureWindowEnds, OpenPeriodEnds,
       CacheExpires, vars, tables, RowType
  <2> QED
    BY <2>1, <2>2, QueueStutter DEF Held
<1>5. ASSUME NEW a \in Admins, RetryRow(a) PROVE Queue!Next
  <2> SUFFICES ASSUME NEW r, r = session[a].id PROVE Queue!Next
    OBVIOUS
  <2>1. r \in Rows /\ outbox[r].status # "absent"
    BY <1>1, <1>5 DEF RetryRow, HandInv, ByHandInv, TypeOK, SessionsOK, Idle
  <2>2. /\ batch' = batch
        /\ outbox' = [outbox EXCEPT ![r].status = "pending", ![r].attempts = 0,
                                    ![r].errors = 0, ![r].due = TRUE]
        /\ raced' = IF IsHeld(r) \/ outbox[r].status \notin {"failed", "processing"}
                    THEN raced \cup {r} ELSE raced
    BY <1>5 DEF RetryRow, worker
  <2>3. outbox'[r].status = "pending" /\ \A q \in Rows \ {r} : outbox'[q] = outbox[q]
    <3> DEFINE new == [outbox[r] EXCEPT !.status = "pending", !.attempts = 0, !.errors = 0,
                                        !.due = TRUE]
    <3>1. outbox' = [outbox EXCEPT ![r] = new]
      BY <1>1, <2>1, <2>2
    <3>2. outbox[r] \in RowType
      BY <1>1, <2>1
    <3>3. new.status = "pending"
      BY <3>2 DEF RowType
    <3> HIDE DEF new
    <3>4. outbox'[r] = new /\ \A q \in Rows \ {r} : outbox'[q] = outbox[q]
      BY <1>1, <2>1, <3>1
    <3> QED
      BY <3>3, <3>4
  <2>4. Queue!Reopen({r})
    BY <1>1, <2>1, <2>2, <2>3, ResetReopens
  <2> QED
    BY <2>1, <2>4 DEF Queue!Next
<1>6. CASE ResetStuck
  <2> DEFINE S == {r \in Rows : Stuck(r)}
  <2>1. /\ batch' = batch /\ raced' = raced \cup {r \in Rows : Stuck(r) /\ IsHeld(r)}
        /\ \A r \in Rows \ S : outbox'[r] = outbox[r]
    BY <1>6 DEF ResetStuck, worker
  <2>2. \A r \in S : outbox[r].status = "processing" /\ outbox'[r].status = "pending"
    BY <1>1, <1>6 DEF ResetStuck, Stuck, RowType
  <2>3. Queue!Reopen(S)
    BY <1>1, <2>1, <2>2, ResetReopens
  <2> QED
    BY <2>3 DEF Queue!Next
<1>7. ASSUME NEW a \in Admins, RetryLetter(a) PROVE Queue!Next
  <2>1. PICK r \in Rows :
          /\ IsNextRow(r) /\ \E e : outbox' = [outbox EXCEPT ![r] = Inserted(e)]
          /\ UNCHANGED <<batch, raced>>
    BY <1>7 DEF RetryLetter, worker, history
  <2> QED
    BY <1>1, <2>1, InsertArrives DEF Queue!Next
<1>8. ASSUME \/ \E a \in Admins, r \in Rows : ChooseRow(a, r)
             \/ \E a \in Admins, d \in LetterIds : ChooseLetter(a, d)
             \/ \E d \in LetterIds : Dismiss(d)
             \/ \E n \in Limits : EditConfig(n)
      PROVE  UNCHANGED Queue!vars
  <2>1. UNCHANGED <<outbox, batch, raced>>
    BY <1>8 DEF ChooseRow, ChooseLetter, Dismiss, EditConfig, tables, worker, history
  <2> QED
    BY <2>1, QueueStutter DEF Held
<1> QED
  BY <1>2, <1>3, <1>4, <1>5, <1>6, <1>7, <1>8 DEF Administer

\* The outbox starts as an empty lease.
LEMMA InitImplements == Init => Queue!Init
  BY DEF Init, Queue!Init, NoRow, TaskPhase, Holders, Held, Unclaimed

\* Overlapping timers, crashes between any two statements and administrators:
\* the outbox implements the lease.
THEOREM OutboxIsALease == Spec => ImplementsLease
<1>1. HandInv /\ [Next]_vars => [Queue!Next]_(Queue!vars)
  <2> SUFFICES ASSUME HandInv, [Next]_vars PROVE Queue!Next \/ UNCHANGED Queue!vars
    OBVIOUS
  <2>1. HolderInv
    BY DEF HandInv
  <2>2. CASE \E t \in Ticks : Step(t) \/ Fail(t) \/ Abort(t)
    BY <2>1, <2>2, RunImplements
  <2>3. CASE ~\E t \in Ticks : Step(t) \/ Fail(t) \/ Abort(t)
    BY <2>3, OtherImplements DEF Next
  <2> QED
    BY <2>2, <2>3
<1> QED
  BY <1>1, ByHandInit, HandNext, InitImplements, PTL DEF Spec, ImplementsLease, Queue!Spec
===============================================================================
