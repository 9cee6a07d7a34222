------------------------------- MODULE Outbox -------------------------------
(***************************************************************************)
(* The transactional outbox of the ERP: the table service_outbox, the      *)
(* worker's processOutbox (services/worker/src/jobs/outbox-processor.ts)   *)
(* that a 5 second timer starts whether or not the last run has ended, the *)
(* table outbox_dead_letters and the system administrator's operations on  *)
(* both (services/gateway/src/graphql/resolvers.ts).                       *)
(*                                                                         *)
(* One target service and one event type are modelled: the circuit breaker *)
(* is kept per service, the retry limits per type, and neither reads the   *)
(* others'.  The backoff delay is "not yet due" until time passes.         *)
(***************************************************************************)
EXTENDS Integers, FiniteSets

CONSTANTS
  Events,           \* what the services commit together with their own data
  NoEvent,          \* the event of a row that has not been inserted
  Guarded,          \* the events whose handler looks for an earlier journal
  MaxRows,          \* bound: rows of service_outbox
  MaxLetters,       \* bound: rows of outbox_dead_letters
  Ticks,            \* the runs of processOutbox that may overlap
  Admins,           \* system administrators with a request in progress
  Limits,           \* values of outbox_event_configs.max_attempts
  DefaultLimit,     \* DEFAULT_CONFIG.maxAttempts
  BatchLimit,       \* LIMIT of the claiming query
  Threshold,        \* CIRCUIT_FAILURE_THRESHOLD
  MaxOutages,       \* bound: worker crashes and failed statements
  MaxEdits,         \* bound: edits of the event configuration
  MaxRequests       \* bound: administrator requests

ASSUME ConstantsAssumption ==
  /\ NoEvent \notin Events
  /\ Guarded \subseteq Events
  /\ MaxRows \in Nat /\ MaxLetters \in Nat
  /\ Limits \subseteq Nat \ {0} /\ Limits # {}
  /\ DefaultLimit \in Nat \ {0}
  /\ BatchLimit \in Nat \ {0} /\ Threshold \in Nat \ {0}
  /\ MaxOutages \in Nat /\ MaxEdits \in Nat /\ MaxRequests \in Nat

VARIABLES
  outbox,      \* service_outbox
  letters,     \* outbox_dead_letters
  applied,     \* how often the target has carried out each event
  limit,       \* max_attempts in outbox_event_configs
  pc,          \* where each run of processOutbox stands
  batch,       \* the claimed rows it has left, with what it read of them
  config,      \* the max_attempts it uses for the row in hand
  breaker,     \* the target service's entry in circuitBreakers
  cache,       \* eventConfigCache and whether CONFIG_TTL_MS has run out
  session,     \* the administrator's request between its two statements
  spent,       \* how much of each bound has been used
  raced,       \* history: rows an administrator moved under a run, or late
  concurrent,  \* history: events that two runs delivered at the same time
  drifted      \* history: rows whose limit is no longer the worker's

tables  == <<outbox, letters, applied, limit>>
worker  == <<pc, batch, config, breaker, cache>>
history == <<raced, concurrent, drifted>>
vars    == <<tables, worker, session, spent, history>>

Rows      == 1..MaxRows
LetterIds == 1..MaxLetters

NoRow == [status |-> "absent", event |-> NoEvent, attempts |-> 0, limit |-> 0,
          errors |-> 0, due |-> FALSE, tried |-> "never"]

NoLetter == [status |-> "absent", row |-> 0, total |-> 0, errors |-> 0,
             retry |-> 0]

\* A row as INSERT leaves it; trg_sync_outbox_max_attempts copies the limit.
Inserted(e) == [status |-> "pending", event |-> e, attempts |-> 0,
                limit |-> limit, errors |-> 0, due |-> TRUE, tried |-> "never"]

IsNextRow(r)    == /\ outbox[r].status = "absent"
                   /\ \A q \in 1..(r - 1) : outbox[q].status # "absent"
IsNextLetter(d) == /\ letters[d].status = "absent"
                   /\ \A q \in 1..(d - 1) : letters[q].status # "absent"

Idle       == [kind |-> "none", id |-> 0]
Unclaimed  == [r \in {} |-> 0]
Held(t)    == DOMAIN batch[t]
IsHeld(r)  == \E t \in Ticks : r \in Held(t)
\* The loop takes the claimed rows in the order of created_at.
Current(t) == CHOOSE r \in Held(t) : \A q \in Held(t) : r <= q
Snapshot(t) == batch[t][Current(t)]

\* A run is inside deliverEvent for event e.
Delivering(t, e) == /\ pc[t] \in {"check", "post"}
                    /\ outbox[Current(t)].event = e

CircuitOpen == breaker.open = "open"
Closed      == [failures |-> 0, last |-> "none", open |-> "no"]

-----------------------------------------------------------------------------
Init ==
  /\ outbox = [r \in Rows |-> NoRow]
  /\ letters = [d \in LetterIds |-> NoLetter]
  /\ applied = [e \in Events |-> 0]
  /\ limit \in Limits
  /\ pc = [t \in Ticks |-> "idle"]
  /\ batch = [t \in Ticks |-> Unclaimed]
  /\ config = [t \in Ticks |-> DefaultLimit]
  /\ breaker = Closed
  /\ cache = [limit |-> DefaultLimit, fresh |-> FALSE]
  /\ session = [a \in Admins |-> Idle]
  /\ spent = [outages |-> 0, edits |-> 0, requests |-> 0]
  /\ raced = {} /\ concurrent = {} /\ drifted = {}

\* A service inserts the event in the transaction of its own change.
Enqueue(e) ==
  /\ \A r \in Rows : outbox[r].event # e
  /\ \E r \in Rows : IsNextRow(r) /\ outbox' = [outbox EXCEPT ![r] = Inserted(e)]
  /\ UNCHANGED <<letters, applied, limit, worker, session, spent, history>>

-----------------------------------------------------------------------------
(* processOutbox: the claiming transaction. *)

\* Mutants: 'processing' rows are polled again; delivered rows are.
ClaimableProcessing(r) ==
  /\ outbox[r].status \in {"pending", "failed", "processing"}
  /\ outbox[r].attempts < outbox[r].limit
  /\ outbox[r].due
ClaimableDelivered(r) ==
  /\ outbox[r].status \in {"pending", "failed", "delivered"}
  /\ outbox[r].attempts < outbox[r].limit
  /\ outbox[r].due

Claimable(r) ==
  /\ outbox[r].status \in {"pending", "failed"}
  /\ outbox[r].attempts < outbox[r].limit
  /\ outbox[r].due

\* ORDER BY created_at LIMIT BatchLimit: event_priority is never set.
FirstClaimable ==
  {r \in Rows : /\ Claimable(r)
                /\ Cardinality({q \in 1..(r - 1) : Claimable(q)}) < BatchLimit}

Claim(t) ==
  /\ pc[t] = "idle"
  /\ FirstClaimable # {}
  /\ outbox' = [r \in Rows |->
       IF r \in FirstClaimable
       THEN [outbox[r] EXCEPT !.status = "processing", !.attempts = @ + 1,
                              !.tried = IF @ = "never" THEN "recent" ELSE @]
       ELSE outbox[r]]
  /\ batch' = [batch EXCEPT ![t] = [r \in FirstClaimable |->
       [attempts |-> outbox[r].attempts, errors |-> outbox[r].errors]]]
  /\ pc' = [pc EXCEPT ![t] = "next"]
  /\ UNCHANGED <<letters, applied, limit, config, breaker, cache, session,
                 spent, history>>

\* Nothing to claim: ROLLBACK, and the run ends.
FindNothing(t) ==
  /\ pc[t] = "idle"
  /\ FirstClaimable = {}
  /\ UNCHANGED vars

\* The loop moves to the next claimed row, or the run ends.
Advance(t) ==
  LET rest == Held(t) \ {Current(t)} IN
  /\ batch' = [batch EXCEPT ![t] = [r \in rest |-> batch[t][r]]]
  /\ pc' = [pc EXCEPT ![t] = IF rest = {} THEN "idle" ELSE "next"]

\* Mutant: the skipped row's attempt is not given back.
SkipAndCount(t) ==
  /\ pc[t] = "next"
  /\ CircuitOpen
  /\ outbox' = [outbox EXCEPT ![Current(t)].status = "pending"]
  /\ Advance(t)
  /\ UNCHANGED <<letters, applied, limit, config, breaker, cache, session,
                 spent, history>>

\* The circuit is open: the row goes back, its attempt is given back.
Skip(t) ==
  /\ pc[t] = "next"
  /\ CircuitOpen
  /\ outbox' = [outbox EXCEPT ![Current(t)].status = "pending",
                              ![Current(t)].attempts = @ - 1]
  /\ Advance(t)
  /\ UNCHANGED <<letters, applied, limit, config, breaker, cache, session,
                 spent, history>>

\* getEventConfig: a failed refresh keeps the old cache and stays expired.
ReadConfig(t) ==
  \/ /\ cache.fresh
     /\ UNCHANGED cache
     /\ config' = [config EXCEPT ![t] = cache.limit]
  \/ /\ ~cache.fresh
     /\ cache' = [limit |-> limit, fresh |-> TRUE]
     /\ config' = [config EXCEPT ![t] = limit]
  \/ /\ ~cache.fresh
     /\ UNCHANGED cache
     /\ config' = [config EXCEPT ![t] = cache.limit]

\* isCircuitOpen forgets an expired breaker; then deliverEvent is called.
Start(t) ==
  LET e == outbox[Current(t)].event IN
  /\ pc[t] = "next"
  /\ ~CircuitOpen
  /\ breaker' = IF breaker.open = "expired" THEN Closed ELSE breaker
  /\ ReadConfig(t)
  /\ pc' = [pc EXCEPT ![t] = IF e \in Guarded THEN "check" ELSE "post"]
  /\ concurrent' = IF \E u \in Ticks \ {t} : Delivering(u, e)
                   THEN concurrent \cup {e} ELSE concurrent
  /\ UNCHANGED <<tables, batch, session, spent, raced, drifted>>

\* Mutant: the guard is left out.
CheckNothing(t) ==
  /\ pc[t] = "check"
  /\ pc' = [pc EXCEPT ![t] = "post"]
  /\ UNCHANGED <<tables, batch, config, breaker, cache, session, spent, history>>

\* A guarded handler reads journal_entry_id before its own transaction.
CheckJournal(t) ==
  /\ pc[t] = "check"
  /\ pc' = [pc EXCEPT ![t] = IF applied[outbox[Current(t)].event] > 0
                             THEN "mark" ELSE "post"]
  /\ UNCHANGED <<tables, batch, config, breaker, cache, session, spent, history>>

\* The handler's transaction, or the target service's, commits.
Post(t) ==
  /\ pc[t] = "post"
  /\ applied' = [applied EXCEPT ![outbox[Current(t)].event] = @ + 1]
  /\ pc' = [pc EXCEPT ![t] = "mark"]
  /\ UNCHANGED <<outbox, letters, limit, batch, config, breaker, cache, session,
                 spent, history>>

MarkDelivered(t) ==
  /\ pc[t] = "mark"
  /\ outbox' = [outbox EXCEPT ![Current(t)].status = "delivered"]
  /\ breaker' = [breaker EXCEPT !.failures = 0, !.last = "none"]
  /\ Advance(t)
  /\ UNCHANGED <<letters, applied, limit, config, cache, session, spent, history>>

\* recordCircuitFailure; the counter saturates, only >= Threshold is asked.
CircuitFailure ==
  LET n == IF breaker.last = "old" THEN 1 ELSE breaker.failures + 1 IN
  breaker' = [failures |-> IF n > Threshold THEN Threshold ELSE n,
              last |-> "recent",
              open |-> IF n >= Threshold THEN "open" ELSE breaker.open]

\* The delivery throws, before the target committed or after it (the answer
\* is lost, or the statement that marks the row delivered fails).
Fail(t) ==
  /\ pc[t] \in {"check", "post", "mark"}
  /\ CircuitFailure
  /\ pc' = [pc EXCEPT ![t] = "failed"]
  /\ UNCHANGED <<tables, batch, config, cache, session, spent, history>>

\* Mutant: off by one.
ExhaustedLate(t) == Snapshot(t).attempts + 1 > config[t]

Exhausted(t) == Snapshot(t).attempts + 1 >= config[t]

\* History: the cached limit is not the one now configured.
Judge(t) ==
  drifted' = IF config[t] # limit THEN drifted \cup {Current(t)} ELSE drifted

Reschedule(t) ==
  /\ pc[t] = "failed"
  /\ ~Exhausted(t)
  /\ outbox' = [outbox EXCEPT ![Current(t)].status = "failed",
                              ![Current(t)].errors = Snapshot(t).errors + 1,
                              ![Current(t)].due = FALSE]
  /\ Judge(t)
  /\ Advance(t)
  /\ UNCHANGED <<letters, applied, limit, config, breaker, cache, session,
                 spent, raced, concurrent>>

\* routeToDLQ, first statement: the dead letter.
WriteLetter(t) ==
  /\ pc[t] = "failed"
  /\ Exhausted(t)
  /\ \E d \in LetterIds :
       /\ IsNextLetter(d)
       /\ letters' = [letters EXCEPT ![d] =
            [status |-> "pending", row |-> Current(t),
             total |-> Snapshot(t).attempts + 1,
             errors |-> Snapshot(t).errors + 1, retry |-> 0]]
  /\ Judge(t)
  /\ pc' = [pc EXCEPT ![t] = "bury"]
  /\ UNCHANGED <<outbox, applied, limit, batch, config, breaker, cache, session,
                 spent, raced, concurrent>>

\* routeToDLQ, second statement, outside any transaction with the first.
Bury(t) ==
  /\ pc[t] = "bury"
  /\ outbox' = [outbox EXCEPT ![Current(t)].status = "failed"]
  /\ Advance(t)
  /\ UNCHANGED <<letters, applied, limit, config, breaker, cache, session,
                 spent, history>>

\* A statement outside the try fails: the exception leaves processOutbox and
\* the rest of the batch stays 'processing'.
Abort(t) ==
  /\ pc[t] \in {"failed", "bury"} \/ (pc[t] = "next" /\ CircuitOpen)
  /\ spent.outages < MaxOutages
  /\ batch' = [batch EXCEPT ![t] = Unclaimed]
  /\ pc' = [pc EXCEPT ![t] = "idle"]
  /\ spent' = [spent EXCEPT !.outages = @ + 1]
  /\ UNCHANGED <<tables, config, breaker, cache, session, history>>

\* The worker process dies or is stopped, and PM2 starts it again.
Crash ==
  /\ spent.outages < MaxOutages
  /\ pc' = [t \in Ticks |-> "idle"]
  /\ batch' = [t \in Ticks |-> Unclaimed]
  /\ breaker' = Closed
  /\ cache' = [limit |-> DefaultLimit, fresh |-> FALSE]
  /\ spent' = [spent EXCEPT !.outages = @ + 1]
  /\ UNCHANGED <<tables, config, session, history>>

-----------------------------------------------------------------------------
(* Time. *)

BecomeDue(r) ==
  /\ outbox[r].status # "absent" /\ ~outbox[r].due
  /\ outbox' = [outbox EXCEPT ![r].due = TRUE]
  /\ UNCHANGED <<letters, applied, limit, worker, session, spent, history>>

\* first_attempted_at falls more than five minutes behind.
GrowOld(r) ==
  /\ outbox[r].tried = "recent"
  /\ outbox' = [outbox EXCEPT ![r].tried = "old"]
  /\ UNCHANGED <<letters, applied, limit, worker, session, spent, history>>

FailureWindowEnds ==
  /\ breaker.last = "recent"
  /\ breaker' = [breaker EXCEPT !.last = "old"]
  /\ UNCHANGED <<tables, pc, batch, config, cache, session, spent, history>>

OpenPeriodEnds ==
  /\ breaker.open = "open"
  /\ breaker' = [breaker EXCEPT !.open = "expired"]
  /\ UNCHANGED <<tables, pc, batch, config, cache, session, spent, history>>

CacheExpires ==
  /\ cache.fresh
  /\ cache' = [cache EXCEPT !.fresh = FALSE]
  /\ UNCHANGED <<tables, pc, batch, config, breaker, session, spent, history>>

-----------------------------------------------------------------------------
(* The system administrator. *)

Request == /\ spent.requests < MaxRequests
           /\ spent' = [spent EXCEPT !.requests = @ + 1]

\* retryOutboxEvent reads the status ...
ChooseRow(a, r) ==
  /\ session[a] = Idle
  /\ outbox[r].status \in {"failed", "processing"}
  /\ Request
  /\ session' = [session EXCEPT ![a] = [kind |-> "row", id |-> r]]
  /\ UNCHANGED <<tables, worker, history>>

\* ... and then resets the row, whatever its status has become.
RetryRow(a) ==
  LET r == session[a].id IN
  /\ session[a].kind = "row"
  /\ outbox' = [outbox EXCEPT ![r].status = "pending", ![r].attempts = 0,
                              ![r].errors = 0, ![r].due = TRUE]
  /\ raced' = IF IsHeld(r) \/ outbox[r].status \notin {"failed", "processing"}
              THEN raced \cup {r} ELSE raced
  /\ session' = [session EXCEPT ![a] = Idle]
  /\ UNCHANGED <<letters, applied, limit, worker, spent, concurrent, drifted>>

\* resetStuckEvents measures the age of the row's FIRST attempt.
Stuck(r) == outbox[r].status = "processing" /\ outbox[r].tried = "old"

ResetStuck ==
  /\ \E r \in Rows : Stuck(r)
  /\ IF \E r \in Rows : Stuck(r) /\ IsHeld(r) THEN Request ELSE UNCHANGED spent
  /\ outbox' = [r \in Rows |->
       IF Stuck(r)
       THEN [outbox[r] EXCEPT !.status = "pending", !.due = TRUE,
                              !.attempts = IF @ > 0 THEN @ - 1 ELSE 0]
       ELSE outbox[r]]
  /\ raced' = raced \cup {r \in Rows : Stuck(r) /\ IsHeld(r)}
  /\ UNCHANGED <<letters, applied, limit, worker, session, concurrent, drifted>>

\* retryDLQEntry reads the pending entry ...
ChooseLetter(a, d) ==
  /\ session[a] = Idle
  /\ letters[d].status = "pending"
  /\ Request
  /\ session' = [session EXCEPT ![a] = [kind |-> "letter", id |-> d]]
  /\ UNCHANGED <<tables, worker, history>>

\* ... and its transaction inserts a new row without looking again.
RetryLetter(a) ==
  LET d == session[a].id IN
  /\ session[a].kind = "letter"
  /\ \E r \in Rows :
       /\ IsNextRow(r)
       /\ outbox' = [outbox EXCEPT ![r] = Inserted(outbox[letters[d].row].event)]
       /\ letters' = [letters EXCEPT ![d].status = "retried", ![d].retry = r]
  /\ session' = [session EXCEPT ![a] = Idle]
  /\ UNCHANGED <<applied, limit, worker, spent, history>>

\* dismissDLQEntry is one guarded statement.
Dismiss(d) ==
  /\ letters[d].status = "pending"
  /\ Request
  /\ letters' = [letters EXCEPT ![d].status = "dismissed"]
  /\ UNCHANGED <<outbox, applied, limit, worker, session, history>>

\* updateOutboxEventConfig does not touch the rows already inserted.
EditConfig(n) ==
  /\ n # limit
  /\ spent.edits < MaxEdits
  /\ limit' = n
  /\ spent' = [spent EXCEPT !.edits = @ + 1]
  /\ drifted' = drifted \cup {r \in Rows : outbox[r].status # "absent"}
  /\ UNCHANGED <<outbox, letters, applied, worker, session, raced, concurrent>>

-----------------------------------------------------------------------------
Deliver(t) == Start(t) \/ CheckJournal(t) \/ Post(t) \/ MarkDelivered(t)
HandleFailure(t) == Reschedule(t) \/ WriteLetter(t) \/ Bury(t)

Step(t) == Claim(t) \/ FindNothing(t) \/ Skip(t) \/ Deliver(t) \/ HandleFailure(t)

TimePasses ==
  \/ \E r \in Rows : BecomeDue(r) \/ GrowOld(r)
  \/ FailureWindowEnds \/ OpenPeriodEnds \/ CacheExpires

Administer ==
  \/ \E a \in Admins : RetryRow(a) \/ RetryLetter(a)
  \/ \E a \in Admins, r \in Rows : ChooseRow(a, r)
  \/ \E a \in Admins, d \in LetterIds : ChooseLetter(a, d)
  \/ \E d \in LetterIds : Dismiss(d)
  \/ \E n \in Limits : EditConfig(n)
  \/ ResetStuck

Next ==
  \/ \E e \in Events : Enqueue(e)
  \/ \E t \in Ticks : Step(t) \/ Fail(t) \/ Abort(t)
  \/ Crash
  \/ TimePasses
  \/ Administer

Spec == Init /\ [][Next]_vars

\* The timer keeps firing, the process keeps running what it started and the
\* clock moves.  Nobody is obliged to crash, to retry or to reset anything.
Fairness ==
  /\ \A t \in Ticks : WF_vars(Step(t))
  /\ \A r \in Rows : WF_vars(BecomeDue(r))
  /\ WF_vars(OpenPeriodEnds)

FairSpec == Spec /\ Fairness

-----------------------------------------------------------------------------
(* Properties. *)

RowsOf(e)    == {r \in Rows : outbox[r].event = e}
LettersOf(r) == {d \in LetterIds : letters[d].row = r}

RowType ==
  [status : {"absent", "pending", "processing", "delivered", "failed"},
   event : Events \cup {NoEvent}, attempts : Int, limit : Nat, errors : Nat,
   due : BOOLEAN, tried : {"never", "recent", "old"}]

LetterType ==
  [status : {"absent", "pending", "retried", "dismissed"}, row : 0..MaxRows,
   total : Int, errors : Nat, retry : 0..MaxRows]

\* A run is idle exactly when it has no claimed row left.
RunsOK ==
  /\ pc \in [Ticks -> {"idle", "next", "check", "post", "mark", "failed", "bury"}]
  /\ batch = [t \in Ticks |-> batch[t]]
  /\ \A t \in Ticks : /\ Held(t) \subseteq Rows
                      /\ batch[t] \in [Held(t) -> [attempts : Int, errors : Nat]]
                      /\ (pc[t] = "idle") <=> (Held(t) = {})

LettersOK ==
  /\ letters \in [LetterIds -> LetterType]
  /\ \A d \in LetterIds : letters[d].status # "absent" => letters[d].row \in Rows

SessionsOK ==
  /\ session \in [Admins -> {Idle} \cup [kind : {"row"}, id : Rows]
                                   \cup [kind : {"letter"}, id : LetterIds]]
  /\ \A a \in Admins : session[a].kind = "letter"
                       => letters[session[a].id].status # "absent"

WorkerOK ==
  /\ config \in [Ticks -> Limits \cup {DefaultLimit}]
  /\ breaker \in [failures : 0..Threshold, last : {"none", "recent", "old"},
                  open : {"no", "open", "expired"}]
  /\ cache \in [limit : Limits \cup {DefaultLimit}, fresh : BOOLEAN]

\* Every variable holds what its column, or its variable in the worker, can
\* hold; requests and dead letters refer to rows that exist.
TypeOK ==
  /\ outbox \in [Rows -> RowType]
  /\ applied \in [Events -> Nat]
  /\ limit \in Limits
  /\ raced \subseteq Rows
  /\ RunsOK /\ LettersOK /\ SessionsOK /\ WorkerOK

\* FOR UPDATE SKIP LOCKED and the status 'processing' give a row to one run at
\* a time, however many overlap, unless an administrator intervened.
OneHolder ==
  \A t, u \in Ticks : t # u => Held(t) \cap Held(u) \subseteq raced

\* No late statement of another run takes a delivered row back: it is not sent
\* again unless an administrator's request raced with a run.
DeliveredIsFinal ==
  [][\A r \in Rows : outbox[r].status = "delivered" /\ r \notin raced'
                      => outbox'[r].status = "delivered"]_vars

\* The journal check outside the handler's transaction is enough: through lost
\* answers, crashes, resets and retries of a dead letter a guarded event is
\* posted once, unless two runs were delivering it at the same moment.
GuardedOnce ==
  \A e \in Guarded : applied[e] > 1 => e \in concurrent

\* Two runs deliver one event together only after an administrator raced with
\* a run or retried a dead letter: overlapping timers alone never do it.
ConcurrentOnlyByHand ==
  \A e \in concurrent : \E r \in RowsOf(e) :
     r \in raced \/ \E d \in LettersOf(r) : letters[d].status = "retried"

\* A row that has used all its attempts is never left behind silently: there
\* is a dead letter for a person to see (the loss migration 302 repaired).
NoSilentLoss ==
  \A r \in Rows :
    /\ outbox[r].status = "failed"
    /\ outbox[r].attempts >= outbox[r].limit
    /\ r \notin drifted \cup raced
    => LettersOf(r) # {}

\* An attempt is counted exactly when an error was recorded for it: skipped
\* rows get theirs back, and so do rows reset after a crash.
AttemptsMatchErrors ==
  \A r \in Rows \ (raced \cup drifted) :
    /\ outbox[r].status = "pending" => outbox[r].attempts = outbox[r].errors
    /\ outbox[r].status = "processing" => outbox[r].attempts = outbox[r].errors + 1
    /\ outbox[r].status = "failed" /\ LettersOf(r) = {}
         => outbox[r].attempts = outbox[r].errors
    /\ \A d \in LettersOf(r) : letters[d].total = letters[d].errors

\* A crash left the row 'processing': only an administrator's reset moves it.
Orphaned(r) == outbox[r].status = "processing" /\ ~IsHeld(r)

\* The row has used the attempts it was inserted with, but the worker went by
\* another limit, a stale or the default one, and took it to have some left: no
\* run takes it again and no dead letter tells of it (outbox-processor.ts:519).
Stranded(r) == /\ outbox[r].status = "failed" /\ outbox[r].attempts >= outbox[r].limit
               /\ r \in drifted

\* Every event a service committed is carried out or reaches the dead letter
\* queue, through failed deliveries, skips and an open circuit breaker, unless
\* a crash orphans its row (then again once that row has been reset), a limit
\* that is not the worker's strands it, or an administrator's request raced
\* with a run.
Settled(e) == \/ applied[e] > 0
              \/ \E r \in RowsOf(e) : LettersOf(r) # {} \/ r \in raced
EventuallySettled ==
  \A e \in Events :
    (RowsOf(e) # {}) ~> (Settled(e) \/ \E r \in RowsOf(e) : Orphaned(r) \/ Stranded(r))

\* The outbox as a queue of work: a row is a task, a run of processOutbox a
\* worker, and a row that an administrator moved under a run, or late, is
\* disturbed.
TaskPhase(status) ==
  CASE status = "absent"                  -> "new"
    [] status \in {"pending", "failed"}   -> "open"
    [] status = "processing"              -> "taken"
    [] status = "delivered"               -> "done"
Holders(r) == {t \in Ticks : r \in Held(t)}

Queue == INSTANCE Lease WITH
  Tasks     <- Rows,
  Workers   <- Ticks,
  phase     <- [r \in Rows |-> TaskPhase(outbox[r].status)],
  holders   <- [r \in Rows |-> Holders(r)],
  disturbed <- raced

\* Overlapping timers, crashes, failed statements and administrators together
\* keep the promise of a lease: a row is worked on by one run, which alone
\* ends or returns it, and a delivered row is over.
ImplementsLease == Queue!Spec

-----------------------------------------------------------------------------
(* Why OneHolder and GuardedOnce hold: the inductive invariant of the proof. *)

\* A claimed row stays 'processing' until its run lets go of it.
HeldIsProcessing ==
  \A t \in Ticks : \A r \in Held(t) :
    outbox[r].status # "absent" /\ (r \notin raced => outbox[r].status = "processing")

\* What a run that is delivering event e knows of it.
DeliveryInv ==
  \A e \in Events :
    /\ \A t, u \in Ticks :
         t # u /\ Delivering(t, e) /\ Delivering(u, e) => e \in concurrent
    /\ \A t \in Ticks :
         /\ pc[t] = "post" /\ outbox[Current(t)].event = e /\ e \in Guarded
              => applied[e] = 0 \/ e \in concurrent
         /\ pc[t] = "mark" /\ outbox[Current(t)].event = e => applied[e] > 0

HolderInv   == TypeOK /\ HeldIsProcessing /\ OneHolder
DeliverOnce == HolderInv /\ DeliveryInv /\ GuardedOnce

\* Somebody retried a dead letter of event e.
Resent(e) == \E r \in RowsOf(e) : \E d \in LettersOf(r) : letters[d].status = "retried"

\* An event has a second row only when a dead letter was retried.
ByHandInv ==
  /\ concurrent \subseteq Events
  /\ \A r \in Rows : outbox[r].status = "absent" <=> outbox[r].event = NoEvent
  /\ \A d \in LetterIds : letters[d].status # "absent"
                           => outbox[letters[d].row].status # "absent"
  /\ \A a \in Admins : session[a].kind = "row"
                        => outbox[session[a].id].status # "absent"
  /\ \A r, q \in Rows : r # q /\ outbox[r].event = outbox[q].event
                         => outbox[r].event = NoEvent \/ Resent(outbox[r].event)

HandInv == HolderInv /\ ByHandInv /\ ConcurrentOnlyByHand

\* Somebody else decided the row's status or its limit: nothing is claimed for it.
Excused(r) == r \in raced \cup drifted

\* The errors recorded for row r account for its attempts; one attempt more is
\* under way, or was the last, and then a dead letter tells of it.
Accounted(r) ==
  LET row == outbox[r] IN
  /\ row.status # "absent" => row.limit = limit
  /\ row.status = "pending" => row.attempts = row.errors
  /\ row.status = "processing" => row.attempts = row.errors + 1
  /\ row.status = "failed" =>
       \/ row.attempts = row.errors /\ row.attempts < row.limit
       \/ /\ row.attempts = row.errors + 1 /\ row.attempts >= row.limit
          /\ LettersOf(r) # {}

\* What run t read of its rows, and what it knows between the two statements
\* of routeToDLQ.
Knows(t) ==
  /\ \A r \in Held(t) : Excused(r) \/
       /\ outbox[r].attempts = batch[t][r].attempts + 1
       /\ outbox[r].errors = batch[t][r].errors
  /\ pc[t] = "bury" => \/ Excused(Current(t))
                       \/ /\ LettersOf(Current(t)) # {}
                          /\ outbox[Current(t)].attempts >= outbox[Current(t)].limit

CountInv ==
  /\ HolderInv
  /\ \A r \in Rows : Excused(r) \/ Accounted(r)
  /\ \A t \in Ticks : Knows(t)
  /\ \A d \in LetterIds : letters[d].row \in Rows =>
       /\ letters[d].status # "absent"
       /\ Excused(letters[d].row) \/ letters[d].total = letters[d].errors
=============================================================================
