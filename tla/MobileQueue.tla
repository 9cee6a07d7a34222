----------------------------- MODULE MobileQueue -----------------------------
(***************************************************************************)
(* The offline queue of the mobile app.  A manager's decision on a leave   *)
(* or overtime request, a punch, a usage log is first an item of the       *)
(* phone's table offline_queue; SyncEngine (apps/mobile/src/sync) posts    *)
(* the items to POST /api/v1/mobile/actions of the gateway                 *)
(* (services/gateway/src/routes/mobile-sync.ts), which runs them one at a  *)
(* time and logs each in offline_action_log after running it.  The same    *)
(* requests are decided at a desk, by the HR service and by the gateway's  *)
(* GraphQL mutations, and cancelled by the employee.                       *)
(*                                                                         *)
(* One phone.  Every statement of the gateway's loop is its own            *)
(* transaction, so it is a step of its own here.                           *)
(***************************************************************************)
EXTENDS Integers, FiniteSets

CONSTANTS
  Requests,   \* leave and overtime requests
  NoRequest,  \* what an action other than a decision is about
  BatchMax,   \* the most actions the gateway takes in one post
  MaxItems,   \* bound: rows of offline_queue
  MaxPosts,   \* bound: posts on their way or being handled at once
  MaxFaults   \* bound: lost answers, lost posts, failures, kills of the app

ASSUME ConstantsAssumption ==
  /\ NoRequest \notin Requests
  /\ BatchMax \in Nat \ {0}
  /\ MaxItems \in Nat /\ MaxPosts \in Nat /\ MaxFaults \in Nat

VARIABLES
  request,    \* leave_requests.status, overtime_logs.status
  queue,      \* the phone's offline_queue; the number is the order of taking
  engine,     \* the app's memory: the post the sync engine waits for
  post,       \* posts on their way, being handled, answered
  actionLog,  \* offline_action_log: the statuses logged for each item
  applied,    \* history: how often an item's decision was written
  unheard,    \* history: items in a post whose answer the phone missed
  overlapped, \* history: items in two posts the gateway handled at once
  faults      \* history: the faults so far

server  == <<request, post, actionLog, applied>>
history == <<unheard, overlapped, faults>>
vars    == <<request, queue, engine, post, actionLog, applied, unheard,
             overlapped, faults>>

Items     == 1..MaxItems
Posts     == 1..MaxPosts
Decisions == {"approved", "rejected"}

NoItem == [status |-> "absent", on |-> NoRequest, decision |-> "none"]
NoPost == [state |-> "none", todo |-> {}, at |-> "dedupe", results |-> [i \in Items |-> "none"]]

Results == {"processed", "rejected", "conflict", "duplicate"}
Filed   == {"submitted", "conflict", "rejected"}
\* Mutants: what failed is not sent again; what a kill stranded is.
UnsentOnce == {i \in Items : queue[i].status = "pending"}
UnsentStranded == {i \in Items : queue[i].status \in {"pending", "failed", "submitting"}}

Unsent  == {i \in Items : queue[i].status \in {"pending", "failed"}}

IsNextItem(i) == queue[i] = NoItem /\ \A j \in 1..(i - 1) : queue[j] # NoItem
IsNextPost(p) == post[p] = NoPost /\ \A q \in 1..(p - 1) : post[q] # NoPost
Fault         == faults < MaxFaults /\ faults' = faults + 1
IsFirst(i, S) == i \in S /\ \A j \in S : i <= j

TypeOK ==
  /\ request \in [Requests -> {"pending", "cancelled"} \cup Decisions]
  /\ queue \in [Items -> [status : {"absent", "pending", "submitting", "failed"} \cup Filed,
                          on : Requests \cup {NoRequest}, decision : Decisions \cup {"none"}]]
  /\ engine \in 0..MaxPosts
  /\ post \in [Posts -> [state : {"none", "handling", "answered", "refused"},
                         todo : SUBSET Items, at : {"dedupe", "read", "write", "log"},
                         results : [Items -> Results \cup {"none"}]]]
  /\ actionLog \in [Items -> SUBSET Results]
  /\ applied \in [Items -> Nat]
  /\ unheard \in SUBSET Items /\ overlapped \in SUBSET Items
  /\ faults \in 0..MaxFaults

Init ==
  /\ request = [r \in Requests |-> "pending"]
  /\ queue = [i \in Items |-> NoItem]
  /\ engine = 0
  /\ post = [p \in Posts |-> NoPost]
  /\ actionLog = [i \in Items |-> {}]
  /\ applied = [i \in Items |-> 0]
  /\ unheard = {} /\ overlapped = {} /\ faults = 0

-----------------------------------------------------------------------------
(* The phone.                                                              *)

\* The user takes an action: of the ones the screens offer, the decisions,
\* and the others (punch, material issue, usage log, condition report).
QueueAction(i, r, d) ==
  /\ IsNextItem(i)
  /\ (r = NoRequest) <=> (d = "none")
  /\ queue' = [queue EXCEPT ![i] = [status |-> "pending", on |-> r, decision |-> d]]
  /\ UNCHANGED <<server, engine, history>>

\* What the phone has to send is marked and posted in one request.
SubmitQueue(p) ==
  /\ engine = 0 /\ Unsent # {} /\ IsNextPost(p)
  /\ engine' = p
  /\ queue' = [i \in Items |-> IF i \in Unsent THEN [queue[i] EXCEPT !.status = "submitting"]
                                               ELSE queue[i]]
  /\ post' = [post EXCEPT ![p].todo = Unsent,
                          ![p].state = IF Cardinality(Unsent) > BatchMax THEN "refused"
                                                                         ELSE "handling"]
  /\ overlapped' = overlapped \cup
       {i \in Unsent : \E q \in Posts : post[q].state = "handling" /\ i \in post[q].todo}
  /\ UNCHANGED <<request, actionLog, applied, unheard, faults>>

\* The items of the post the phone waits for.
Waiting(i) == engine # 0 /\ queue[i].status = "submitting"
              /\ (post[engine].results[i] # "none" \/ i \in post[engine].todo)

\* Mutant: a conflict is filed as submitted.
FileAsSent(result) == IF result = "rejected" THEN "rejected" ELSE "submitted"

FileAs(result) ==
  CASE result \in {"processed", "duplicate"} -> "submitted"
    [] result = "conflict"                   -> "conflict"
    [] result = "rejected"                   -> "rejected"

HearAnswer ==
  /\ engine # 0 /\ post[engine].state = "answered"
  /\ queue' = [i \in Items |->
                IF Waiting(i) THEN [queue[i] EXCEPT !.status = FileAs(post[engine].results[i])]
                              ELSE queue[i]]
  /\ engine' = 0
  /\ post' = [post EXCEPT ![engine] = NoPost]
  /\ UNCHANGED <<request, actionLog, applied, history>>

\* The gateway goes on with a post it has, whatever becomes of the phone.
StopWaiting ==
  /\ engine # 0 /\ engine' = 0
  /\ post' = [post EXCEPT ![engine] = IF @.state = "handling" THEN @ ELSE NoPost]
  /\ UNCHANGED <<request, actionLog, applied, overlapped>>

\* An error answer, or none: the items are to be sent again.
PostFails ==
  /\ StopWaiting
  /\ queue' = [i \in Items |-> IF Waiting(i) THEN [queue[i] EXCEPT !.status = "failed"]
                                             ELSE queue[i]]
  /\ unheard' = unheard \cup {i \in Items : Waiting(i)}
  /\ IF post[engine].state = "refused" THEN faults' = faults ELSE Fault

\* The system stops the app: the engine's memory is gone, the table stays.
KillApp == StopWaiting /\ Fault /\ UNCHANGED <<queue, unheard>>

-----------------------------------------------------------------------------
(* The gateway: the actions of a post, oldest first.                       *)

\* A post the phone no longer waits for leaves nothing behind.
Ended(p) == IF engine = p THEN [post[p] EXCEPT !.state = "answered", !.todo = {}] ELSE NoPost

Finish(p, i, result) ==
  post' = [post EXCEPT ![p].results[i] = result, ![p].at = "log"]

LookForDuplicate(p, i) ==
  /\ post[p].state = "handling" /\ post[p].at = "dedupe" /\ IsFirst(i, post[p].todo)
  /\ \/ actionLog[i] # {} /\ Finish(p, i, "duplicate")
     \/ actionLog[i] = {} /\ queue[i].on = NoRequest /\ Finish(p, i, "rejected")
     \/ /\ actionLog[i] = {} /\ queue[i].on # NoRequest
        /\ post' = [post EXCEPT ![p].at = "read"]
  /\ UNCHANGED <<request, queue, engine, actionLog, applied, history>>

\* Mutant: the request may have been decided.
ReadNothing(p, i) ==
  /\ post[p].state = "handling" /\ post[p].at = "read" /\ IsFirst(i, post[p].todo)
  /\ post' = [post EXCEPT ![p].at = "write"]
  /\ UNCHANGED <<request, queue, engine, actionLog, applied, history>>

ReadRequest(p, i) ==
  /\ post[p].state = "handling" /\ post[p].at = "read" /\ IsFirst(i, post[p].todo)
  /\ IF request[queue[i].on] # "pending" THEN Finish(p, i, "conflict")
                                         ELSE post' = [post EXCEPT ![p].at = "write"]
  /\ UNCHANGED <<request, queue, engine, actionLog, applied, history>>

WriteDecision(p, i) ==
  /\ post[p].state = "handling" /\ post[p].at = "write" /\ IsFirst(i, post[p].todo)
  /\ request' = [request EXCEPT ![queue[i].on] = queue[i].decision]
  /\ applied' = [applied EXCEPT ![i] = @ + 1]
  /\ Finish(p, i, "processed")
  /\ UNCHANGED <<queue, engine, actionLog, history>>

WriteLog(p, i) ==
  /\ post[p].state = "handling" /\ post[p].at = "log" /\ IsFirst(i, post[p].todo)
  /\ actionLog' = [actionLog EXCEPT ![i] = @ \cup {post[p].results[i]}]
  /\ post' = [post EXCEPT ![p] = IF @.todo = {i} THEN Ended(p)
                                ELSE [post[p] EXCEPT !.todo = @ \ {i}, !.at = "dedupe"]]
  /\ UNCHANGED <<request, queue, engine, applied, history>>

\* The post is lost on its way, a statement fails or the gateway stops.
DropPost(p) ==
  /\ post[p].state = "handling" /\ Fault
  /\ post' = [post EXCEPT ![p] = IF engine = p THEN [@ EXCEPT !.state = "refused"] ELSE NoPost]
  /\ UNCHANGED <<request, queue, engine, actionLog, applied, unheard, overlapped>>

-----------------------------------------------------------------------------
(* The desks: only the HR service and the employee look at the status.     *)

DecideInHR(r, d) ==
  /\ request[r] = "pending"
  /\ request' = [request EXCEPT ![r] = d]
  /\ UNCHANGED <<queue, engine, post, actionLog, applied, history>>

DecideInGateway(r, d) ==
  /\ request' = [request EXCEPT ![r] = d]
  /\ UNCHANGED <<queue, engine, post, actionLog, applied, history>>

CancelLeaveRequest(r) ==
  /\ request[r] = "pending"
  /\ request' = [request EXCEPT ![r] = "cancelled"]
  /\ UNCHANGED <<queue, engine, post, actionLog, applied, history>>

-----------------------------------------------------------------------------
Phone ==
  \/ \E i \in Items, r \in Requests \cup {NoRequest}, d \in Decisions \cup {"none"} :
       QueueAction(i, r, d)
  \/ \E p \in Posts : SubmitQueue(p)
  \/ HearAnswer \/ PostFails \/ KillApp

Handle(p) == \E i \in Items :
  LookForDuplicate(p, i) \/ ReadRequest(p, i) \/ WriteDecision(p, i) \/ WriteLog(p, i)

Desk == \E r \in Requests :
  \/ \E d \in Decisions : DecideInHR(r, d) \/ DecideInGateway(r, d)
  \/ CancelLeaveRequest(r)

Next ==
  \/ Phone
  \/ \E p \in Posts : Handle(p) \/ DropPost(p)
  \/ Desk

Spec == Init /\ [][Next]_vars

\* The 15 minute timer submits the queue, a fetch ends, the gateway's loop
\* goes on: nothing else has to happen.
Fairness ==
  /\ WF_vars(\E p \in Posts : SubmitQueue(p))
  /\ WF_vars(HearAnswer)
  /\ WF_vars(PostFails /\ post[engine].state = "refused")
  /\ \A p \in Posts : WF_vars(Handle(p))

FairSpec == Spec /\ Fairness

-----------------------------------------------------------------------------
\* The phone files a decision as submitted exactly when the server wrote it,
\* once (SyncEngine.ts 162-177 over the gateway's answers).  Exception: an
\* item whose answer it once missed, which comes back as a "duplicate" of
\* a refusal or as a conflict with itself.
FiledTruthfully ==
  \A i \in Items :
    queue[i].status \in Filed /\ i \notin unheard
      => (queue[i].status = "submitted") = (applied[i] = 1)

\* Whatever is lost, retried or killed, a decision is written twice only
\* when two posts of it were handled at the same time: the log stops a later
\* post, and where the gateway failed between the write and the log
\* (mobile-sync.ts 356-377) the request is no longer pending.
WrittenOnce == \A i \in Items : applied[i] > 1 => i \in overlapped

\* What waits for the next submission, or for its answer, only moves on.
Stranded(i) == queue[i].status = "submitting" /\ ~Waiting(i)
Overfull    == Cardinality({i \in Items : i \in Unsent \/ Waiting(i)}) > BatchMax

\* Every action is filed in the end, unless the app was killed while it
\* waited for the answer (the items stay 'submitting', which no query of the
\* engine selects again) or the queue has outgrown one post (every post is
\* refused and every item sent again).
EventuallyFiled ==
  \A i \in Items : queue[i].status = "pending"
                   ~> (queue[i].status \in Filed \/ Stranded(i) \/ Overfull)

\* The phone's table as a queue of work: an item is a task, the engine's
\* memory of the post it waits for is the only worker.
TaskPhase(status) ==
  CASE status = "absent"                 -> "new"
    [] status \in {"pending", "failed"}  -> "open"
    [] status = "submitting"             -> "taken"
    [] status \in Filed                  -> "done"

Work == INSTANCE Lease WITH
  Tasks     <- Items,
  Workers   <- {"engine"},
  phase     <- [i \in Items |-> TaskPhase(queue[i].status)],
  holders   <- [i \in Items |-> IF Waiting(i) THEN {"engine"} ELSE {}],
  disturbed <- {}

\* Through lost answers, refused posts, a gateway that goes on with a post the
\* phone has given up and a killed app, the phone keeps the promise of a
\* lease: an item is in one post it waits for, only the answer to that post
\* files it or lets it be sent again, and what is filed stays filed.
ImplementsLease == Work!Spec
=============================================================================
