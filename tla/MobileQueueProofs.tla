--------------------------- MODULE MobileQueueProofs ---------------------------
(***************************************************************************)
(* Theorems about MobileQueue for any requests, every size of a batch and  *)
(* every bound on items, posts and faults.                                 *)
(***************************************************************************)
EXTENDS MobileQueue, TLAPS

RequestType == {"pending", "cancelled"} \cup Decisions
ItemType    == [status : {"absent", "pending", "submitting", "failed"} \cup Filed,
                on : Requests \cup {NoRequest}, decision : Decisions \cup {"none"}]
PostType    == [state : {"none", "handling", "answered", "refused"}, todo : SUBSET Items,
                at : {"dedupe", "read", "write", "log"}, results : [Items -> Results \cup {"none"}]]

InPost(p, i) == i \in post[p].todo \/ post[p].results[i] # "none"
AtItem(p, i) == post[p].state = "handling" /\ IsFirst(i, post[p].todo)

\* A post is handled item by item: only the first of what is left may have a
\* result, and has one when it is to be logged; only decisions get as far as
\* the request.
PostSound ==
  \A p \in Posts :
    /\ post[p].state = "answered" => post[p].todo = {}
    /\ \A i \in Items :
         /\ i \in post[p].todo /\ post[p].results[i] # "none" =>
              post[p].at = "log" /\ IsFirst(i, post[p].todo)
         /\ AtItem(p, i) /\ post[p].at = "log" => post[p].results[i] # "none"
         /\ AtItem(p, i) /\ post[p].at \in {"read", "write"} => queue[i].on # NoRequest

\* A decision that was written left its request decided.
Decided ==
  \A i \in Items :
    /\ queue[i].on # NoRequest => queue[i].decision \in Decisions
    /\ applied[i] # 0 => queue[i].on # NoRequest /\ request[queue[i].on] # "pending"

\* Unless two posts of it are handled at once, a decision about to be written
\* was not written before.
Once ==
  \A i \in Items \ overlapped :
    /\ applied[i] <= 1
    /\ \A p, q \in Posts :
         /\ post[p].state = "handling" /\ i \in post[p].todo
         /\ post[q].state = "handling" /\ i \in post[q].todo
         => p = q
    /\ \A p \in Posts : AtItem(p, i) /\ post[p].at = "write" => applied[i] = 0

\* What happened to an item none of whose answers was missed: it is in one post
\* at most, whose result, once there, says whether it was written.
FiledAt(i) ==
  /\ queue[i].status # "failed"
  /\ queue[i].status \in {"absent", "pending"} =>
       applied[i] = 0 /\ actionLog[i] = {} /\ \A p \in Posts : ~InPost(p, i)
  /\ \A p, q \in Posts : InPost(p, i) /\ InPost(q, i) => p = q
  /\ queue[i].status \in Filed =>
       ((queue[i].status = "submitted") <=> (applied[i] = 1)) /\ \A p \in Posts : ~InPost(p, i)
  /\ \A p \in Posts : InPost(p, i) =>
       /\ i \in post[p].todo => actionLog[i] = {}
       /\ post[p].results[i] # "duplicate"
       /\ applied[i] = IF post[p].results[i] = "processed" THEN 1 ELSE 0

Filing == \A i \in Items \ unheard : FiledAt(i)

Inv == TypeOK /\ PostSound /\ Decided /\ Once /\ Filing

-----------------------------------------------------------------------------
(* The steps, by what they change.                                         *)

\* TypeOK in the types named here.
LEMMA Types ==
  TypeOK <=> /\ request \in [Requests -> RequestType] /\ queue \in [Items -> ItemType]
             /\ engine \in 0..MaxPosts /\ post \in [Posts -> PostType]
             /\ actionLog \in [Items -> SUBSET Results] /\ applied \in [Items -> Nat]
             /\ unheard \in SUBSET Items /\ overlapped \in SUBSET Items /\ faults \in 0..MaxFaults
  BY DEF TypeOK, RequestType, ItemType, PostType

\* There is nothing in a post that is not there.
LEMMA NoPostIsEmpty ==
  /\ NoPost \in PostType /\ NoPost.state = "none" /\ NoPost.todo = {} /\ NoPost.at = "dedupe"
  /\ \A i \in Items : NoPost.results[i] = "none"
  BY DEF NoPost, PostType

\* An item that is not there is about no request.
LEMMA NoItemIsAbsent ==
  NoItem \in ItemType /\ NoItem.status = "absent" /\ NoItem.on = NoRequest
  BY DEF NoItem, ItemType

\* The loop stays at the item, and goes on to a new place.
Goes(p, at) ==
  /\ post'[p].state = post[p].state /\ post'[p].todo = post[p].todo
  /\ post'[p].at = at /\ post'[p].results = post[p].results
  /\ \A q \in Posts \ {p} : post'[q] = post[q]

\* The loop has a result for the item.
Gives(p, i, r) ==
  /\ post'[p].state = post[p].state /\ post'[p].todo = post[p].todo
  /\ post'[p].at = "log" /\ post'[p].results[i] = r
  /\ \A j \in Items \ {i} : post'[p].results[j] = post[p].results[j]
  /\ \A q \in Posts \ {p} : post'[q] = post[q]

\* Finish gives its result.
LEMMA FinishGives ==
  ASSUME post \in [Posts -> PostType], NEW p \in Posts, NEW i \in Items, NEW r \in Results, Finish(p, i, r)
  PROVE  post' \in [Posts -> PostType] /\ Gives(p, i, r)
<1> DEFINE x == [post[p].results EXCEPT ![i] = r]
           y == [post[p] EXCEPT !.results = x, !.at = "log"]
<1>0. post[p] \in PostType
  OBVIOUS
<1>1. post' = [post EXCEPT ![p] = y]
  BY <1>0 DEF Finish, PostType
<1>2. x \in [Items -> Results \cup {"none"}] /\ x[i] = r
      /\ \A j \in Items \ {i} : x[j] = post[p].results[j]
  BY <1>0 DEF PostType
<1> HIDE DEF x
<1>3. /\ y \in PostType /\ y.results = x /\ y.at = "log"
      /\ y.state = post[p].state /\ y.todo = post[p].todo
  BY <1>0, <1>2 DEF PostType
<1> HIDE DEF y
<1>4. post' \in [Posts -> PostType] /\ post'[p] = y /\ \A q \in Posts \ {p} : post'[q] = post[q]
  BY <1>1, <1>3
<1> QED
  BY <1>2, <1>3, <1>4 DEF Gives

\* So does going on.
LEMMA AtGoes ==
  ASSUME post \in [Posts -> PostType], NEW p \in Posts, NEW at \in {"read", "write"},
         post' = [post EXCEPT ![p].at = at]
  PROVE  post' \in [Posts -> PostType] /\ Goes(p, at)
<1> DEFINE y == [post[p] EXCEPT !.at = at]
<1>1. /\ y \in PostType /\ y.results = post[p].results /\ y.at = at
      /\ y.state = post[p].state /\ y.todo = post[p].todo
  BY DEF PostType
<1>2. post' = [post EXCEPT ![p] = y]
  OBVIOUS
<1> HIDE DEF y
<1>3. post' \in [Posts -> PostType] /\ post'[p] = y /\ \A q \in Posts \ {p} : post'[q] = post[q]
  BY <1>1, <1>2
<1> QED
  BY <1>1, <1>3 DEF Goes

\* The phone stops waiting, or hears: the post it waited for goes on, or goes.
Leaves ==
  /\ engine' = 0
  /\ \A q \in Posts : post'[q] \in {post[q], NoPost}

\* The phone leaves posts as they are, or empty.
LEMMA Leaving ==
  ASSUME post \in [Posts -> PostType], engine \in 0..MaxPosts, HearAnswer \/ StopWaiting
  PROVE  post' \in [Posts -> PostType] /\ Leaves /\ engine \in Posts
<1>0. engine \in Posts
  BY ConstantsAssumption DEF HearAnswer, StopWaiting, Posts, ConstantsAssumption
<1>1. \E y \in {post[engine], NoPost} : post' = [post EXCEPT ![engine] = y]
  BY <1>0 DEF HearAnswer, StopWaiting
<1>2. engine' = 0
  BY DEF HearAnswer, StopWaiting
<1> QED
  BY <1>0, <1>1, <1>2, NoPostIsEmpty DEF Leaves

\* The item's row is logged, and the loop goes on or ends.
Logs(p, i) ==
  /\ \A q \in Posts \ {p} : post'[q] = post[q]
  /\ \/ post'[p] = NoPost /\ engine # p
     \/ /\ post'[p].state = "answered" /\ post'[p].todo = {} /\ post[p].todo = {i}
        /\ post'[p].results = post[p].results
     \/ /\ post'[p].state = "handling" /\ post'[p].todo = post[p].todo \ {i} /\ post'[p].at = "dedupe"
        /\ post'[p].results = post[p].results

\* WriteLog logs.
LEMMA Logging ==
  ASSUME post \in [Posts -> PostType], NEW p \in Posts, NEW i \in Items, WriteLog(p, i)
  PROVE  post' \in [Posts -> PostType] /\ Logs(p, i)
<1>0. post[p] \in PostType /\ post[p].state = "handling"
  BY DEF WriteLog
<1> DEFINE a == [post[p] EXCEPT !.state = "answered", !.todo = {}]
           b == [post[p] EXCEPT !.todo = post[p].todo \ {i}, !.at = "dedupe"]
<1>1. a \in PostType /\ a.state = "answered" /\ a.todo = {} /\ a.results = post[p].results
  BY <1>0 DEF PostType
<1>2. b \in PostType /\ b.state = "handling" /\ b.todo = post[p].todo \ {i} /\ b.at = "dedupe"
      /\ b.results = post[p].results
  BY <1>0 DEF PostType
<1>3. \/ post' = [post EXCEPT ![p] = NoPost] /\ engine # p
      \/ post' = [post EXCEPT ![p] = a] /\ post[p].todo = {i}
      \/ post' = [post EXCEPT ![p] = b]
  BY DEF WriteLog, Ended
<1> HIDE DEF a, b
<1> QED
  BY <1>1, <1>2, <1>3, NoPostIsEmpty DEF Logs

\* A post that is dropped is refused, or gone.
Drops(p) ==
  /\ \A q \in Posts \ {p} : post'[q] = post[q]
  /\ \/ post'[p] = NoPost /\ engine # p
     \/ /\ post'[p].state = "refused" /\ post'[p].todo = post[p].todo
        /\ post'[p].results = post[p].results /\ post'[p].at = post[p].at

\* DropPost drops.
LEMMA Dropping ==
  ASSUME post \in [Posts -> PostType], NEW p \in Posts, DropPost(p)
  PROVE  post' \in [Posts -> PostType] /\ Drops(p)
<1> DEFINE a == [post[p] EXCEPT !.state = "refused"]
<1>1. /\ a \in PostType /\ a.state = "refused" /\ a.todo = post[p].todo
      /\ a.results = post[p].results /\ a.at = post[p].at
  BY DEF PostType
<1>2. \/ post' = [post EXCEPT ![p] = NoPost] /\ engine # p
      \/ post' = [post EXCEPT ![p] = a]
  BY DEF DropPost
<1> HIDE DEF a
<1> QED
  BY <1>1, <1>2, NoPostIsEmpty DEF Drops

\* All that is unsent is posted.
Sends(p) ==
  /\ post[p] = NoPost
  /\ post'[p].state \in {"handling", "refused"} /\ post'[p].todo = Unsent /\ post'[p].at = "dedupe"
  /\ \A i \in Items : post'[p].results[i] = "none"
  /\ \A q \in Posts \ {p} : post'[q] = post[q]
  /\ \A i \in Items :
       /\ queue'[i].on = queue[i].on /\ queue'[i].decision = queue[i].decision
       /\ queue'[i].status = IF i \in Unsent THEN "submitting" ELSE queue[i].status

\* SubmitQueue sends.
LEMMA Sending ==
  ASSUME queue \in [Items -> ItemType], post \in [Posts -> PostType], NEW p \in Posts, SubmitQueue(p)
  PROVE  post' \in [Posts -> PostType] /\ queue' \in [Items -> ItemType] /\ Sends(p)
<1>0. post[p] = NoPost /\ Unsent \subseteq Items
  BY DEF SubmitQueue, IsNextPost, Unsent
<1>1. PICK s \in {"refused", "handling"} : post' = [post EXCEPT ![p].todo = Unsent, ![p].state = s]
  BY DEF SubmitQueue
<1> DEFINE y == [NoPost EXCEPT !.todo = Unsent, !.state = s]
<1>2. /\ y \in PostType /\ y.state = s /\ y.todo = Unsent /\ y.at = "dedupe"
      /\ y.results = NoPost.results
  BY <1>0 DEF NoPost, PostType
<1>3. post' = [post EXCEPT ![p] = y]
  BY <1>0, <1>1 DEF PostType
<1> HIDE DEF y
<1>4. post' \in [Posts -> PostType] /\ post'[p] = y /\ \A q \in Posts \ {p} : post'[q] = post[q]
  BY <1>2, <1>3
<1>5. queue' \in [Items -> ItemType]
  BY DEF SubmitQueue, ItemType
<1>6. \A i \in Items :
       /\ queue'[i].on = queue[i].on /\ queue'[i].decision = queue[i].decision
       /\ queue'[i].status = IF i \in Unsent THEN "submitting" ELSE queue[i].status
  BY DEF SubmitQueue, ItemType
<1> QED
  BY <1>0, <1>2, <1>4, <1>5, <1>6, NoPostIsEmpty DEF Sends

\* The steps of the loop, by what they do to the post.
LEMMA Handling ==
  ASSUME TypeOK, NEW p \in Posts, Handle(p)
  PROVE  \E i \in Items :
           /\ AtItem(p, i)
           /\ \/ WriteDecision(p, i) \/ WriteLog(p, i)
              \/ /\ post' \in [Posts -> PostType] /\ post[p].at \in {"dedupe", "read"}
                 /\ UNCHANGED <<request, queue, engine, actionLog, applied, history>>
                 /\ \/ Gives(p, i, "duplicate") /\ actionLog[i] # {}
                    \/ \E r \in {"rejected", "conflict"} : Gives(p, i, r)
                    \/ Goes(p, "read") /\ queue[i].on # NoRequest
                    \/ /\ Goes(p, "write") /\ post[p].at = "read"
                       /\ request[queue[i].on] = "pending"
<1>0. post \in [Posts -> PostType]
  BY Types
<1>1. PICK i \in Items : LookForDuplicate(p, i) \/ ReadRequest(p, i) \/ WriteDecision(p, i) \/ WriteLog(p, i)
  BY DEF Handle
<1>2. AtItem(p, i)
  BY <1>1 DEF LookForDuplicate, ReadRequest, WriteDecision, WriteLog, AtItem
<1>r. {"duplicate", "rejected", "conflict"} \subseteq Results
  BY DEF Results
<1>3. CASE LookForDuplicate(p, i)
  <2>1. post[p].at = "dedupe" /\ UNCHANGED <<request, queue, engine, actionLog, applied, history>>
    BY <1>3 DEF LookForDuplicate
  <2>2. CASE actionLog[i] # {} /\ Finish(p, i, "duplicate")
    BY <1>0, <1>2, <1>r, <2>1, <2>2, FinishGives
  <2>3. CASE Finish(p, i, "rejected")
    BY <1>0, <1>2, <1>r, <2>1, <2>3, FinishGives
  <2>4. CASE queue[i].on # NoRequest /\ post' = [post EXCEPT ![p].at = "read"]
    BY <1>0, <1>2, <2>1, <2>4, AtGoes
  <2> QED
    BY <1>3, <2>2, <2>3, <2>4 DEF LookForDuplicate
<1>4. CASE ReadRequest(p, i)
  <2>1. post[p].at = "read" /\ UNCHANGED <<request, queue, engine, actionLog, applied, history>>
    BY <1>4 DEF ReadRequest
  <2>2. CASE Finish(p, i, "conflict")
    BY <1>0, <1>2, <1>r, <2>1, <2>2, FinishGives
  <2>3. CASE request[queue[i].on] = "pending" /\ post' = [post EXCEPT ![p].at = "write"]
    BY <1>0, <1>2, <2>1, <2>3, AtGoes
  <2> QED
    BY <1>4, <2>2, <2>3 DEF ReadRequest
<1> QED
  BY <1>1, <1>2, <1>3, <1>4
-----------------------------------------------------------------------------
(* What the other steps change.                                            *)

\* A new item is pending, and no other changes.
LEMMA Queueing ==
  ASSUME TypeOK, NEW i \in Items, NEW r \in Requests \cup {NoRequest}, NEW d \in Decisions \cup {"none"},
         QueueAction(i, r, d)
  PROVE  /\ queue' \in [Items -> ItemType] /\ queue[i] = NoItem
         /\ queue'[i].status = "pending" /\ queue'[i].on = r /\ queue'[i].decision = d
         /\ r # NoRequest => d \in Decisions
         /\ \A j \in Items \ {i} : queue'[j] = queue[j]
<1> DEFINE x == [status |-> "pending", on |-> r, decision |-> d]
<1>1. x \in ItemType /\ x.status = "pending" /\ x.on = r /\ x.decision = d
  BY DEF ItemType
<1>2. queue \in [Items -> ItemType] /\ queue' = [queue EXCEPT ![i] = x] /\ queue[i] = NoItem
  BY Types DEF QueueAction, IsNextItem
<1>3. r # NoRequest => d \in Decisions
  BY DEF QueueAction
<1> HIDE DEF x
<1> QED
  BY <1>1, <1>2, <1>3

\* An answer that is heard has a result for every item waited for.
LEMMA Hearing ==
  ASSUME TypeOK, PostSound, HearAnswer
  PROVE  /\ queue' \in [Items -> ItemType]
         /\ \A i \in Items :
              /\ queue'[i].on = queue[i].on /\ queue'[i].decision = queue[i].decision
              /\ Waiting(i) => /\ post[engine].results[i] \in Results
                               /\ queue'[i].status = FileAs(post[engine].results[i])
              /\ ~Waiting(i) => queue'[i] = queue[i]
<1>0. /\ queue \in [Items -> ItemType] /\ post \in [Posts -> PostType] /\ engine \in Posts
      /\ engine \in 0..MaxPosts
  BY Types, Leaving
<1>1. post[engine].todo = {}
  BY <1>0 DEF HearAnswer, PostSound
<1>2. \A i \in Items : Waiting(i) => post[engine].results[i] \in Results
  BY <1>0, <1>1 DEF Waiting, PostType
<1>3. \A r \in Results : FileAs(r) \in Filed
  BY DEF FileAs, Results, Filed
<1>4. \A i \in Items : [queue[i] EXCEPT !.status = FileAs(post[engine].results[i])].on = queue[i].on
        /\ [queue[i] EXCEPT !.status = FileAs(post[engine].results[i])].decision = queue[i].decision
        /\ [queue[i] EXCEPT !.status = FileAs(post[engine].results[i])].status = FileAs(post[engine].results[i])
        /\ Waiting(i) => [queue[i] EXCEPT !.status = FileAs(post[engine].results[i])] \in ItemType
  BY <1>0, <1>2, <1>3 DEF ItemType
<1>5. queue' = [i \in Items |-> IF Waiting(i) THEN [queue[i] EXCEPT !.status = FileAs(post[engine].results[i])]
                                               ELSE queue[i]]
  BY DEF HearAnswer
<1> QED
  BY <1>0, <1>2, <1>4, <1>5

\* An answer that is missed leaves the items waited for to be sent again.
LEMMA Failing ==
  ASSUME TypeOK, PostFails
  PROVE  /\ queue' \in [Items -> ItemType] /\ unheard' \in SUBSET Items /\ faults' \in 0..MaxFaults
         /\ unheard \subseteq unheard'
         /\ \A i \in Items :
              /\ queue'[i].on = queue[i].on /\ queue'[i].decision = queue[i].decision
              /\ i \notin unheard' => queue'[i] = queue[i]
<1>0. queue \in [Items -> ItemType] /\ unheard \in SUBSET Items /\ faults \in 0..MaxFaults /\ MaxFaults \in Nat
  BY Types, ConstantsAssumption DEF ConstantsAssumption
<1>1. \A i \in Items : [queue[i] EXCEPT !.status = "failed"] \in ItemType
        /\ [queue[i] EXCEPT !.status = "failed"].on = queue[i].on
        /\ [queue[i] EXCEPT !.status = "failed"].decision = queue[i].decision
  BY <1>0 DEF ItemType
<1>2. queue' = [i \in Items |-> IF Waiting(i) THEN [queue[i] EXCEPT !.status = "failed"] ELSE queue[i]]
      /\ unheard' = unheard \cup {i \in Items : Waiting(i)}
  BY DEF PostFails
<1>3. faults' \in 0..MaxFaults
  BY <1>0 DEF PostFails, Fault
<1> QED
  BY <1>0, <1>1, <1>2, <1>3

\* A decision is written once more, over whatever the request was.
LEMMA Writing ==
  ASSUME TypeOK, PostSound, Decided, NEW p \in Posts, NEW i \in Items, WriteDecision(p, i)
  PROVE  /\ post' \in [Posts -> PostType] /\ Gives(p, i, "processed") /\ post[p].at = "write"
         /\ request' \in [Requests -> RequestType] /\ applied' \in [Items -> Nat]
         /\ queue[i].on \in Requests /\ request'[queue[i].on] # "pending"
         /\ \A r \in Requests : request[r] # "pending" => request'[r] # "pending"
         /\ applied'[i] = applied[i] + 1 /\ \A j \in Items \ {i} : applied'[j] = applied[j]
         /\ UNCHANGED <<queue, engine, actionLog, history>>
<1>0. /\ post \in [Posts -> PostType] /\ queue \in [Items -> ItemType]
      /\ request \in [Requests -> RequestType] /\ applied \in [Items -> Nat]
  BY Types
<1>1. AtItem(p, i) /\ post[p].at = "write" /\ Finish(p, i, "processed")
  BY DEF WriteDecision, AtItem
<1>2. queue[i].on # NoRequest /\ queue[i].decision \in Decisions
  BY <1>1 DEF PostSound, Decided
<1>3. queue[i].on \in Requests
  BY <1>0, <1>2 DEF ItemType
<1>4. request' = [request EXCEPT ![queue[i].on] = queue[i].decision]
      /\ applied' = [applied EXCEPT ![i] = applied[i] + 1]
      /\ UNCHANGED <<queue, engine, actionLog, history>>
  BY DEF WriteDecision
<1>5. "processed" \in Results
  BY DEF Results
<1>6. post' \in [Posts -> PostType] /\ Gives(p, i, "processed")
  BY <1>0, <1>1, <1>5, FinishGives
<1>7. /\ request' \in [Requests -> RequestType] /\ request'[queue[i].on] = queue[i].decision
      /\ \A r \in Requests \ {queue[i].on} : request'[r] = request[r]
  BY <1>0, <1>2, <1>3, <1>4 DEF RequestType
<1>8. queue[i].decision # "pending"
  BY <1>2 DEF Decisions
<1> QED
  BY <1>0, <1>1, <1>3, <1>4, <1>6, <1>7, <1>8

\* A desk decides a request, or the employee cancels it: none is pending again.
LEMMA Deciding ==
  ASSUME TypeOK, Desk
  PROVE  /\ request' \in [Requests -> RequestType]
         /\ \A r \in Requests : request[r] # "pending" => request'[r] # "pending"
         /\ UNCHANGED <<queue, engine, post, actionLog, applied, history>>
<1>0. request \in [Requests -> RequestType]
  BY Types
<1>1. PICK r \in Requests, d \in Decisions \cup {"cancelled"} : request' = [request EXCEPT ![r] = d]
  BY DEF Desk, DecideInHR, DecideInGateway, CancelLeaveRequest
<1>2. d \in RequestType /\ d # "pending"
  BY DEF RequestType, Decisions
<1>3. UNCHANGED <<queue, engine, post, actionLog, applied, history>>
  BY DEF Desk, DecideInHR, DecideInGateway, CancelLeaveRequest
<1> QED
  BY <1>0, <1>1, <1>2, <1>3

\* Next is the sum of these.
LEMMA Steps ==
  Next => \/ \E i \in Items, r \in Requests \cup {NoRequest}, d \in Decisions \cup {"none"} :
               QueueAction(i, r, d)
          \/ HearAnswer \/ PostFails \/ KillApp \/ Desk
          \/ \E p \in Posts : SubmitQueue(p) \/ Handle(p) \/ DropPost(p)
  BY DEF Next, Phone

\* At first nothing was queued.
LEMMA InitInv == Init => Inv
<1> SUFFICES ASSUME Init PROVE Inv
  OBVIOUS
<1> USE ConstantsAssumption DEF ConstantsAssumption
<1>1. /\ \A i \in Items : queue[i] = NoItem /\ applied[i] = 0 /\ actionLog[i] = {}
      /\ \A p \in Posts : post[p] = NoPost
  BY DEF Init
<1>2. TypeOK
  <2>1. request \in [Requests -> RequestType]
    BY DEF Init, RequestType
  <2>2. queue \in [Items -> ItemType] /\ post \in [Posts -> PostType]
    BY NoPostIsEmpty, NoItemIsAbsent DEF Init
  <2>3. /\ engine \in 0..MaxPosts /\ actionLog \in [Items -> SUBSET Results] /\ applied \in [Items -> Nat]
        /\ unheard \in SUBSET Items /\ overlapped \in SUBSET Items /\ faults \in 0..MaxFaults
    BY DEF Init
  <2> QED
    BY <2>1, <2>2, <2>3, Types
<1>3. \A p \in Posts, i \in Items : ~InPost(p, i) /\ ~AtItem(p, i)
  BY <1>1, NoPostIsEmpty DEF InPost, AtItem, IsFirst
<1>4. PostSound
  BY <1>1, <1>3, NoPostIsEmpty DEF PostSound, InPost
<1>5. Decided /\ Once
  BY <1>1, <1>3, NoItemIsAbsent, NoPostIsEmpty DEF Decided, Once
<1>6. Filing
  <2>1. "absent" \notin Filed /\ "failed" # "absent"
    BY DEF Filed
  <2> QED
    BY <1>1, <1>3, <2>1, NoItemIsAbsent DEF Filing, FiledAt
<1> QED
  BY <1>2, <1>4, <1>5, <1>6 DEF Inv

\* TypeOK is inductive, given PostSound and Decided.
LEMMA TypeStep == ASSUME TypeOK, PostSound, Decided, [Next]_vars PROVE TypeOK'
<1> USE ConstantsAssumption DEF ConstantsAssumption
<1>0. /\ request \in [Requests -> RequestType] /\ queue \in [Items -> ItemType]
      /\ engine \in 0..MaxPosts /\ post \in [Posts -> PostType]
      /\ actionLog \in [Items -> SUBSET Results] /\ applied \in [Items -> Nat]
      /\ unheard \in SUBSET Items /\ overlapped \in SUBSET Items /\ faults \in 0..MaxFaults
  BY Types
<1>t. TypeOK' <=>
        /\ request' \in [Requests -> RequestType] /\ queue' \in [Items -> ItemType]
        /\ engine' \in 0..MaxPosts /\ post' \in [Posts -> PostType]
        /\ actionLog' \in [Items -> SUBSET Results] /\ applied' \in [Items -> Nat]
        /\ unheard' \in SUBSET Items /\ overlapped' \in SUBSET Items /\ faults' \in 0..MaxFaults
  BY DEF TypeOK, RequestType, ItemType, PostType
<1>1. ASSUME NEW i \in Items, NEW r \in Requests \cup {NoRequest}, NEW d \in Decisions \cup {"none"},
             QueueAction(i, r, d)
      PROVE  TypeOK'
  <2>1. UNCHANGED <<server, engine, history>>
    BY <1>1 DEF QueueAction
  <2> QED
    BY <1>0, <1>1, <1>t, <2>1, Queueing DEF server, history
<1>2. ASSUME HearAnswer PROVE TypeOK'
  <2>1. UNCHANGED <<request, actionLog, applied, history>> /\ engine' = 0 /\ 0 \in 0..MaxPosts
    BY <1>2 DEF HearAnswer
  <2> QED
    BY <1>0, <1>2, <1>t, <2>1, Hearing, Leaving DEF history
<1>3. ASSUME PostFails PROVE TypeOK'
  <2>1. UNCHANGED <<request, actionLog, applied, overlapped>> /\ engine' = 0 /\ 0 \in 0..MaxPosts /\ StopWaiting
    BY <1>3 DEF PostFails, StopWaiting
  <2> QED
    BY <1>0, <1>3, <1>t, <2>1, Failing, Leaving
<1>4. ASSUME KillApp PROVE TypeOK'
  <2>1. UNCHANGED <<request, actionLog, applied, overlapped>> /\ engine' = 0 /\ 0 \in 0..MaxPosts
        /\ StopWaiting /\ UNCHANGED <<queue, unheard>>
    BY <1>4 DEF KillApp, StopWaiting
  <2>2. faults' \in 0..MaxFaults
    BY <1>0, <1>4 DEF KillApp, Fault
  <2> QED
    BY <1>0, <1>t, <2>1, <2>2, Leaving
<1>5. ASSUME Desk PROVE TypeOK'
  BY <1>0, <1>5, <1>t, Deciding DEF history
<1>6. ASSUME NEW p \in Posts, SubmitQueue(p) PROVE TypeOK'
  <2>1. UNCHANGED <<request, actionLog, applied, unheard, faults>> /\ engine' = p
    BY <1>6 DEF SubmitQueue
  <2>2. p \in 0..MaxPosts
    BY DEF Posts
  <2>3. overlapped' \in SUBSET Items
    <3>1. overlapped' \subseteq overlapped \cup Unsent
      BY <1>6 DEF SubmitQueue
    <3> QED
      BY <1>0, <3>1 DEF Unsent
  <2> QED
    BY <1>0, <1>6, <1>t, <2>1, <2>2, <2>3, Sending
<1>7. ASSUME NEW p \in Posts, Handle(p) PROVE TypeOK'
  <2>1. PICK i \in Items :
           /\ AtItem(p, i)
           /\ \/ WriteDecision(p, i) \/ WriteLog(p, i)
              \/ /\ post' \in [Posts -> PostType]
                 /\ UNCHANGED <<request, queue, engine, actionLog, applied, history>>
    BY <1>7, Handling
  <2>2. CASE WriteDecision(p, i)
    BY <1>0, <1>t, <2>2, Writing DEF history
  <2>3. CASE WriteLog(p, i)
    <3>1. post[p].at = "log" /\ UNCHANGED <<request, queue, engine, applied, history>>
          /\ actionLog' = [actionLog EXCEPT ![i] = actionLog[i] \cup {post[p].results[i]}]
      BY <2>3 DEF WriteLog
    <3>2. post[p].results[i] \in Results
      BY <1>0, <2>1, <3>1 DEF PostSound, PostType
    <3>3. actionLog' \in [Items -> SUBSET Results]
      BY <1>0, <3>1, <3>2
    <3> QED
      BY <1>0, <1>t, <2>3, <3>1, <3>3, Logging DEF history
  <2>4. CASE /\ post' \in [Posts -> PostType]
             /\ UNCHANGED <<request, queue, engine, actionLog, applied, history>>
    BY <1>0, <1>t, <2>4 DEF history
  <2> QED
    BY <2>1, <2>2, <2>3, <2>4
<1>8. ASSUME NEW p \in Posts, DropPost(p) PROVE TypeOK'
  <2>1. UNCHANGED <<request, queue, engine, actionLog, applied, unheard, overlapped>>
    BY <1>8 DEF DropPost
  <2>2. faults' \in 0..MaxFaults
    BY <1>0, <1>8 DEF DropPost, Fault
  <2> QED
    BY <1>0, <1>8, <1>t, <2>1, <2>2, Dropping
<1>9. CASE UNCHANGED vars
  BY <1>9 DEF vars, TypeOK
<1> QED
  BY <1>1, <1>2, <1>3, <1>4, <1>5, <1>6, <1>7, <1>8, <1>9, Steps
-----------------------------------------------------------------------------
(* The posts.                                                              *)

\* Posts that stay or go keep PostSound, if no item forgets its request.
LEMMA PostKeeps ==
  ASSUME PostSound, \A q \in Posts : post'[q] \in {post[q], NoPost},
         \A i \in Items : queue[i].on # NoRequest => queue'[i].on # NoRequest
  PROVE  PostSound'
<1>1. ASSUME NEW q \in Posts, NEW i \in Items
      PROVE  AtItem(q, i)' => AtItem(q, i) /\ post'[q] = post[q]
  BY NoPostIsEmpty DEF AtItem
<1>2. ASSUME NEW q \in Posts, post'[q] # post[q]
      PROVE  post'[q].todo = {} /\ post'[q].state = "none"
  BY <1>2, NoPostIsEmpty
<1>3. ASSUME NEW q \in Posts
      PROVE  /\ post'[q].state = "answered" => post'[q].todo = {}
             /\ \A i \in Items : i \in post'[q].todo /\ post'[q].results[i] # "none" =>
                  post'[q].at = "log" /\ IsFirst(i, post'[q].todo)
  BY <1>2 DEF PostSound
<1>4. ASSUME NEW q \in Posts, NEW i \in Items, AtItem(q, i)'
      PROVE  /\ post'[q].at = "log" => post'[q].results[i] # "none"
             /\ post'[q].at \in {"read", "write"} => queue'[i].on # NoRequest
  BY <1>1, <1>4 DEF PostSound
<1> QED
  BY <1>3, <1>4 DEF PostSound

\* One post changes, the others stay.
LEMMA PostChanges ==
  ASSUME PostSound, NEW p \in Posts, \A q \in Posts \ {p} : post'[q] = post[q],
         \A i \in Items : queue'[i].on = queue[i].on,
         post'[p].state = "answered" => post'[p].todo = {},
         \A i \in Items :
           /\ i \in post'[p].todo /\ post'[p].results[i] # "none" =>
                post'[p].at = "log" /\ IsFirst(i, post'[p].todo)
           /\ AtItem(p, i)' /\ post'[p].at = "log" => post'[p].results[i] # "none"
           /\ AtItem(p, i)' /\ post'[p].at \in {"read", "write"} => queue'[i].on # NoRequest
  PROVE  PostSound'
<1>1. ASSUME NEW q \in Posts \ {p}, NEW i \in Items PROVE AtItem(q, i)' <=> AtItem(q, i)
  BY DEF AtItem
<1> QED
  BY <1>1 DEF PostSound

\* There is one first item.
LEMMA OneFirst ==
  ASSUME NEW S, NEW i \in Items, NEW j \in Items, IsFirst(i, S), IsFirst(j, S)
  PROVE  i = j
  BY DEF IsFirst, Items

\* PostSound is inductive.
LEMMA PostStep == ASSUME TypeOK, PostSound, Decided, [Next]_vars PROVE PostSound'
<1>0. post \in [Posts -> PostType]
  BY Types
<1>s. ASSUME UNCHANGED <<queue, post>> PROVE PostSound'
  BY <1>s, PostKeeps
<1>1. ASSUME NEW i \in Items, NEW r \in Requests \cup {NoRequest}, NEW d \in Decisions \cup {"none"},
             QueueAction(i, r, d)
      PROVE  PostSound'
  <2>1. \A j \in Items : queue[j].on # NoRequest => queue'[j].on # NoRequest
    BY <1>1, Queueing, NoItemIsAbsent
  <2> QED
    BY <1>1, <2>1, PostKeeps DEF QueueAction, server
<1>2. ASSUME HearAnswer PROVE PostSound'
  <2>1. Leaves
    BY <1>0, <1>2, Leaving, Types
  <2> QED
    BY <1>2, <2>1, Hearing, PostKeeps DEF Leaves
<1>3. ASSUME PostFails PROVE PostSound'
  <2>1. Leaves
    BY <1>0, <1>3, Leaving, Types DEF PostFails
  <2> QED
    BY <1>3, <2>1, Failing, PostKeeps DEF Leaves
<1>4. ASSUME KillApp PROVE PostSound'
  <2>1. Leaves
    BY <1>0, <1>4, Leaving, Types DEF KillApp
  <2> QED
    BY <1>4, <2>1, PostKeeps DEF Leaves, KillApp
<1>5. ASSUME Desk PROVE PostSound'
  BY <1>5, <1>s, Deciding
<1>6. ASSUME NEW p \in Posts, SubmitQueue(p) PROVE PostSound'
  <2>1. Sends(p)
    BY <1>0, <1>6, Sending, Types
  <2> QED
    BY <2>1, PostChanges DEF Sends
<1>7. ASSUME NEW p \in Posts, Handle(p) PROVE PostSound'
  <2>1. PICK i \in Items :
           /\ AtItem(p, i)
           /\ \/ WriteDecision(p, i) \/ WriteLog(p, i)
              \/ /\ post' \in [Posts -> PostType] /\ post[p].at \in {"dedupe", "read"}
                 /\ UNCHANGED <<request, queue, engine, actionLog, applied, history>>
                 /\ \/ Gives(p, i, "duplicate") /\ actionLog[i] # {}
                    \/ \E r \in {"rejected", "conflict"} : Gives(p, i, r)
                    \/ Goes(p, "read") /\ queue[i].on # NoRequest
                    \/ /\ Goes(p, "write") /\ post[p].at = "read"
                       /\ request[queue[i].on] = "pending"
    BY <1>7, Handling
  <2>2. ASSUME NEW r \in Results, Gives(p, i, r), queue' = queue PROVE PostSound'
    <3>1. r # "none"
      BY DEF Results
    <3>2. \A j \in Items : AtItem(p, j)' => j = i
      BY <2>1, <2>2, OneFirst DEF Gives, AtItem
    <3>3. \A j \in Items : j \in post'[p].todo /\ post'[p].results[j] # "none" => j = i
      BY <2>1, <2>2, OneFirst DEF Gives, AtItem, PostSound
    <3>4. IsFirst(i, post'[p].todo) /\ post'[p].state = "handling"
      BY <2>1, <2>2 DEF Gives, AtItem
    <3> QED
      BY <2>2, <3>1, <3>2, <3>3, <3>4, PostChanges DEF Gives
  <2>3. CASE WriteDecision(p, i)
    <3>1. Gives(p, i, "processed") /\ queue' = queue /\ "processed" \in Results
      BY <2>3, Writing DEF Results
    <3> QED
      BY <2>2, <3>1
  <2>4. CASE WriteLog(p, i)
    <3>1. Logs(p, i) /\ queue' = queue
      BY <1>0, <2>4, Logging DEF WriteLog
    <3>2. CASE post'[p] = NoPost
      BY <3>1, <3>2, PostKeeps DEF Logs
    <3>3. CASE post'[p].state = "answered" /\ post'[p].todo = {}
      BY <3>1, <3>3, PostChanges DEF Logs, AtItem
    <3>4. CASE /\ post'[p].state = "handling" /\ post'[p].todo = post[p].todo \ {i} /\ post'[p].at = "dedupe"
               /\ post'[p].results = post[p].results
      <4>1. \A j \in Items : j \in post'[p].todo => post'[p].results[j] = "none"
        <5>1. ASSUME NEW j \in Items, j \in post[p].todo, j # i PROVE post[p].results[j] = "none"
          BY <2>1, <5>1, OneFirst DEF AtItem, PostSound
        <5> QED
          BY <3>4, <5>1
      <4> QED
        BY <3>1, <3>4, <4>1, PostChanges DEF Logs
    <3> QED
      BY <3>1, <3>2, <3>3, <3>4 DEF Logs
  <2>5. ASSUME queue' = queue, NEW at \in {"read", "write"}, Goes(p, at), queue[i].on # NoRequest,
               post[p].at \in {"dedupe", "read"}
        PROVE  PostSound'
    <3>1. \A j \in Items : AtItem(p, j)' => j = i
      BY <2>1, <2>5, OneFirst DEF Goes, AtItem
    <3>2. \A j \in Items : j \in post[p].todo => post[p].results[j] = "none"
      BY <2>5 DEF PostSound
    <3>3. post'[p].state = "handling"
      BY <2>1, <2>5 DEF Goes, AtItem
    <3> QED
      BY <2>5, <3>1, <3>2, <3>3, PostChanges DEF Goes
  <2>6. post[p].at = "read" => queue[i].on # NoRequest
    BY <2>1 DEF PostSound
  <2>7. {"duplicate", "rejected", "conflict"} \subseteq Results
    BY DEF Results
  <2> QED
    BY <2>1, <2>2, <2>3, <2>4, <2>5, <2>6, <2>7
<1>8. ASSUME NEW p \in Posts, DropPost(p) PROVE PostSound'
  <2>1. Drops(p) /\ queue' = queue
    BY <1>0, <1>8, Dropping DEF DropPost
  <2>2. CASE post'[p] = NoPost
    BY <2>1, <2>2, PostKeeps DEF Drops
  <2>3. CASE /\ post'[p].state = "refused" /\ post'[p].todo = post[p].todo
             /\ post'[p].results = post[p].results /\ post'[p].at = post[p].at
    <3>1. \A i \in Items : i \in post'[p].todo /\ post'[p].results[i] # "none" =>
            post'[p].at = "log" /\ IsFirst(i, post'[p].todo)
      BY <2>3 DEF PostSound
    <3>2. \A i \in Items : ~AtItem(p, i)'
      BY <2>3 DEF AtItem
    <3> QED
      BY <2>1, <2>3, <3>1, <3>2, PostChanges DEF Drops
  <2> QED
    BY <2>1, <2>2, <2>3 DEF Drops
<1>9. CASE UNCHANGED vars
  BY <1>9, <1>s DEF vars
<1> QED
  BY <1>1, <1>2, <1>3, <1>4, <1>5, <1>6, <1>7, <1>8, <1>9, Steps

-----------------------------------------------------------------------------
(* The requests.                                                           *)

\* Decided is inductive, given PostSound.
LEMMA DecidedStep == ASSUME TypeOK, PostSound, Decided, [Next]_vars PROVE Decided'
<1>0. /\ queue \in [Items -> ItemType] /\ post \in [Posts -> PostType] /\ applied \in [Items -> Nat]
  BY Types
<1>k. ASSUME \A i \in Items : queue'[i].on = queue[i].on /\ queue'[i].decision = queue[i].decision,
             applied' = applied,
             \A r \in Requests : request[r] # "pending" => request'[r] # "pending"
      PROVE  Decided'
  <2>1. \A i \in Items : queue[i].on # NoRequest => queue[i].on \in Requests
    BY <1>0 DEF ItemType
  <2> QED
    BY <1>k, <2>1 DEF Decided
<1>1. ASSUME NEW i \in Items, NEW r \in Requests \cup {NoRequest}, NEW d \in Decisions \cup {"none"},
             QueueAction(i, r, d)
      PROVE  Decided'
  <2>1. request' = request /\ applied' = applied
    BY <1>1 DEF QueueAction, server
  <2>2. applied[i] = 0
    BY <1>1, Queueing, NoItemIsAbsent DEF Decided
  <2> QED
    BY <1>1, <2>1, <2>2, Queueing DEF Decided
<1>2. ASSUME HearAnswer PROVE Decided'
  BY <1>2, <1>k, Hearing DEF HearAnswer
<1>3. ASSUME PostFails PROVE Decided'
  BY <1>3, <1>k, Failing DEF PostFails, StopWaiting
<1>4. ASSUME KillApp PROVE Decided'
  BY <1>4, <1>k DEF KillApp, StopWaiting
<1>5. ASSUME Desk PROVE Decided'
  BY <1>5, <1>k, Deciding
<1>6. ASSUME NEW p \in Posts, SubmitQueue(p) PROVE Decided'
  <2>1. Sends(p) /\ request' = request /\ applied' = applied
    BY <1>0, <1>6, Sending DEF SubmitQueue
  <2> QED
    BY <1>k, <2>1 DEF Sends
<1>7. ASSUME NEW p \in Posts, Handle(p) PROVE Decided'
  <2>1. PICK i \in Items :
           \/ WriteDecision(p, i) \/ WriteLog(p, i)
           \/ UNCHANGED <<request, queue, engine, actionLog, applied, history>>
    BY <1>7, Handling
  <2>2. CASE WriteDecision(p, i)
    <3>1. /\ queue[i].on \in Requests /\ request'[queue[i].on] # "pending"
          /\ \A r \in Requests : request[r] # "pending" => request'[r] # "pending"
          /\ \A j \in Items \ {i} : applied'[j] = applied[j]
          /\ queue' = queue
      BY <2>2, Writing
    <3>2. NoRequest \notin Requests
      BY ConstantsAssumption DEF ConstantsAssumption
    <3>3. \A j \in Items : queue[j].on # NoRequest => queue[j].on \in Requests
      BY <1>0 DEF ItemType
    <3> QED
      BY <3>1, <3>2, <3>3 DEF Decided
  <2>3. CASE WriteLog(p, i)
    BY <1>k, <2>3 DEF WriteLog
  <2> QED
    BY <1>k, <2>1, <2>2, <2>3
<1>8. ASSUME NEW p \in Posts, DropPost(p) PROVE Decided'
  BY <1>8, <1>k DEF DropPost
<1>9. CASE UNCHANGED vars
  BY <1>9, <1>k DEF vars
<1> QED
  BY <1>1, <1>2, <1>3, <1>4, <1>5, <1>6, <1>7, <1>8, <1>9, Steps
-----------------------------------------------------------------------------
(* A decision is written once.                                             *)

\* Posts that stay or go write nothing.
LEMMA OnceKeeps ==
  ASSUME Once, \A q \in Posts : post'[q] \in {post[q], NoPost},
         applied' = applied, overlapped \subseteq overlapped'
  PROVE  Once'
<1>1. ASSUME NEW q \in Posts, NEW i \in Items
      PROVE  /\ AtItem(q, i)' => AtItem(q, i) /\ post'[q] = post[q]
             /\ post'[q].state = "handling" /\ i \in post'[q].todo => post'[q] = post[q]
  <2>1. CASE post'[q] = post[q]
    BY <2>1 DEF AtItem
  <2>2. CASE post'[q] = NoPost
    BY <2>2, NoPostIsEmpty DEF AtItem
  <2> QED
    BY <2>1, <2>2
<1>2. SUFFICES ASSUME NEW i \in Items \ overlapped'
               PROVE  /\ applied'[i] <= 1
                      /\ \A p, q \in Posts :
                           /\ post'[p].state = "handling" /\ i \in post'[p].todo
                           /\ post'[q].state = "handling" /\ i \in post'[q].todo
                           => p = q
                      /\ \A p \in Posts : AtItem(p, i)' /\ post'[p].at = "write" => applied'[i] = 0
  BY DEF Once
<1>3. i \in Items \ overlapped
  BY <1>2
<1>4. /\ applied[i] <= 1
      /\ \A p, q \in Posts :
           /\ post[p].state = "handling" /\ i \in post[p].todo
           /\ post[q].state = "handling" /\ i \in post[q].todo
           => p = q
      /\ \A p \in Posts : AtItem(p, i) /\ post[p].at = "write" => applied[i] = 0
  BY <1>3 DEF Once
<1> QED
  BY <1>1, <1>4

\* One post changes and takes no new item.
LEMMA OnceChanges ==
  ASSUME Once, NEW p \in Posts, \A q \in Posts \ {p} : post'[q] = post[q],
         post'[p].state = "handling" => post[p].state = "handling" /\ post'[p].todo \subseteq post[p].todo,
         overlapped' = overlapped,
         \A i \in Items \ overlapped :
           /\ applied'[i] <= 1
           /\ AtItem(p, i)' /\ post'[p].at = "write" => applied'[i] = 0
           /\ applied'[i] # applied[i] => post[p].state = "handling" /\ i \in post[p].todo
  PROVE  Once'
<1>1. SUFFICES ASSUME NEW i \in Items \ overlapped
               PROVE  /\ applied'[i] <= 1
                      /\ \A l, q \in Posts :
                           /\ post'[l].state = "handling" /\ i \in post'[l].todo
                           /\ post'[q].state = "handling" /\ i \in post'[q].todo
                           => l = q
                      /\ \A q \in Posts : AtItem(q, i)' /\ post'[q].at = "write" => applied'[i] = 0
  BY DEF Once
<1>2. /\ \A l, q \in Posts :
           /\ post[l].state = "handling" /\ i \in post[l].todo
           /\ post[q].state = "handling" /\ i \in post[q].todo
           => l = q
      /\ \A q \in Posts : AtItem(q, i) /\ post[q].at = "write" => applied[i] = 0
  BY <1>1 DEF Once
<1>3. ASSUME NEW q \in Posts, post'[q].state = "handling", i \in post'[q].todo
      PROVE  post[q].state = "handling" /\ i \in post[q].todo
  BY <1>3
<1>4. ASSUME NEW q \in Posts, AtItem(q, i)', post'[q].at = "write" PROVE applied'[i] = 0
  <2>1. CASE q = p
    BY <1>1, <1>4, <2>1
  <2>2. CASE q # p
    <3>1. post'[q] = post[q] /\ AtItem(q, i)
      BY <1>4, <2>2 DEF AtItem
    <3>2. post[q].state = "handling" /\ i \in post[q].todo
      BY <3>1 DEF AtItem, IsFirst
    <3>3. applied[i] = 0
      BY <1>2, <1>4, <3>1
    <3>4. ~(post[p].state = "handling" /\ i \in post[p].todo)
      BY <1>2, <2>2, <3>2
    <3> QED
      BY <1>1, <3>3, <3>4
  <2> QED
    BY <2>1, <2>2
<1> QED
  BY <1>1, <1>2, <1>3, <1>4

\* Once is inductive.
LEMMA OnceStep == ASSUME TypeOK, PostSound, Decided, Once, [Next]_vars PROVE Once'
<1>0. post \in [Posts -> PostType] /\ applied \in [Items -> Nat]
  BY Types
<1>s. ASSUME UNCHANGED <<post, applied, overlapped>> PROVE Once'
  BY <1>s, OnceKeeps
<1>1. ASSUME NEW i \in Items, NEW r \in Requests \cup {NoRequest}, NEW d \in Decisions \cup {"none"},
             QueueAction(i, r, d)
      PROVE  Once'
  BY <1>1, <1>s DEF QueueAction, server, history
<1>2. ASSUME HearAnswer PROVE Once'
  <2>1. Leaves /\ applied' = applied /\ overlapped' = overlapped
    BY <1>0, <1>2, Leaving, Types DEF HearAnswer, history
  <2> QED
    BY <2>1, OnceKeeps DEF Leaves
<1>3. ASSUME PostFails \/ KillApp PROVE Once'
  <2>1. Leaves /\ applied' = applied /\ overlapped' = overlapped
    <3>1. StopWaiting
      BY <1>3 DEF PostFails, KillApp
    <3> QED
      BY <1>0, <3>1, Leaving, Types DEF StopWaiting
  <2> QED
    BY <2>1, OnceKeeps DEF Leaves
<1>5. ASSUME Desk PROVE Once'
  BY <1>5, <1>s, Deciding DEF history
<1>6. ASSUME NEW p \in Posts, SubmitQueue(p) PROVE Once'
  <2>1. Sends(p) /\ applied' = applied
    BY <1>0, <1>6, Sending, Types DEF SubmitQueue
  <2>2. overlapped' = overlapped \cup
          {i \in Unsent : \E q \in Posts : post[q].state = "handling" /\ i \in post[q].todo}
    BY <1>6 DEF SubmitQueue
  <2>3. SUFFICES ASSUME NEW i \in Items \ overlapped'
                 PROVE  /\ applied'[i] <= 1
                        /\ \A l, q \in Posts :
                             /\ post'[l].state = "handling" /\ i \in post'[l].todo
                             /\ post'[q].state = "handling" /\ i \in post'[q].todo
                             => l = q
                        /\ \A q \in Posts : AtItem(q, i)' /\ post'[q].at = "write" => applied'[i] = 0
    BY DEF Once
  <2>4. i \in Items \ overlapped
        /\ (i \in Unsent => \A q \in Posts : ~(post[q].state = "handling" /\ i \in post[q].todo))
    BY <2>2, <2>3
  <2>5. /\ applied[i] <= 1
        /\ \A l, q \in Posts :
             /\ post[l].state = "handling" /\ i \in post[l].todo
             /\ post[q].state = "handling" /\ i \in post[q].todo
             => l = q
        /\ \A q \in Posts : AtItem(q, i) /\ post[q].at = "write" => applied[i] = 0
    BY <2>4 DEF Once
  <2>6. ASSUME NEW q \in Posts, AtItem(q, i)', post'[q].at = "write" PROVE applied'[i] = 0
    <3>1. q # p
      BY <2>1, <2>6 DEF Sends
    <3>2. post'[q] = post[q] /\ AtItem(q, i)
      BY <2>1, <2>6, <3>1 DEF Sends, AtItem
    <3> QED
      BY <2>1, <2>5, <2>6, <3>2
  <2>7. ASSUME NEW l \in Posts, NEW q \in Posts,
               post'[l].state = "handling", i \in post'[l].todo,
               post'[q].state = "handling", i \in post'[q].todo
        PROVE  l = q
    BY <2>1, <2>4, <2>5, <2>7 DEF Sends
  <2> QED
    BY <2>1, <2>5, <2>6, <2>7
<1>7. ASSUME NEW p \in Posts, Handle(p) PROVE Once'
  <2>1. PICK i \in Items :
           /\ AtItem(p, i)
           /\ \/ WriteDecision(p, i) \/ WriteLog(p, i)
              \/ /\ post' \in [Posts -> PostType] /\ post[p].at \in {"dedupe", "read"}
                 /\ UNCHANGED <<request, queue, engine, actionLog, applied, history>>
                 /\ \/ Gives(p, i, "duplicate") /\ actionLog[i] # {}
                    \/ \E r \in {"rejected", "conflict"} : Gives(p, i, r)
                    \/ Goes(p, "read") /\ queue[i].on # NoRequest
                    \/ /\ Goes(p, "write") /\ post[p].at = "read"
                       /\ request[queue[i].on] = "pending"
    BY <1>7, Handling
  <2>2. post[p].state = "handling" /\ i \in post[p].todo
    BY <2>1 DEF AtItem, IsFirst
  <2>3. \A j \in Items \ overlapped : applied[j] <= 1
    BY DEF Once
  <2>4. CASE WriteDecision(p, i)
    <3>1. /\ Gives(p, i, "processed") /\ post[p].at = "write" /\ overlapped' = overlapped
          /\ applied'[i] = applied[i] + 1 /\ \A j \in Items \ {i} : applied'[j] = applied[j]
      BY <2>4, Writing DEF history
    <3>2. i \notin overlapped => applied'[i] <= 1
      BY <1>0, <2>1, <3>1 DEF Once
    <3>3. post'[p].at # "write"
      BY <3>1 DEF Gives
    <3> QED
      BY <2>2, <2>3, <3>1, <3>2, <3>3, OnceChanges DEF Gives
  <2>5. CASE WriteLog(p, i)
    <3>1. Logs(p, i) /\ applied' = applied /\ overlapped' = overlapped
      BY <1>0, <2>5, Logging DEF WriteLog, history
    <3>2. \/ post'[p].state # "handling"
          \/ post'[p].todo \subseteq post[p].todo /\ post'[p].at = "dedupe"
      BY <3>1, NoPostIsEmpty DEF Logs
    <3>3. \A j \in Items : ~(AtItem(p, j)' /\ post'[p].at = "write")
      BY <3>2 DEF AtItem
    <3> QED
      BY <2>2, <2>3, <3>1, <3>2, <3>3, OnceChanges DEF Logs
  <2>6. ASSUME NEW r, Gives(p, i, r), UNCHANGED <<applied, overlapped>> PROVE Once'
    <3>1. post'[p].at # "write"
      BY <2>6 DEF Gives
    <3> QED
      BY <2>2, <2>3, <2>6, <3>1, OnceChanges DEF Gives
  <2>7. ASSUME Goes(p, "read"), UNCHANGED <<applied, overlapped>> PROVE Once'
    <3>1. post'[p].at # "write"
      BY <2>7 DEF Goes
    <3> QED
      BY <2>2, <2>3, <2>7, <3>1, OnceChanges DEF Goes
  <2>8. ASSUME Goes(p, "write"), request[queue[i].on] = "pending", UNCHANGED <<applied, overlapped>>
        PROVE  Once'
    <3>1. applied[i] = 0
      BY <2>8 DEF Decided
    <3>2. \A j \in Items : AtItem(p, j)' => j = i
      BY <2>1, <2>8, OneFirst DEF Goes, AtItem
    <3> QED
      BY <2>2, <2>3, <2>8, <3>1, <3>2, OnceChanges DEF Goes
  <2> QED
    BY <2>1, <2>4, <2>5, <2>6, <2>7, <2>8 DEF history
<1>8. ASSUME NEW p \in Posts, DropPost(p) PROVE Once'
  <2>1. Drops(p) /\ applied' = applied /\ overlapped' = overlapped
    BY <1>0, <1>8, Dropping DEF DropPost
  <2>2. post'[p].state # "handling"
    BY <2>1, NoPostIsEmpty DEF Drops
  <2>3. \A j \in Items : ~AtItem(p, j)'
    BY <2>2 DEF AtItem
  <2>4. \A j \in Items \ overlapped : applied[j] <= 1
    BY DEF Once
  <2> QED
    BY <2>1, <2>2, <2>3, <2>4, OnceChanges DEF Drops
<1>9. CASE UNCHANGED vars
  BY <1>9, <1>s DEF vars
<1> QED
  BY <1>1, <1>2, <1>3, <1>5, <1>6, <1>7, <1>8, <1>9, Steps
-----------------------------------------------------------------------------
(* What the phone files.                                                   *)

\* An item to which nothing happens but that posts of it go stays as it was.
LEMMA FiledKeeps ==
  ASSUME NEW i \in Items, FiledAt(i), queue'[i].status = queue[i].status,
         applied'[i] = applied[i],
         \A p \in Posts : InPost(p, i)' =>
           /\ InPost(p, i) /\ post'[p].results[i] = post[p].results[i]
           /\ i \in post'[p].todo => i \in post[p].todo /\ actionLog'[i] = actionLog[i],
         (\A p \in Posts : ~InPost(p, i)) => actionLog'[i] = actionLog[i]
  PROVE  FiledAt(i)'
<1>1. /\ queue'[i].status # "failed"
      /\ queue'[i].status \in {"absent", "pending"} =>
           applied'[i] = 0 /\ actionLog'[i] = {} /\ \A p \in Posts : ~InPost(p, i)'
      /\ \A p, q \in Posts : InPost(p, i)' /\ InPost(q, i)' => p = q
      /\ queue'[i].status \in Filed =>
           ((queue'[i].status = "submitted") <=> (applied'[i] = 1)) /\ \A p \in Posts : ~InPost(p, i)'
  BY DEF FiledAt
<1>2. ASSUME NEW p \in Posts, InPost(p, i)'
      PROVE  /\ i \in post'[p].todo => actionLog'[i] = {}
             /\ post'[p].results[i] # "duplicate"
             /\ applied'[i] = IF post'[p].results[i] = "processed" THEN 1 ELSE 0
  BY <1>2 DEF FiledAt
<1> QED
  BY <1>1, <1>2 DEF FiledAt

\* An item of a post that gives the item its first result: written where the
\* result says so.
LEMMA FiledGiven ==
  ASSUME NEW i \in Items, NEW p \in Posts, NEW r \in Results, FiledAt(i), Gives(p, i, r),
         i \in post[p].todo, post[p].results[i] = "none", r # "duplicate",
         queue'[i] = queue[i], actionLog'[i] = actionLog[i],
         applied'[i] = IF r = "processed" THEN applied[i] + 1 ELSE applied[i]
  PROVE  FiledAt(i)'
<1>1. InPost(p, i) /\ InPost(p, i)' /\ \A q \in Posts \ {p} : InPost(q, i)' <=> InPost(q, i)
  BY DEF InPost, Gives
<1>2. \A q \in Posts \ {p} : ~InPost(q, i)'
  BY <1>1 DEF FiledAt
<1>3. queue[i].status \notin {"absent", "pending", "failed"} /\ queue[i].status \notin Filed
  BY <1>1 DEF FiledAt
<1>4. applied[i] = 0 /\ actionLog[i] = {}
  BY <1>1 DEF FiledAt
<1>5. post'[p].results[i] = r
  BY DEF Gives
<1> QED
  BY <1>2, <1>3, <1>4, <1>5 DEF FiledAt

\* A result of one item leaves the others as they were.
LEMMA FiledOthers ==
  ASSUME NEW i \in Items, NEW j \in Items \ {i}, NEW p \in Posts, NEW r, FiledAt(j), Gives(p, i, r),
         queue'[j] = queue[j], actionLog'[j] = actionLog[j], applied'[j] = applied[j]
  PROVE  FiledAt(j)'
<1>1. \A q \in Posts : post'[q].todo = post[q].todo /\ post'[q].results[j] = post[q].results[j]
  BY DEF Gives
<1>2. \A q \in Posts : InPost(q, j)' <=> InPost(q, j)
  BY <1>1 DEF InPost
<1> QED
  BY <1>1, <1>2, FiledKeeps

\* Posts that stay or go leave every item as it was.
LEMMA FiledLeft ==
  ASSUME NEW i \in Items, FiledAt(i), queue'[i].status = queue[i].status,
         applied'[i] = applied[i], actionLog'[i] = actionLog[i],
         \A q \in Posts : post'[q] \in {post[q], NoPost}
  PROVE  FiledAt(i)'
<1>1. ASSUME NEW q \in Posts, InPost(q, i)' PROVE post'[q] = post[q] /\ InPost(q, i)
  <2>1. post'[q] # NoPost
    BY <1>1, NoPostIsEmpty DEF InPost
  <2> QED
    BY <1>1, <2>1 DEF InPost
<1> QED
  BY <1>1, FiledKeeps

\* Filing is inductive.
LEMMA FilingStep == ASSUME TypeOK, PostSound, Decided, Filing, [Next]_vars PROVE Filing'
<1>0. /\ post \in [Posts -> PostType] /\ applied \in [Items -> Nat] /\ queue \in [Items -> ItemType]
      /\ actionLog \in [Items -> SUBSET Results]
  BY Types
<1>s. ASSUME UNCHANGED <<queue, post, applied, actionLog, unheard>> PROVE Filing'
  <2>1. ASSUME NEW i \in Items, FiledAt(i) PROVE FiledAt(i)'
    BY <1>s, <2>1, FiledLeft
  <2> QED
    BY <1>s, <2>1 DEF Filing
<1>1. ASSUME NEW i \in Items, NEW r \in Requests \cup {NoRequest}, NEW d \in Decisions \cup {"none"},
             QueueAction(i, r, d)
      PROVE  Filing'
  <2>1. /\ queue[i].status = "absent" /\ queue'[i].status = "pending"
        /\ \A j \in Items \ {i} : queue'[j] = queue[j]
        /\ UNCHANGED <<post, actionLog, applied, unheard>>
    BY <1>1, Queueing, NoItemIsAbsent DEF QueueAction, server, history
  <2>2. \A p \in Posts, j \in Items : InPost(p, j)' <=> InPost(p, j)
    BY <2>1 DEF InPost
  <2>3. ASSUME NEW j \in Items \ unheard PROVE FiledAt(j)'
    <3>1. FiledAt(j)
      BY DEF Filing
    <3>2. CASE j # i
      BY <2>1, <3>1, <3>2, FiledLeft
    <3>3. CASE j = i
      <4>1. "pending" \notin Filed
        BY DEF Filed
      <4> QED
        BY <2>1, <2>2, <3>1, <3>3, <4>1 DEF FiledAt
    <3> QED
      BY <3>2, <3>3
  <2> QED
    BY <2>1, <2>3 DEF Filing
<1>2. ASSUME HearAnswer PROVE Filing'
  <2>1. Leaves /\ engine \in Posts /\ UNCHANGED <<applied, actionLog, unheard>>
    BY <1>0, <1>2, Leaving, Types DEF HearAnswer, history
  <2>2. post'[engine] = NoPost
    BY <1>0, <1>2, <2>1 DEF HearAnswer
  <2>3. ASSUME NEW i \in Items \ unheard PROVE FiledAt(i)'
    <3>1. FiledAt(i)
      BY DEF Filing
    <3>2. CASE ~Waiting(i)
      BY <1>2, <2>1, <3>1, <3>2, Hearing, FiledLeft DEF Leaves
    <3>3. CASE Waiting(i)
      <4>1. /\ post[engine].results[i] \in Results
            /\ queue'[i].status = FileAs(post[engine].results[i])
        BY <1>2, <3>3, Hearing
      <4>2. InPost(engine, i)
        BY <4>1 DEF InPost, Results
      <4>3. post[engine].results[i] # "duplicate"
            /\ applied[i] = IF post[engine].results[i] = "processed" THEN 1 ELSE 0
        BY <2>1, <3>1, <4>2 DEF FiledAt
      <4>4. \A q \in Posts : ~InPost(q, i)'
        <5>2. ASSUME NEW q \in Posts, InPost(q, i)' PROVE InPost(q, i)
          <6>1. post'[q] = post[q]
            BY <2>1, <5>2, NoPostIsEmpty DEF InPost, Leaves
          <6> QED
            BY <5>2, <6>1 DEF InPost
        <5>3. \A q \in Posts : InPost(q, i) => q = engine
          BY <2>1, <3>1, <4>2 DEF FiledAt
        <5>4. ASSUME NEW q \in Posts, InPost(q, i)' PROVE FALSE
          <6>1. q = engine
            BY <5>2, <5>3, <5>4
          <6>2. post'[q] = NoPost
            BY <2>2, <6>1
          <6> QED
            BY <5>4, <6>2, NoPostIsEmpty DEF InPost
        <5> QED
          BY <5>4
      <4>5. /\ queue'[i].status \in Filed
            /\ (queue'[i].status = "submitted") <=> (applied[i] = 1)
        BY <4>1, <4>3 DEF FileAs, Results, Filed
      <4>6. "failed" \notin Filed /\ "absent" \notin Filed /\ "pending" \notin Filed
        BY DEF Filed
      <4> QED
        BY <2>1, <4>4, <4>5, <4>6 DEF FiledAt
    <3> QED
      BY <3>2, <3>3
  <2> QED
    BY <2>1, <2>3 DEF Filing
<1>3. ASSUME PostFails PROVE Filing'
  <2>1. Leaves /\ UNCHANGED <<applied, actionLog>>
    BY <1>0, <1>3, Leaving, Types DEF PostFails, StopWaiting
  <2>2. ASSUME NEW i \in Items \ unheard' PROVE FiledAt(i)'
    <3>1. i \notin unheard /\ queue'[i] = queue[i]
      BY <1>3, <2>2, Failing
    <3>2. FiledAt(i)
      BY <3>1 DEF Filing
    <3> QED
      BY <2>1, <3>1, <3>2, FiledLeft DEF Leaves
  <2> QED
    BY <2>2 DEF Filing
<1>4. ASSUME KillApp PROVE Filing'
  <2>1. Leaves /\ UNCHANGED <<applied, actionLog, queue, unheard>>
    BY <1>0, <1>4, Leaving, Types DEF KillApp, StopWaiting
  <2>2. ASSUME NEW i \in Items, FiledAt(i) PROVE FiledAt(i)'
    BY <2>1, <2>2, FiledLeft DEF Leaves
  <2> QED
    BY <2>1, <2>2 DEF Filing
<1>5. ASSUME Desk PROVE Filing'
  BY <1>5, <1>s, Deciding DEF history
<1>6. ASSUME NEW p \in Posts, SubmitQueue(p) PROVE Filing'
  <2>1. Sends(p) /\ UNCHANGED <<actionLog, applied, unheard>>
    BY <1>0, <1>6, Sending DEF SubmitQueue
  <2>2. ASSUME NEW i \in Items \ unheard PROVE FiledAt(i)'
    <3>1. FiledAt(i)
      BY DEF Filing
    <3>2. \A q \in Posts \ {p} : InPost(q, i)' <=> InPost(q, i)
      BY <2>1 DEF InPost, Sends
    <3>3. post'[p].results[i] = "none" /\ ~InPost(p, i) /\ (InPost(p, i)' <=> i \in Unsent)
      BY <2>1, NoPostIsEmpty DEF InPost, Sends
    <3>4. CASE i \notin Unsent
      <4>1. queue'[i].status = queue[i].status
        BY <2>1, <3>4 DEF Sends
      <4>2. \A q \in Posts : InPost(q, i)' =>
              /\ InPost(q, i) /\ post'[q].results[i] = post[q].results[i]
              /\ i \in post'[q].todo => i \in post[q].todo
        BY <2>1, <3>2, <3>3, <3>4 DEF Sends
      <4> QED
        BY <2>1, <3>1, <4>1, <4>2, FiledKeeps
    <3>5. CASE i \in Unsent
      <4>1. queue[i].status = "pending"
        BY <3>1, <3>5 DEF Unsent, FiledAt
      <4>2. applied[i] = 0 /\ actionLog[i] = {} /\ \A q \in Posts : ~InPost(q, i)
        BY <3>1, <4>1 DEF FiledAt
      <4>3. queue'[i].status = "submitting"
        BY <2>1, <3>5 DEF Sends
      <4>4. "submitting" \notin Filed
        BY DEF Filed
      <4>5. \A q \in Posts : InPost(q, i)' => q = p
        BY <3>2, <4>2
      <4> QED
        BY <2>1, <3>3, <4>2, <4>3, <4>4, <4>5 DEF FiledAt
    <3> QED
      BY <3>4, <3>5
  <2> QED
    BY <2>1, <2>2 DEF Filing
<1>7. ASSUME NEW p \in Posts, Handle(p) PROVE Filing'
  <2>1. PICK i \in Items :
           /\ AtItem(p, i)
           /\ \/ WriteDecision(p, i) \/ WriteLog(p, i)
              \/ /\ post' \in [Posts -> PostType] /\ post[p].at \in {"dedupe", "read"}
                 /\ UNCHANGED <<request, queue, engine, actionLog, applied, history>>
                 /\ \/ Gives(p, i, "duplicate") /\ actionLog[i] # {}
                    \/ \E r \in {"rejected", "conflict"} : Gives(p, i, r)
                    \/ Goes(p, "read") /\ queue[i].on # NoRequest
                    \/ /\ Goes(p, "write") /\ post[p].at = "read"
                       /\ request[queue[i].on] = "pending"
    BY <1>7, Handling
  <2>2. i \in post[p].todo /\ InPost(p, i)
    BY <2>1 DEF AtItem, IsFirst, InPost
  <2>3. post[p].at # "log" => post[p].results[i] = "none"
    BY <2>1, <2>2 DEF PostSound
  <2>4. CASE WriteDecision(p, i)
    <3>1. /\ Gives(p, i, "processed") /\ post[p].at = "write" /\ "processed" \in Results
          /\ applied'[i] = applied[i] + 1 /\ \A j \in Items \ {i} : applied'[j] = applied[j]
          /\ UNCHANGED <<queue, actionLog, unheard>>
      BY <2>4, Writing DEF history, Results
    <3>2. ASSUME NEW j \in Items, FiledAt(j) PROVE FiledAt(j)'
      <4>1. CASE j = i
        BY <2>2, <2>3, <3>1, <3>2, <4>1, FiledGiven
      <4>2. CASE j # i
        BY <3>1, <3>2, <4>2, FiledOthers
      <4> QED
        BY <4>1, <4>2
    <3> QED
      BY <3>1, <3>2 DEF Filing
  <2>5. CASE WriteLog(p, i)
    <3>1. /\ Logs(p, i) /\ UNCHANGED <<queue, applied, unheard>>
          /\ \A j \in Items \ {i} : actionLog'[j] = actionLog[j]
      BY <1>0, <2>5, Logging DEF WriteLog, history
    <3>2. ASSUME NEW j \in Items, NEW q \in Posts, InPost(q, j)'
          PROVE  /\ InPost(q, j) /\ post'[q].results[j] = post[q].results[j]
                 /\ j \in post'[q].todo => j \in post[q].todo /\ (q = p => j # i)
      <4>1. CASE q # p
        BY <3>1, <3>2, <4>1 DEF Logs, InPost
      <4>2. CASE q = p
        <5>1. post'[p] # NoPost
          BY <3>2, <4>2, NoPostIsEmpty DEF InPost
        <5> QED
          BY <3>1, <3>2, <4>2, <5>1 DEF Logs, InPost
      <4> QED
        BY <4>1, <4>2
    <3>3. ASSUME NEW j \in Items, FiledAt(j) PROVE FiledAt(j)'
      <4>1. CASE j # i
        BY <3>1, <3>2, <3>3, <4>1, FiledKeeps
      <4>2. CASE j = i
        <5>1. \A q \in Posts : InPost(q, i) => q = p
          BY <2>2, <3>3, <4>2 DEF FiledAt
        <5>2. \A q \in Posts : InPost(q, i)' =>
                /\ InPost(q, i) /\ post'[q].results[i] = post[q].results[i]
                /\ i \notin post'[q].todo
          BY <3>2, <5>1
        <5> QED
          BY <2>2, <3>1, <3>3, <4>2, <5>2, FiledKeeps
      <4> QED
        BY <4>1, <4>2
    <3> QED
      BY <3>1, <3>3 DEF Filing
  <2>6. ASSUME NEW r \in {"duplicate", "rejected", "conflict"}, Gives(p, i, r),
               r = "duplicate" => actionLog[i] # {}, post[p].at # "log",
               UNCHANGED <<queue, applied, actionLog, unheard>>
        PROVE  Filing'
    <3>1. r \in Results /\ r # "processed"
      BY DEF Results
    <3>2. ASSUME NEW j \in Items, FiledAt(j) PROVE FiledAt(j)'
      <4>1. CASE j = i
        <5>1. actionLog[i] = {}
          BY <2>2, <3>2, <4>1 DEF FiledAt
        <5>2. r # "duplicate"
          BY <2>6, <5>1
        <5> QED
          BY <2>2, <2>3, <2>6, <3>1, <3>2, <4>1, <5>2, FiledGiven
      <4>2. CASE j # i
        BY <2>6, <3>2, <4>2, FiledOthers
      <4> QED
        BY <4>1, <4>2
    <3> QED
      BY <2>6, <3>2 DEF Filing
  <2>7. ASSUME NEW at, Goes(p, at), UNCHANGED <<queue, applied, actionLog, unheard>> PROVE Filing'
    <3>1. \A q \in Posts : post'[q].todo = post[q].todo /\ post'[q].results = post[q].results
      BY <2>7 DEF Goes
    <3>2. \A q \in Posts, j \in Items : InPost(q, j)' <=> InPost(q, j)
      BY <3>1 DEF InPost
    <3>3. ASSUME NEW j \in Items, FiledAt(j) PROVE FiledAt(j)'
      BY <2>7, <3>1, <3>2, <3>3, FiledKeeps
    <3> QED
      BY <2>7, <3>3 DEF Filing
  <2> QED
    BY <2>1, <2>4, <2>5, <2>6, <2>7 DEF history
<1>8. ASSUME NEW p \in Posts, DropPost(p) PROVE Filing'
  <2>1. Drops(p) /\ UNCHANGED <<queue, applied, actionLog, unheard>>
    BY <1>0, <1>8, Dropping DEF DropPost
  <2>2. ASSUME NEW j \in Items, NEW q \in Posts, InPost(q, j)'
        PROVE  /\ InPost(q, j) /\ post'[q].results[j] = post[q].results[j]
               /\ j \in post'[q].todo => j \in post[q].todo
    <3>1. post'[q] # NoPost
      BY <2>2, NoPostIsEmpty DEF InPost
    <3> QED
      BY <2>1, <2>2, <3>1 DEF Drops, InPost
  <2>3. ASSUME NEW j \in Items, FiledAt(j) PROVE FiledAt(j)'
    BY <2>1, <2>2, <2>3, FiledKeeps
  <2> QED
    BY <2>1, <2>3 DEF Filing
<1>9. CASE UNCHANGED vars
  BY <1>9, <1>s DEF vars
<1> QED
  BY <1>1, <1>2, <1>3, <1>4, <1>5, <1>6, <1>7, <1>8, <1>9, Steps

-----------------------------------------------------------------------------
\* The invariant holds in every reachable state, fair or not.
THEOREM InvAlways == Spec => []Inv
<1>1. Inv /\ [Next]_vars => Inv'
  BY TypeStep, PostStep, DecidedStep, OnceStep, FilingStep DEF Inv
<1> QED
  BY InitInv, <1>1, PTL DEF Spec

\* Every reachable state is well typed.
THEOREM TypeCorrect == Spec => []TypeOK
<1>1. Inv => TypeOK
  BY DEF Inv
<1> QED
  BY InvAlways, <1>1, PTL

\* Whatever is lost, sent again or killed, a decision is written twice only
\* when two posts of it were handled at once (mobile-sync.ts).
THEOREM AlwaysWrittenOnce == Spec => []WrittenOnce
<1>1. Inv => WrittenOnce
  <2>1. Inv => applied \in [Items -> Nat] /\ Once
    BY DEF Inv, TypeOK
  <2> QED
    BY <2>1 DEF Once, WrittenOnce
<1> QED
  BY InvAlways, <1>1, PTL

\* The phone files as submitted what the server wrote, and nothing else,
\* unless it missed an answer (SyncEngine.ts).
THEOREM AlwaysFiledTruthfully == Spec => []FiledTruthfully
<1>1. Inv => FiledTruthfully
  BY DEF Inv, Filing, FiledAt, FiledTruthfully
<1> QED
  BY InvAlways, <1>1, PTL

-----------------------------------------------------------------------------
(* The phone's table is a lease: what the engine waits for is what it      *)
(* holds.                                                                  *)

\* A step after which the engine waits for the same items, none of which
\* changed its status, is no step of the lease.
LEMMA WorkStutter ==
  ASSUME \A i \in Items : queue'[i].status = queue[i].status /\ (Waiting(i)' <=> Waiting(i))
  PROVE  UNCHANGED Work!vars
<1>1. \A i \in Items : TaskPhase(queue[i].status)' = TaskPhase(queue[i].status)
  BY DEF TaskPhase
<1> QED
  BY <1>1 DEF Work!vars

\* An action of the user is an arrival.
LEMMA QueueingArrives ==
  ASSUME TypeOK, NEW i \in Items, NEW r \in Requests \cup {NoRequest},
         NEW d \in Decisions \cup {"none"}, QueueAction(i, r, d)
  PROVE  Work!Arrive(i)
<1>1. /\ queue[i].status = "absent" /\ queue'[i].status = "pending"
      /\ \A j \in Items \ {i} : queue'[j] = queue[j]
  BY Queueing, NoItemIsAbsent
<1>2. \A j \in Items : Waiting(j)' <=> Waiting(j)
  BY <1>1 DEF QueueAction, server, Waiting
<1>3. TaskPhase(queue[i].status) = "new" /\ TaskPhase(queue'[i].status) = "open"
  BY <1>1 DEF TaskPhase, Filed
<1>4. \A j \in Items \ {i} : TaskPhase(queue'[j].status) = TaskPhase(queue[j].status)
  BY <1>1
<1> QED
  BY <1>2, <1>3, <1>4 DEF Work!Arrive

\* The engine that waits for nothing takes all that is to be sent.
LEMMA SubmittingTakes ==
  ASSUME TypeOK, NEW p \in Posts, SubmitQueue(p)
  PROVE  Work!Take("engine", Unsent)
<1>0. Sends(p)
  BY Types, Sending
<1>1. /\ Sends(p) /\ engine = 0 /\ engine' = p /\ p # 0
      /\ Unsent \subseteq Items /\ \A i \in Unsent : queue[i].status \in {"pending", "failed"}
  BY <1>0 DEF SubmitQueue, Unsent, Posts
<1>2. \A i \in Items : ~Waiting(i)
  BY <1>1 DEF Waiting
<1>3. \A i \in Items : Waiting(i)' <=> i \in Unsent
  BY <1>1 DEF Waiting, Sends
<1>4. \A i \in Unsent : TaskPhase(queue[i].status) = "open"
  BY <1>1 DEF TaskPhase, Filed
<1>5. TaskPhase("submitting") = "taken"
  BY DEF TaskPhase, Filed
<1>6. \A i \in Items : TaskPhase(queue'[i].status)
                       = IF i \in Unsent THEN "taken" ELSE TaskPhase(queue[i].status)
  BY <1>1, <1>5 DEF Sends
<1> QED
  BY <1>1, <1>2, <1>3, <1>4, <1>6 DEF Work!Take, Work!Free

\* What ends the waiting returns the items waited for, filed or to be sent
\* again.
LEMMA EndingReturns ==
  ASSUME TypeOK, engine' = 0,
         \A i \in Items : IF Waiting(i) THEN queue'[i].status \in Filed \cup {"failed"}
                                        ELSE queue'[i].status = queue[i].status
  PROVE  Work!Return("engine", {i \in Items : Waiting(i)})
<1> DEFINE S == {i \in Items : Waiting(i)}
<1>1. \A i \in Items : ~Waiting(i)'
  BY DEF Waiting
<1>2. \A i \in S : TaskPhase(queue[i].status) = "taken"
  BY DEF Waiting, TaskPhase, Filed
<1>3. \A i \in S : TaskPhase(queue'[i].status) \in {"open", "done"}
  BY DEF TaskPhase, Filed
<1>4. \A i \in Items \ S : TaskPhase(queue'[i].status) = TaskPhase(queue[i].status)
  OBVIOUS
<1>5. \A i \in Items : TaskPhase(queue[i].status) \in {"new", "open", "taken", "done"}
  BY Types DEF TaskPhase, ItemType, Filed
<1>6. \A i \in Items : TaskPhase(queue'[i].status) \in {"new", "open", "taken", "done"}
  BY <1>3, <1>4, <1>5
<1>7. S \subseteq Items /\ \A i \in Items : (i \in S <=> Waiting(i))
  OBVIOUS
<1> HIDE DEF S
<1>8. Work!Return("engine", S)
  BY <1>1, <1>2, <1>3, <1>4, <1>6, <1>7 DEF Work!Return, Work!Phases
<1> QED
  BY <1>8 DEF S

\* The gateway's loop leaves the engine waiting for the items it waited for:
\* what it takes off the list has a result.
LEMMA HandlingKeepsWaiting ==
  ASSUME TypeOK, PostSound, NEW p \in Posts, Handle(p)
  PROVE  UNCHANGED Work!vars
<1>0. post \in [Posts -> PostType]
  BY Types
<1>1. PICK i \in Items :
        /\ AtItem(p, i)
        /\ \/ WriteDecision(p, i) \/ WriteLog(p, i)
           \/ /\ UNCHANGED <<queue, engine>>
              /\ \/ \E r \in Results : Gives(p, i, r)
                 \/ \E at : Goes(p, at)
  BY Handling DEF Results
<1>2. CASE WriteLog(p, i)
  <2>1. Logs(p, i) /\ UNCHANGED <<queue, engine>>
    BY <1>0, <1>2, Logging DEF WriteLog
  <2>2. post[p].results[i] # "none"
    BY <1>1, <1>2 DEF PostSound, WriteLog
  <2>3. ASSUME NEW j \in Items PROVE Waiting(j)' <=> Waiting(j)
    <3>1. CASE engine # p
      <4>1. engine \in Posts => post'[engine] = post[engine]
        BY <2>1, <3>1 DEF Logs
      <4>2. engine # 0 => engine \in Posts
        BY Types, ConstantsAssumption DEF Posts, ConstantsAssumption
      <4> QED
        BY <2>1, <4>1, <4>2 DEF Waiting
    <3>2. CASE engine = p
      BY <2>1, <2>2, <3>2 DEF Waiting, Logs
    <3> QED
      BY <3>1, <3>2
  <2> QED
    BY <2>1, <2>3, WorkStutter
<1>3. ASSUME \/ \E r \in Results : Gives(p, i, r)
             \/ \E at : Goes(p, at),
             UNCHANGED <<queue, engine>>
      PROVE  UNCHANGED Work!vars
  <2>1. i \in post[p].todo /\ \A q \in Posts : post'[q].todo = post[q].todo
    BY <1>1, <1>3 DEF Gives, Goes, AtItem, IsFirst
  <2>2. \A q \in Posts, j \in Items :
          (post'[q].results[j] # "none" \/ j \in post'[q].todo)
            <=> (post[q].results[j] # "none" \/ j \in post[q].todo)
    BY <1>3, <2>1 DEF Gives, Goes
  <2>3. engine # 0 => engine \in Posts
    BY Types, ConstantsAssumption DEF Posts, ConstantsAssumption
  <2>4. \A j \in Items : Waiting(j)' <=> Waiting(j)
    BY <1>3, <2>2, <2>3 DEF Waiting
  <2> QED
    BY <1>3, <2>4, WorkStutter
<1>4. CASE WriteDecision(p, i)
  <2>1. Finish(p, i, "processed") /\ "processed" \in Results /\ UNCHANGED <<queue, engine>>
    BY <1>4 DEF WriteDecision, Results
  <2> QED
    BY <1>0, <1>3, <2>1, FinishGives
<1> QED
  BY <1>1, <1>2, <1>3, <1>4

\* So does a post that is dropped: the engine is told, and still waits.
LEMMA DroppingKeepsWaiting ==
  ASSUME TypeOK, NEW p \in Posts, DropPost(p)
  PROVE  UNCHANGED Work!vars
<1>1. Drops(p) /\ UNCHANGED <<queue, engine>>
  BY Types, Dropping DEF DropPost
<1>2. engine # 0 => engine \in Posts
  BY Types, ConstantsAssumption DEF Posts, ConstantsAssumption
<1>3. ASSUME NEW j \in Items PROVE Waiting(j)' <=> Waiting(j)
  <2>1. CASE engine # p
    BY <1>1, <1>2, <2>1 DEF Waiting, Drops
  <2>2. CASE engine = p
    BY <1>1, <2>2 DEF Waiting, Drops
  <2> QED
    BY <2>1, <2>2
<1> QED
  BY <1>1, <1>3, WorkStutter

\* Whatever the phone, the gateway or a desk does is a step of the lease, or
\* none.
LEMMA StepImplements ==
  ASSUME TypeOK, PostSound, [Next]_vars
  PROVE  Work!Next \/ UNCHANGED Work!vars
<1>0. /\ queue \in [Items -> ItemType] /\ post \in [Posts -> PostType] /\ engine \in 0..MaxPosts
  BY Types
<1>1. ASSUME NEW i \in Items, NEW r \in Requests \cup {NoRequest}, NEW d \in Decisions \cup {"none"},
             QueueAction(i, r, d)
      PROVE  Work!Next
  BY <1>1, QueueingArrives DEF Work!Next
<1>2. ASSUME NEW p \in Posts, SubmitQueue(p) PROVE Work!Next
  <2>1. Unsent \in SUBSET Items
    BY DEF Unsent
  <2> QED
    BY <1>2, <2>1, SubmittingTakes DEF Work!Next
<1>3. ASSUME HearAnswer \/ PostFails PROVE Work!Next
  <2>1. engine' = 0
    BY <1>3 DEF HearAnswer, PostFails, StopWaiting
  <2>2. ASSUME NEW i \in Items
        PROVE  IF Waiting(i) THEN queue'[i].status \in Filed \cup {"failed"}
                             ELSE queue'[i].status = queue[i].status
    <3>1. CASE HearAnswer
      <4>1. \A r \in Results : FileAs(r) \in Filed
        BY DEF FileAs, Results, Filed
      <4> QED
        BY <3>1, <4>1, Hearing
    <3>2. CASE PostFails
      <4>1. [queue[i] EXCEPT !.status = "failed"].status = "failed"
        BY <1>0 DEF ItemType
      <4>2. queue'[i] = IF Waiting(i) THEN [queue[i] EXCEPT !.status = "failed"] ELSE queue[i]
        BY <3>2 DEF PostFails
      <4> QED
        BY <4>1, <4>2
    <3> QED
      BY <1>3, <3>1, <3>2
  <2>3. Work!Return("engine", {i \in Items : Waiting(i)})
    BY <2>1, <2>2, EndingReturns
  <2>4. {i \in Items : Waiting(i)} \in SUBSET Items
    OBVIOUS
  <2> QED
    BY <2>3, <2>4 DEF Work!Next
<1>4. ASSUME KillApp PROVE Work!Next
  <2>1. engine' = 0 /\ queue' = queue
    BY <1>4 DEF KillApp, StopWaiting
  <2>2. \A i \in Items : ~Waiting(i)'
    BY <2>1 DEF Waiting
  <2>3. Work!Die({"engine"})
    BY <2>1, <2>2 DEF Work!Die
  <2> QED
    BY <2>3 DEF Work!Next
<1>5. ASSUME Desk \/ UNCHANGED vars PROVE UNCHANGED Work!vars
  <2>1. UNCHANGED <<queue, engine, post>>
    BY <1>5, Deciding DEF vars
  <2> QED
    BY <2>1, WorkStutter DEF Waiting
<1> QED
  BY <1>1, <1>2, <1>3, <1>4, <1>5, HandlingKeepsWaiting, DroppingKeepsWaiting, Steps

\* Lost answers, refused posts, a gateway that goes on without the phone and
\* a killed app: the phone's table implements the lease.
THEOREM PhoneIsALease == Spec => ImplementsLease
<1>1. Init => Work!Init
  <2> SUFFICES ASSUME Init PROVE Work!Init
    OBVIOUS
  <2>1. \A i \in Items : queue[i].status = "absent" /\ ~Waiting(i)
    BY NoItemIsAbsent DEF Init, Waiting
  <2>2. TaskPhase("absent") = "new"
    BY DEF TaskPhase, Filed
  <2> QED
    BY <2>1, <2>2 DEF Work!Init
<1>2. Inv /\ [Next]_vars => [Work!Next]_(Work!vars)
  BY StepImplements DEF Inv
<1> QED
  BY <1>1, <1>2, InvAlways, PTL DEF Spec, ImplementsLease, Work!Spec
===============================================================================
