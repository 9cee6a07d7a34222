----------------------------- MODULE BillingProofs -----------------------------
(***************************************************************************)
(* Theorems about Billing for any invoices, milestones, costs and people,  *)
(* and every bound on overtaken writes.                                    *)
(***************************************************************************)
EXTENDS Billing, TLAPS

InvType  == [status : Statuses, lines : SUBSET Sources]
SrcType  == {"pending", "reached", "invoiced", "cancelled"}
WorkType == [op : {"none", "approve", "mark", "close", "free", "reach"},
             on : Invoices \cup Milestones \cup {Nothing},
             status : Statuses, lines : SUBSET Sources]
Stales   == Invoices \X {"approve", "close"}
Active   == {"draft", "review", "approved", "issued"}

\* A request has read an invoice in review to approve it, one that is not live
\* to close it, or a milestone.
WorkSound ==
  \A u \in Users :
    /\ work[u].op \in {"approve", "mark"} => work[u].on \in Invoices /\ work[u].status = "review"
    /\ work[u].op \in {"close", "free"} =>
         work[u].on \in Invoices /\ work[u].status \notin {"absent", "issued"}
    /\ work[u].op = "reach" => work[u].on \in Milestones

\* Until an approval is overtaken, an invoice that may still be issued has no
\* journal, and none has two.
ApprovedOnce ==
  \A i \in Invoices : <<i, "approve">> \notin stale =>
    /\ journals[i] <= 1
    /\ inv[i].status \in {"draft", "review", "approved"} => journals[i] = 0

\* An invoice with a journal was drafted, and is issued still where its
\* lines are not blurred.
Live ==
  \A i \in Invoices : journals[i] > 0 =>
    /\ inv[i].status # "absent"
    /\ inv[i].status = "issued" \/ inv[i].lines \subseteq blurred

\* A source that is not blurred is on one invoice that is not closed: the next
\* draft takes what is not marked and not on a draft.
OneClaim ==
  \A s \in Sources \ blurred : \A i, j \in Invoices :
    /\ s \in inv[i].lines /\ s \in inv[j].lines
    /\ inv[i].status \in Active /\ inv[j].status \in Active
    => i = j

\* FlagTellsBilled without the set of invoices that list a source.
Flagged ==
  \A s \in Sources \ blurred :
    /\ \A i \in Invoices : s \in inv[i].lines /\ inv[i].status \in Marking => src[s] = "invoiced"
    /\ src[s] = "invoiced" =>
         \E i \in Invoices : s \in inv[i].lines /\ inv[i].status \in Marking \cup {"void"}

Sound == JournalTellsIssued /\ ApprovedOnce /\ Live /\ OneClaim /\ Flagged
Inv   == TypeOK /\ WorkSound /\ Sound

-----------------------------------------------------------------------------
(* The steps, by what they change.                                         *)

\* A request reads.
AskStep(u)  == \E i \in Invoices : AskApprove(u, i) \/ AskClose(u, i)
ReadStep(u) == AskStep(u) \/ ReadLines(u)

\* A draft names what it lists although it is marked.
NewDraft(i, lines) ==
  /\ \E billed \in SUBSET lines :
       Draft(i, lines, billed) /\ \A s \in lines : src[s] = "invoiced" => s \in billed
  /\ work' = work

\* A milestone gets another status.
MilestoneStep(m, s) ==
  /\ src' = [src EXCEPT ![m] = s]
  /\ src[m] = "invoiced" => m \in blurred'
  /\ blurred \subseteq blurred' /\ blurred' \subseteq blurred \cup {m}
  /\ UNCHANGED <<inv, journals, stale>>

\* An invoice that is there gets another status.
StatusStep(i) ==
  SubmitForReview(i) \/ RejectInvoice(i) \/ IssueInvoice(i)

\* Next is the sum of the groups.
LEMMA Steps ==
  Next => \/ \E m \in Milestones : ReachMilestone(m) \/ CancelMilestone(m)
          \/ \E u \in Users : Reach(u) \/ ReadStep(u) \/ Approve(u) \/ CancelInvoice(u) \/ VoidProjectInvoice(u)
          \/ \E u \in Users, m \in Milestones : AskReach(u, m)
          \/ \E i \in Invoices : \/ StatusStep(i)
                                 \/ \E lines \in SUBSET Sources :
                                      NewDraft(i, lines) \/ UpdateProjectInvoice(i, lines)
<1> SUFFICES ASSUME Next
             PROVE  \/ \E m \in Milestones : ReachMilestone(m) \/ CancelMilestone(m)
                    \/ \E u \in Users : Reach(u) \/ ReadStep(u) \/ Approve(u) \/ CancelInvoice(u) \/ VoidProjectInvoice(u)
                    \/ \E u \in Users, m \in Milestones : AskReach(u, m)
                    \/ \E i \in Invoices : \/ StatusStep(i)
                                           \/ \E lines \in SUBSET Sources :
                                                NewDraft(i, lines) \/ UpdateProjectInvoice(i, lines)
  OBVIOUS
<1>1. CASE SourceStep
  BY <1>1 DEF SourceStep
<1>2. CASE DraftStep
  <2>1. ASSUME NEW i \in Invoices, NEW ms \in SUBSET Milestones, CreateMilestoneInvoice(i, ms)
        PROVE  \E lines \in SUBSET Sources : NewDraft(i, lines)
    <3>1. ms \in SUBSET Sources
      BY DEF Sources
    <3>2. Draft(i, ms, {}) /\ work' = work /\ \A m \in ms : src[m] # "invoiced"
      BY <2>1 DEF CreateMilestoneInvoice
    <3> QED
      BY <3>1, <3>2 DEF NewDraft
  <2>2. ASSUME NEW i \in Invoices, CreateCostPlusInvoice(i)
        PROVE  \E lines \in SUBSET Sources : NewDraft(i, lines)
    <3> DEFINE cs == {c \in Costs : src[c] = "reached"}
    <3>1. cs \in SUBSET Sources
      BY DEF Sources
    <3>2. Draft(i, cs, {}) /\ work' = work /\ \A c \in cs : src[c] # "invoiced"
      BY <2>2 DEF CreateCostPlusInvoice
    <3> QED
      BY <3>1, <3>2 DEF NewDraft
  <2>3. ASSUME NEW i \in Invoices, CreateLumpSumInvoice(i)
        PROVE  \E lines \in SUBSET Sources : NewDraft(i, lines)
    BY <2>3 DEF CreateLumpSumInvoice, NewDraft
  <2>4. ASSUME NEW i \in Invoices, NEW lines \in SUBSET Sources, CreateProjectInvoice(i, lines)
        PROVE  NewDraft(i, lines)
    <3> DEFINE billed == {s \in lines : src[s] = "invoiced"}
    <3>1. Draft(i, lines, billed) /\ work' = work
      BY <2>4 DEF CreateProjectInvoice
    <3> QED
      BY <3>1 DEF NewDraft
  <2> QED
    BY <1>2, <2>1, <2>2, <2>3, <2>4 DEF DraftStep, StatusStep
<1>3. CASE InvoiceStep
  BY <1>3 DEF InvoiceStep, AskStep, ReadStep, StatusStep
<1> QED
  BY <1>1, <1>2, <1>3 DEF Next

\* At first there is no invoice.
LEMMA InitInv == Init => Inv
<1> SUFFICES ASSUME Init PROVE Inv
  OBVIOUS
<1>1. NoWork \in WorkType /\ NoWork.op = "none"
  BY DEF NoWork, WorkType, Statuses
<1>2. \A u \in Users : work[u] = NoWork
  BY DEF Init
<1>3. \A i \in Invoices : inv[i].status = "absent" /\ inv[i].lines = {} /\ journals[i] = 0
  BY DEF Init
<1>4. \A s \in Sources : src[s] \in {"pending", "reached"}
  BY DEF Init
<1>5. TypeOK
  <2>1. inv \in [Invoices -> InvType]
    BY DEF Init, InvType, Statuses
  <2>2. src \in [Sources -> SrcType]
    BY DEF Init, SrcType
  <2>3. work \in [Users -> WorkType]
    BY <1>1 DEF Init
  <2>4. journals \in [Invoices -> Nat] /\ stale \subseteq Stales /\ blurred \subseteq Sources
    BY DEF Init
  <2> QED
    BY <2>1, <2>2, <2>3, <2>4 DEF TypeOK, InvType, SrcType, WorkType, Stales
<1>6. WorkSound
  <2>1. \A u \in Users : work[u].op = "none"
    BY <1>1, <1>2
  <2> QED
    BY <2>1 DEF WorkSound
<1>7. JournalTellsIssued /\ ApprovedOnce /\ Live
  BY <1>3 DEF JournalTellsIssued, ApprovedOnce, Live
<1>8. OneClaim
  BY <1>3 DEF OneClaim
<1>9. Flagged
  BY <1>3, <1>4 DEF Flagged
<1> QED
  BY <1>5, <1>6, <1>7, <1>8, <1>9 DEF Inv, Sound

-----------------------------------------------------------------------------
(* Types and requests.                                                     *)

\* A request that ends keeps the types and touches no other request.
LEMMA Resting ==
  ASSUME work \in [Users -> WorkType], NEW u \in Users, Rest(u)
  PROVE  /\ work' \in [Users -> WorkType] /\ work'[u].op = "none"
         /\ \A v \in Users \ {u} : work'[v] = work[v]
<1>1. NoWork \in WorkType /\ NoWork.op = "none"
  BY DEF NoWork, WorkType, Statuses
<1> QED
  BY <1>1 DEF Rest

\* So does one that reads an invoice.
LEMMA Reading ==
  ASSUME inv \in [Invoices -> InvType], work \in [Users -> WorkType],
         NEW u \in Users, NEW i \in Invoices, NEW op \in {"approve", "close"}, Reads(u, op, i)
  PROVE  /\ work' \in [Users -> WorkType]
         /\ work'[u].op = op /\ work'[u].on = i /\ work'[u].status = inv[i].status
         /\ \A v \in Users \ {u} : work'[v] = work[v]
<1> DEFINE r == [op |-> op, on |-> i, status |-> inv[i].status, lines |-> {}]
<1>1. r \in WorkType /\ r.op = op /\ r.on = i /\ r.status = inv[i].status
  BY DEF InvType, WorkType
<1>2. work' = [work EXCEPT ![u] = r]
  BY DEF Reads
<1> HIDE DEF r
<1>3. work'[u] = r
  BY <1>2
<1> QED
  BY <1>1, <1>2, <1>3

\* TypeOK and WorkSound are inductive.
LEMMA TypeStep == ASSUME TypeOK, WorkSound, [Next]_vars PROVE TypeOK' /\ WorkSound'
<1>0. /\ inv \in [Invoices -> InvType] /\ src \in [Sources -> SrcType]
      /\ work \in [Users -> WorkType] /\ journals \in [Invoices -> Nat]
      /\ stale \subseteq Stales /\ blurred \subseteq Sources
  BY DEF TypeOK, InvType, SrcType, WorkType, Stales
<1>t. ASSUME inv' \in [Invoices -> InvType], src' \in [Sources -> SrcType],
             work' \in [Users -> WorkType], journals' \in [Invoices -> Nat],
             stale' \subseteq Stales, blurred' \subseteq Sources
      PROVE  TypeOK'
  BY <1>t DEF TypeOK, InvType, SrcType, WorkType, Stales
<1>w. ASSUME NEW u \in Users, work'[u].op = "none", \A v \in Users \ {u} : work'[v] = work[v]
      PROVE  WorkSound'
  BY <1>w DEF WorkSound
<1>i. ASSUME NEW i \in Invoices, NEW s \in Statuses
      PROVE  [inv EXCEPT ![i].status = s] \in [Invoices -> InvType]
  BY <1>0 DEF InvType
<1>n. ASSUME NEW u \in Users, NEW op \in {"approve", "close"}, work[u].on \in Invoices, NoteStale(u, op)
      PROVE  stale' \subseteq Stales
  BY <1>0, <1>n DEF NoteStale, Stales
<1>b. ASSUME NEW u \in Users, work[u].on \in Invoices, NoteBlur(u)
      PROVE  blurred' \subseteq Sources
  <2>1. work[u].lines \subseteq Sources /\ inv[work[u].on].lines \subseteq Sources
    BY <1>0, <1>b DEF WorkType, InvType
  <2> QED
    BY <1>0, <1>b, <2>1 DEF NoteBlur, Blurs
<1>m. Milestones \subseteq Sources
  BY DEF Sources
<1>1. ASSUME NEW m \in Milestones, ReachMilestone(m) \/ CancelMilestone(m) PROVE TypeOK' /\ WorkSound'
  <2>1. src' \in [Sources -> SrcType]
    BY <1>0, <1>1 DEF ReachMilestone, CancelMilestone, SrcType
  <2> QED
    BY <1>0, <1>1, <1>t, <2>1 DEF ReachMilestone, CancelMilestone, history, WorkSound
<1>2. ASSUME NEW u \in Users, Reach(u) PROVE TypeOK' /\ WorkSound'
  <2>1. work[u].on \in Milestones /\ Rest(u)
    BY <1>2 DEF Reach, On, WorkSound
  <2>2. src' \in [Sources -> SrcType]
    BY <1>0, <1>2, <2>1 DEF Reach, SrcType
  <2>3. blurred' \subseteq Sources
    BY <1>0, <1>2, <1>m, <2>1 DEF Reach
  <2> QED
    BY <1>0, <1>2, <1>t, <1>w, <2>1, <2>2, <2>3, Resting DEF Reach
<1>12. ASSUME NEW u \in Users, ReadLines(u) PROVE TypeOK' /\ WorkSound'
  <2>1. /\ work[u].op \in {"approve", "close"} /\ work[u].on \in Invoices
        /\ UNCHANGED <<inv, src, journals, stale, blurred>>
    BY <1>12 DEF ReadLines, On, WorkSound, history
  <2> DEFINE r == [work[u] EXCEPT !.op = IF @ = "approve" THEN "mark" ELSE "free",
                                  !.lines = inv[work[u].on].lines]
  <2>2. inv[work[u].on].lines \in SUBSET Sources
    BY <1>0, <2>1 DEF InvType
  <2>3. /\ r \in WorkType /\ r.on = work[u].on /\ r.status = work[u].status
        /\ r.op = IF work[u].op = "approve" THEN "mark" ELSE "free"
    BY <1>0, <2>1, <2>2 DEF WorkType
  <2>4. work' = [work EXCEPT ![u] = r]
    BY <1>0, <1>12 DEF ReadLines, WorkType
  <2> HIDE DEF r
  <2>5. /\ work' \in [Users -> WorkType] /\ work'[u] = r
        /\ \A v \in Users \ {u} : work'[v] = work[v]
    BY <1>0, <2>3, <2>4
  <2>6. WorkSound'
    BY <2>1, <2>3, <2>5 DEF WorkSound
  <2> QED
    BY <1>0, <1>t, <2>1, <2>5, <2>6
<1>3. ASSUME NEW u \in Users, AskStep(u) PROVE TypeOK' /\ WorkSound'
  <2>1. PICK i \in Invoices, op \in {"approve", "close"} :
          /\ Reads(u, op, i)
          /\ op = "approve" => inv[i].status = "review"
          /\ op = "close" => inv[i].status \notin {"absent", "issued"}
    BY <1>3 DEF AskStep, AskApprove, AskClose
  <2>2. UNCHANGED <<inv, src, journals, stale, blurred>>
    BY <1>3 DEF AskStep, AskApprove, AskClose, history
  <2>3. /\ work' \in [Users -> WorkType]
        /\ work'[u].op = op /\ work'[u].on = i /\ work'[u].status = inv[i].status
        /\ \A v \in Users \ {u} : work'[v] = work[v]
    BY <1>0, <2>1, Reading
  <2>4. WorkSound'
    BY <2>1, <2>3 DEF WorkSound
  <2> QED
    BY <1>0, <1>t, <2>2, <2>3, <2>4
<1>4. ASSUME NEW u \in Users, Approve(u) PROVE TypeOK' /\ WorkSound'
  <2>1. work[u].on \in Invoices /\ Rest(u)
    BY <1>4 DEF Approve, On, WorkSound
  <2>2. inv' \in [Invoices -> InvType]
    BY <1>4, <1>i, <2>1 DEF Approve, Statuses
  <2>3. src' \in [Sources -> SrcType]
    BY <1>0, <1>4 DEF Approve, MarkSourcesInvoiced, SrcType
  <2> QED
    BY <1>0, <1>4, <1>t, <1>w, <1>n, <1>b, <2>1, <2>2, <2>3, Resting DEF Approve
<1>5. ASSUME NEW u \in Users, CancelInvoice(u) PROVE TypeOK' /\ WorkSound'
  <2>1. work[u].on \in Invoices /\ Rest(u)
    BY <1>5 DEF CancelInvoice, On, WorkSound
  <2>2. inv' \in [Invoices -> InvType]
    BY <1>5, <1>i, <2>1 DEF CancelInvoice, Statuses
  <2>3. src' \in [Sources -> SrcType]
    BY <1>0, <1>5 DEF CancelInvoice, SrcType
  <2> QED
    BY <1>0, <1>5, <1>t, <1>w, <1>n, <1>b, <2>1, <2>2, <2>3, Resting DEF CancelInvoice
<1>6. ASSUME NEW u \in Users, VoidProjectInvoice(u) PROVE TypeOK' /\ WorkSound'
  <2>1. work[u].on \in Invoices /\ Rest(u)
    BY <1>6 DEF VoidProjectInvoice, On, WorkSound
  <2>2. inv' \in [Invoices -> InvType]
    BY <1>6, <1>i, <2>1 DEF VoidProjectInvoice, Statuses
  <2> QED
    BY <1>0, <1>6, <1>t, <1>w, <1>n, <1>b, <2>1, <2>2, Resting DEF VoidProjectInvoice
<1>7. ASSUME NEW u \in Users, NEW m \in Milestones, AskReach(u, m) PROVE TypeOK' /\ WorkSound'
  <2> DEFINE r == [NoWork EXCEPT !.op = "reach", !.on = m]
  <2>1. r \in WorkType /\ r.op = "reach" /\ r.on = m
    BY DEF NoWork, WorkType, Statuses
  <2>2. work' = [work EXCEPT ![u] = r] /\ UNCHANGED <<inv, src, journals, stale, blurred>>
    BY <1>7 DEF AskReach, history
  <2> HIDE DEF r
  <2>3. /\ work' \in [Users -> WorkType] /\ work'[u].op = "reach" /\ work'[u].on = m
        /\ \A v \in Users \ {u} : work'[v] = work[v]
    BY <1>0, <2>1, <2>2
  <2>4. WorkSound'
    BY <2>3 DEF WorkSound
  <2> QED
    BY <1>0, <1>t, <2>2, <2>3, <2>4
<1>8. ASSUME NEW i \in Invoices, StatusStep(i) PROVE TypeOK' /\ WorkSound'
  <2>1. inv' \in [Invoices -> InvType]
    <3>1. {"review", "draft", "issued"} \subseteq Statuses
      BY DEF Statuses
    <3>2. \/ inv' = [inv EXCEPT ![i].status = "review"]
          \/ inv' = [inv EXCEPT ![i].status = "draft"]
          \/ inv' = [inv EXCEPT ![i].status = "issued"]
      BY <1>8 DEF StatusStep, SubmitForReview, RejectInvoice, IssueInvoice
    <3>3. \E s \in Statuses : inv' = [inv EXCEPT ![i].status = s]
      BY <3>1, <3>2
    <3> QED
      BY <1>i, <3>3
  <2>2. journals' \in [Invoices -> Nat]
    BY <1>0, <1>8 DEF StatusStep, SubmitForReview, RejectInvoice, IssueInvoice
  <2>3. UNCHANGED <<src, work, stale, blurred>>
    BY <1>8 DEF StatusStep, SubmitForReview, RejectInvoice, IssueInvoice, history
  <2> QED
    BY <1>0, <1>t, <2>1, <2>2, <2>3 DEF WorkSound
<1>9. ASSUME NEW i \in Invoices, NEW lines \in SUBSET Sources, NewDraft(i, lines)
      PROVE  TypeOK' /\ WorkSound'
  <2>1. inv' \in [Invoices -> InvType]
    <3>1. [status |-> "draft", lines |-> lines] \in InvType
      BY DEF InvType, Statuses
    <3> QED
      BY <1>0, <1>9, <3>1 DEF NewDraft, Draft
  <2>2. UNCHANGED <<src, work, journals, stale>> /\ blurred' \subseteq Sources
    BY <1>0, <1>9 DEF NewDraft, Draft
  <2> QED
    BY <1>0, <1>t, <2>1, <2>2 DEF WorkSound
<1>10. ASSUME NEW i \in Invoices, NEW lines \in SUBSET Sources, UpdateProjectInvoice(i, lines)
       PROVE  TypeOK' /\ WorkSound'
  <2>1. inv' \in [Invoices -> InvType]
    BY <1>0, <1>10 DEF UpdateProjectInvoice, InvType
  <2>2. blurred' \subseteq Sources
    BY <1>0, <1>10 DEF UpdateProjectInvoice, InvType
  <2> QED
    BY <1>0, <1>10, <1>t, <2>1, <2>2 DEF UpdateProjectInvoice, WorkSound
<1>11. CASE UNCHANGED vars
  BY <1>11 DEF vars, history, TypeOK, WorkSound
<1> QED
  BY <1>1, <1>2, <1>3, <1>4, <1>5, <1>6, <1>7, <1>8, <1>9, <1>10, <1>11, <1>12, Steps DEF ReadStep
-----------------------------------------------------------------------------
(* What a request leaves that writes the status of its invoice.            *)

Writes(u, i, k, t) ==
  /\ work[u].on = i /\ work[u].status \notin {"absent", "issued"}
  /\ k = "approve" <=> t = "approved"
  /\ t = "approved" => On(u, "mark") /\ work[u].status = "review"
  /\ t = "cancelled" => On(u, "free")
  /\ inv' = [inv EXCEPT ![i].status = t] /\ journals' = journals
  /\ NoteStale(u, k) /\ NoteBlur(u)

\* What it overtakes is noted, and blurs the lines, as a second cancellation does.
LEMMA WriteEffect ==
  ASSUME TypeOK, NEW u \in Users, NEW i \in Invoices, NEW k,
         NEW t \in {"approved", "cancelled", "void"}, Writes(u, i, k, t)
  PROVE  /\ inv'[i].status = t /\ inv'[i].lines = inv[i].lines
         /\ \A j \in Invoices \ {i} : inv'[j] = inv[j]
         /\ blurred \subseteq blurred' /\ stale \subseteq stale'
         /\ Overtaken(u) => /\ <<i, k>> \in stale'
                            /\ work[u].lines \subseteq blurred' /\ inv[i].lines \subseteq blurred'
         /\ ~Overtaken(u) => /\ work[u].status = inv[i].status /\ stale' = stale
                             /\ t # "void" => work[u].lines = inv[i].lines
         /\ ~Overtaken(u) /\ t = "cancelled" /\ inv[i].status \notin Active =>
              inv[i].lines \subseteq blurred'
<1>0. /\ inv \in [Invoices -> InvType] /\ work[u].on = i /\ inv[i].status \in Statuses
      /\ work[u].status \notin {"absent", "issued"}
  BY DEF TypeOK, InvType, Writes
<1>1. inv'[i].status = t /\ inv'[i].lines = inv[i].lines /\ \A j \in Invoices \ {i} : inv'[j] = inv[j]
  BY <1>0 DEF Writes, InvType
<1>2. blurred' = blurred \cup Blurs(u)
  BY DEF Writes, NoteBlur
<1>3. stale' = IF Overtaken(u) THEN stale \cup {<<i, k>>} ELSE stale
  BY <1>0 DEF Writes, NoteStale
<1>4. Overtaken(u) \/ ClosesAgain(u) => Blurs(u) = work[u].lines \cup inv[i].lines
  BY <1>0 DEF Blurs
<1>5. ~Overtaken(u) => /\ work[u].status = inv[i].status
                       /\ t # "void" => work[u].lines = inv[i].lines
  BY <1>0 DEF Overtaken, Writes, On
<1>6. ASSUME ~Overtaken(u), t = "cancelled", inv[i].status \notin Active
      PROVE  inv[i].lines \subseteq blurred'
  <2>1. work[u].status \in {"cancelled", "void"}
    BY <1>0, <1>5, <1>6 DEF Statuses, Active
  <2>2. ClosesAgain(u)
    BY <1>6, <2>1 DEF ClosesAgain, Writes
  <2> QED
    BY <1>2, <1>4, <2>2
<1> QED
  BY <1>1, <1>2, <1>3, <1>4, <1>5, <1>6

\* A write keeps journals, claims and what is live.
LEMMA WriteStep ==
  ASSUME TypeOK, Sound, NEW u \in Users, NEW i \in Invoices,
         NEW k \in {"approve", "close"}, NEW t \in {"approved", "cancelled", "void"},
         Writes(u, i, k, t)
  PROVE  JournalTellsIssued' /\ ApprovedOnce' /\ Live' /\ OneClaim'
<1>0. journals \in [Invoices -> Nat] /\ journals' = journals
      /\ work[u].status \notin {"absent", "issued"}
      /\ (k = "approve" <=> t = "approved") /\ (k = "approve" => work[u].status = "review")
  BY DEF TypeOK, Writes
<1> DEFINE w == work[u]
<1>1. /\ inv'[i].status = t /\ inv'[i].lines = inv[i].lines
      /\ \A j \in Invoices \ {i} : inv'[j] = inv[j]
      /\ blurred \subseteq blurred' /\ stale \subseteq stale'
      /\ Overtaken(u) => <<i, k>> \in stale' /\ inv[i].lines \subseteq blurred'
      /\ ~Overtaken(u) => w.status = inv[i].status
  BY WriteEffect
<1>2. JournalTellsIssued'
  <2>1. \A j \in Invoices : Overwritten(j) => Overwritten(j)'
    BY <1>1 DEF Overwritten
  <2>2. Overtaken(u) => Overwritten(i)'
    BY <1>1 DEF Overwritten
  <2>3. ASSUME NEW j \in Invoices, ~Overwritten(j)'
        PROVE  journals'[j] = IF inv'[j].status = "issued" THEN 1 ELSE 0
    <3>1. journals[j] = IF inv[j].status = "issued" THEN 1 ELSE 0
      BY <2>1, <2>3 DEF Sound, JournalTellsIssued
    <3>2. CASE j = i
      BY <1>0, <1>1, <2>2, <2>3, <3>1, <3>2
    <3> QED
      BY <1>0, <1>1, <3>1, <3>2
  <2> QED
    BY <2>3 DEF JournalTellsIssued
<1>3. ApprovedOnce'
  <2>1. ASSUME NEW j \in Invoices, <<j, "approve">> \notin stale'
        PROVE  /\ journals'[j] <= 1
               /\ inv'[j].status \in {"draft", "review", "approved"} => journals'[j] = 0
    <3>1. /\ journals[j] <= 1
          /\ inv[j].status \in {"draft", "review", "approved"} => journals[j] = 0
      BY <1>1, <2>1 DEF Sound, ApprovedOnce
    <3>2. CASE j = i /\ t = "approved"
      BY <1>0, <1>1, <2>1, <3>1, <3>2
    <3>3. CASE j = i /\ t # "approved"
      BY <1>0, <1>1, <3>1, <3>3
    <3>4. CASE j # i
      BY <1>0, <1>1, <3>1, <3>4
    <3> QED
      BY <3>2, <3>3, <3>4
  <2> QED
    BY <2>1 DEF ApprovedOnce
<1>4. Live'
  <2>1. ASSUME NEW j \in Invoices, journals'[j] > 0
        PROVE  inv'[j].status # "absent" /\ (inv'[j].status = "issued" \/ inv'[j].lines \subseteq blurred')
    <3>1. inv[j].status # "absent" /\ (inv[j].status = "issued" \/ inv[j].lines \subseteq blurred)
      BY <1>0, <2>1 DEF Sound, Live
    <3>2. CASE j = i
      BY <1>0, <1>1, <3>1, <3>2
    <3> QED
      BY <1>1, <3>1, <3>2
  <2> QED
    BY <2>1 DEF Live
<1>5. OneClaim'
  <2>1. ASSUME NEW s \in Sources \ blurred', NEW j \in Invoices, NEW l \in Invoices,
               s \in inv'[j].lines, s \in inv'[l].lines,
               inv'[j].status \in Active, inv'[l].status \in Active
        PROVE  j = l
    <3>1. s \in Sources \ blurred /\ s \in inv[j].lines /\ s \in inv[l].lines
      BY <1>1, <2>1
    <3>2. ASSUME NEW n \in Invoices, s \in inv[n].lines, inv'[n].status \in Active
          PROVE  inv[n].status \in Active
      <4>1. CASE n = i
        <5>1. t = "approved" /\ ~Overtaken(u)
          BY <1>1, <2>1, <3>2, <4>1 DEF Active
        <5> QED
          BY <1>0, <1>1, <4>1, <5>1 DEF Active
      <4> QED
        BY <1>1, <3>2, <4>1
    <3> QED
      BY <2>1, <3>1, <3>2 DEF Sound, OneClaim
  <2> QED
    BY <2>1 DEF OneClaim
<1> QED
  BY <1>2, <1>3, <1>4, <1>5

\* Approving marks, cancelling unmarks and voiding keeps the flags of the
\* lines: each agrees with the status it sets.
LEMMA FlagsWritten ==
  ASSUME TypeOK, Sound, NEW u \in Users, NEW i \in Invoices,
         NEW k \in {"approve", "close"}, NEW t \in {"approved", "cancelled", "void"},
         Writes(u, i, k, t),
         t = "approved" => MarkSourcesInvoiced(work[u].lines),
         t = "cancelled" => src' = [s \in Sources |-> IF s \in work[u].lines /\ src[s] = "invoiced"
                                                      THEN "reached" ELSE src[s]],
         t = "void" => src' = src
  PROVE  Flagged'
<1>1. /\ inv'[i].status = t /\ inv'[i].lines = inv[i].lines
      /\ \A j \in Invoices \ {i} : inv'[j] = inv[j]
      /\ blurred \subseteq blurred' /\ stale \subseteq stale'
      /\ Overtaken(u) => /\ <<i, k>> \in stale'
                         /\ work[u].lines \subseteq blurred' /\ inv[i].lines \subseteq blurred'
      /\ ~Overtaken(u) => /\ work[u].status = inv[i].status /\ stale' = stale
                          /\ t # "void" => work[u].lines = inv[i].lines
      /\ ~Overtaken(u) /\ t = "cancelled" /\ inv[i].status \notin Active =>
           inv[i].lines \subseteq blurred'
  BY WriteEffect
<1>2. SUFFICES ASSUME NEW s \in Sources \ blurred'
               PROVE  /\ \A j \in Invoices : s \in inv'[j].lines /\ inv'[j].status \in Marking => src'[s] = "invoiced"
                      /\ src'[s] = "invoiced" =>
                           \E j \in Invoices : s \in inv'[j].lines /\ inv'[j].status \in Marking \cup {"void"}
  BY DEF Flagged
<1>3. /\ s \in Sources \ blurred
      /\ \A j \in Invoices : s \in inv[j].lines /\ inv[j].status \in Marking => src[s] = "invoiced"
      /\ src[s] = "invoiced" =>
           \E j \in Invoices : s \in inv[j].lines /\ inv[j].status \in Marking \cup {"void"}
  BY <1>1 DEF Sound, Flagged
<1>4. CASE s \notin inv[i].lines
  <2>1. t # "void" => s \notin work[u].lines
    BY <1>1, <1>2, <1>4
  <2>2. src'[s] = src[s]
    BY <1>2, <2>1 DEF MarkSourcesInvoiced
  <2> QED
    BY <1>1, <1>3, <1>4, <2>2
<1>5. CASE s \in inv[i].lines
  <2>1. ~Overtaken(u) /\ (t # "void" => s \in work[u].lines)
    BY <1>1, <1>2, <1>5
  <2>2. CASE t = "approved"
    <3>1. src'[s] = "invoiced"
      BY <1>2, <2>1, <2>2 DEF MarkSourcesInvoiced
    <3> QED
      BY <1>1, <1>5, <2>2, <3>1 DEF Marking
  <2>3. CASE t = "void"
    <3>1. src'[s] = src[s]
      BY <2>3
    <3>2. \A j \in Invoices : s \in inv'[j].lines /\ inv'[j].status \in Marking => src'[s] = "invoiced"
      BY <1>1, <1>3, <2>3, <3>1 DEF Marking
    <3> QED
      BY <1>1, <1>5, <2>3, <3>2
  <2>4. CASE t = "cancelled"
    <3>1. src'[s] # "invoiced"
      BY <1>2, <2>1, <2>4
    <3>2. ASSUME NEW j \in Invoices, s \in inv'[j].lines, inv'[j].status \in Marking PROVE FALSE
      <4>1. j # i /\ inv[j] = inv'[j]
        BY <1>1, <2>4, <3>2 DEF Marking
      <4>2. inv[i].status \in Active
        BY <1>1, <1>2, <1>5, <2>1, <2>4
      <4> QED
        BY <1>3, <1>5, <3>2, <4>1, <4>2 DEF Sound, OneClaim, Marking, Active
    <3> QED
      BY <3>1, <3>2
  <2> QED
    BY <2>2, <2>3, <2>4
<1> QED
  BY <1>4, <1>5

-----------------------------------------------------------------------------
(* The other steps.                                                        *)

\* A milestone that no invoice marks may get another status.
LEMMA MilestoneKeeps ==
  ASSUME TypeOK, Sound, NEW m \in Milestones, NEW t \in {"reached", "cancelled"}, MilestoneStep(m, t)
  PROVE  Sound'
<1>0. src \in [Sources -> SrcType] /\ m \in Sources
  BY DEF TypeOK, SrcType, Sources
<1>1. /\ UNCHANGED <<inv, journals, stale>> /\ blurred \subseteq blurred'
      /\ src[m] = "invoiced" => m \in blurred'
      /\ src'[m] = t /\ \A s \in Sources \ {m} : src'[s] = src[s]
  BY <1>0 DEF MilestoneStep
<1>2. JournalTellsIssued' /\ ApprovedOnce'
  BY <1>1 DEF Sound, JournalTellsIssued, ApprovedOnce, Overwritten
<1>3. Live' /\ OneClaim'
  BY <1>1 DEF Sound, Live, OneClaim
<1>4. Flagged'
  <2>1. SUFFICES ASSUME NEW s \in Sources \ blurred'
                 PROVE  /\ \A j \in Invoices : s \in inv'[j].lines /\ inv'[j].status \in Marking => src'[s] = "invoiced"
                        /\ src'[s] = "invoiced" =>
                             \E j \in Invoices : s \in inv'[j].lines /\ inv'[j].status \in Marking \cup {"void"}
    BY DEF Flagged
  <2>2. /\ \A j \in Invoices : s \in inv[j].lines /\ inv[j].status \in Marking => src[s] = "invoiced"
        /\ src[s] = "invoiced" =>
             \E j \in Invoices : s \in inv[j].lines /\ inv[j].status \in Marking \cup {"void"}
    BY <1>1, <2>1 DEF Sound, Flagged
  <2>3. CASE s = m
    BY <1>1, <2>1, <2>2, <2>3
  <2> QED
    BY <1>1, <2>2, <2>3
<1> QED
  BY <1>2, <1>3, <1>4 DEF Sound

\* Submitting, rejecting and issuing go along the statuses.
LEMMA StatusKeeps ==
  ASSUME TypeOK, Sound, NEW i \in Invoices, StatusStep(i)
  PROVE  Sound'
<1>0. inv \in [Invoices -> InvType] /\ journals \in [Invoices -> Nat]
  BY DEF TypeOK, InvType
<1>1. UNCHANGED <<src, stale, blurred>>
  BY DEF StatusStep, SubmitForReview, RejectInvoice, IssueInvoice, history
<1>2. /\ inv'[i].lines = inv[i].lines /\ \A j \in Invoices \ {i} : inv'[j] = inv[j] /\ journals'[j] = journals[j]
      /\ \/ /\ inv[i].status = "draft" /\ inv'[i].status = "review" /\ journals'[i] = journals[i]
         \/ /\ inv[i].status = "review" /\ inv'[i].status = "draft" /\ journals'[i] = journals[i]
         \/ /\ inv[i].status = "approved" /\ inv'[i].status = "issued" /\ journals'[i] = journals[i] + 1
  BY <1>0 DEF StatusStep, SubmitForReview, RejectInvoice, IssueInvoice, InvType
<1>3. JournalTellsIssued'
  <2>1. ASSUME NEW j \in Invoices, ~Overwritten(j)'
        PROVE  journals'[j] = IF inv'[j].status = "issued" THEN 1 ELSE 0
    <3>1. journals[j] = IF inv[j].status = "issued" THEN 1 ELSE 0
      BY <1>1, <2>1 DEF Sound, JournalTellsIssued, Overwritten
    <3>2. CASE j = i
      BY <1>2, <3>1, <3>2
    <3> QED
      BY <1>2, <3>1, <3>2
  <2> QED
    BY <2>1 DEF JournalTellsIssued
<1>4. ApprovedOnce'
  <2>1. ASSUME NEW j \in Invoices, <<j, "approve">> \notin stale'
        PROVE  /\ journals'[j] <= 1
               /\ inv'[j].status \in {"draft", "review", "approved"} => journals'[j] = 0
    <3>1. /\ journals[j] <= 1
          /\ inv[j].status \in {"draft", "review", "approved"} => journals[j] = 0
      BY <1>1, <2>1 DEF Sound, ApprovedOnce
    <3>2. CASE j = i
      BY <1>2, <3>1, <3>2
    <3> QED
      BY <1>2, <3>1, <3>2
  <2> QED
    BY <2>1 DEF ApprovedOnce
<1>5. Live'
  <2>1. ASSUME NEW j \in Invoices, journals'[j] > 0
        PROVE  inv'[j].status # "absent" /\ (inv'[j].status = "issued" \/ inv'[j].lines \subseteq blurred')
    <3>1. CASE j = i
      <4>1. journals[j] > 0 => inv[j].lines \subseteq blurred \/ inv[j].status = "issued"
        BY DEF Sound, Live
      <4> QED
        BY <1>0, <1>1, <1>2, <2>1, <3>1, <4>1
    <3> QED
      BY <1>1, <1>2, <2>1, <3>1 DEF Sound, Live
  <2> QED
    BY <2>1 DEF Live
<1>6. \A j \in Invoices : inv'[j].lines = inv[j].lines
                          /\ (inv'[j].status \in Active <=> inv[j].status \in Active)
                          /\ (inv'[j].status \in Marking <=> inv[j].status \in Marking)
                          /\ (inv'[j].status \in Marking \cup {"void"} <=> inv[j].status \in Marking \cup {"void"})
  BY <1>2 DEF Marking, Active
<1>7. OneClaim'
  BY <1>1, <1>6 DEF Sound, OneClaim
<1>8. Flagged'
  BY <1>1, <1>6, Zenon DEF Sound, Flagged
<1> QED
  BY <1>3, <1>4, <1>5, <1>7, <1>8 DEF Sound

\* A draft blurs what another draft lists, or what it knows to be marked: no
\* invoice that is not closed lists the rest, since their flags tell so.
LEMMA DraftKeeps ==
  ASSUME TypeOK, Sound, NEW i \in Invoices, NEW lines \in SUBSET Sources, NewDraft(i, lines)
  PROVE  Sound'
<1>0. inv \in [Invoices -> InvType] /\ journals \in [Invoices -> Nat]
  BY DEF TypeOK, InvType
<1>1. /\ UNCHANGED <<src, journals, stale>> /\ blurred \subseteq blurred'
      /\ inv[i].status = "absent" /\ inv'[i].status = "draft" /\ inv'[i].lines = lines
      /\ \A j \in Invoices \ {i} : inv'[j] = inv[j]
  BY <1>0 DEF NewDraft, Draft
<1>2. ASSUME NEW s \in lines, s \notin blurred', NEW j \in Invoices, s \in inv[j].lines
      PROVE  inv[j].status \notin Active
  <2>1. ~Drafted(s) /\ src[s] # "invoiced" /\ s \in Sources \ blurred
    BY <1>1, <1>2 DEF NewDraft, Draft
  <2>2. inv[j].status \notin {"draft", "review"}
    BY <1>2, <2>1 DEF Drafted, Listing
  <2>3. inv[j].status \notin Marking
    BY <1>2, <2>1 DEF Sound, Flagged
  <2> QED
    BY <2>2, <2>3 DEF Active, Marking
<1>3. journals[i] = 0
  BY <1>0, <1>1 DEF Sound, Live
<1>4. JournalTellsIssued'
  <2>1. ASSUME NEW j \in Invoices, ~Overwritten(j)'
        PROVE  journals'[j] = IF inv'[j].status = "issued" THEN 1 ELSE 0
    BY <1>1, <1>3, <2>1 DEF Sound, JournalTellsIssued, Overwritten
  <2> QED
    BY <2>1 DEF JournalTellsIssued
<1>5. ApprovedOnce'
  BY <1>1, <1>3 DEF Sound, ApprovedOnce
<1>6. Live'
  BY <1>1, <1>3 DEF Sound, Live
<1>7. OneClaim'
  <2>1. ASSUME NEW s \in Sources \ blurred', NEW j \in Invoices, NEW l \in Invoices,
               s \in inv'[j].lines, s \in inv'[l].lines,
               inv'[j].status \in Active, inv'[l].status \in Active
        PROVE  j = l
    <3>1. CASE j = i \/ l = i
      BY <1>1, <1>2, <2>1, <3>1
    <3>2. CASE j # i /\ l # i
      BY <1>1, <2>1, <3>2 DEF Sound, OneClaim
    <3> QED
      BY <3>1, <3>2
  <2> QED
    BY <2>1 DEF OneClaim
<1>8. Flagged'
  <2>1. SUFFICES ASSUME NEW s \in Sources \ blurred'
                 PROVE  /\ \A j \in Invoices : s \in inv'[j].lines /\ inv'[j].status \in Marking => src'[s] = "invoiced"
                        /\ src'[s] = "invoiced" =>
                             \E j \in Invoices : s \in inv'[j].lines /\ inv'[j].status \in Marking \cup {"void"}
    BY DEF Flagged
  <2>2. /\ \A j \in Invoices : s \in inv[j].lines /\ inv[j].status \in Marking => src[s] = "invoiced"
        /\ src[s] = "invoiced" =>
             \E j \in Invoices : s \in inv[j].lines /\ inv[j].status \in Marking \cup {"void"}
    BY <1>1, <2>1 DEF Sound, Flagged
  <2>3. \A j \in Invoices : s \in inv'[j].lines /\ inv'[j].status \in Marking =>
                              s \in inv[j].lines /\ inv[j].status \in Marking
    BY <1>1 DEF Marking
  <2>4. ASSUME src[s] = "invoiced"
        PROVE  \E j \in Invoices : s \in inv'[j].lines /\ inv'[j].status \in Marking \cup {"void"}
    <3>1. PICK j \in Invoices : s \in inv[j].lines /\ inv[j].status \in Marking \cup {"void"}
      BY <2>2, <2>4
    <3>2. j # i
      BY <1>1, <3>1 DEF Marking
    <3> QED
      BY <1>1, <3>1, <3>2
  <2> QED
    BY <1>1, <2>2, <2>3, <2>4
<1> QED
  BY <1>4, <1>5, <1>6, <1>7, <1>8 DEF Sound

\* An edit takes lines off, and blurs those that stay marked.
LEMMA EditKeeps ==
  ASSUME TypeOK, Sound, NEW i \in Invoices, NEW kept \in SUBSET Sources, UpdateProjectInvoice(i, kept)
  PROVE  Sound'
<1>0. inv \in [Invoices -> InvType]
  BY DEF TypeOK, InvType
<1>1. /\ UNCHANGED <<src, journals, stale>> /\ blurred \subseteq blurred'
      /\ inv'[i].status = inv[i].status /\ inv'[i].lines = kept /\ kept \subseteq inv[i].lines
      /\ \A j \in Invoices \ {i} : inv'[j] = inv[j]
      /\ \A s \in inv[i].lines \ kept : src[s] = "invoiced" => s \in blurred'
  BY <1>0 DEF UpdateProjectInvoice, InvType
<1>2. \A j \in Invoices : inv'[j].status = inv[j].status /\ inv'[j].lines \subseteq inv[j].lines
  BY <1>1
<1>3. JournalTellsIssued' /\ ApprovedOnce'
  BY <1>1, <1>2 DEF Sound, JournalTellsIssued, ApprovedOnce, Overwritten
<1>4. Live'
  BY <1>1, <1>2 DEF Sound, Live
<1>5. OneClaim'
  BY <1>1, <1>2 DEF Sound, OneClaim
<1>6. Flagged'
  <2>1. SUFFICES ASSUME NEW s \in Sources \ blurred'
                 PROVE  /\ \A j \in Invoices : s \in inv'[j].lines /\ inv'[j].status \in Marking => src'[s] = "invoiced"
                        /\ src'[s] = "invoiced" =>
                             \E j \in Invoices : s \in inv'[j].lines /\ inv'[j].status \in Marking \cup {"void"}
    BY DEF Flagged
  <2>2. /\ \A j \in Invoices : s \in inv[j].lines /\ inv[j].status \in Marking => src[s] = "invoiced"
        /\ src[s] = "invoiced" =>
             \E j \in Invoices : s \in inv[j].lines /\ inv[j].status \in Marking \cup {"void"}
    BY <1>1, <2>1 DEF Sound, Flagged
  <2>3. ASSUME src[s] = "invoiced"
        PROVE  \E j \in Invoices : s \in inv'[j].lines /\ inv'[j].status \in Marking \cup {"void"}
    <3>1. PICK j \in Invoices : s \in inv[j].lines /\ inv[j].status \in Marking \cup {"void"}
      BY <2>2, <2>3
    <3>2. s \in inv'[j].lines
      BY <1>1, <2>1, <2>3, <3>1
    <3> QED
      BY <1>2, <3>1, <3>2
  <2> QED
    BY <1>1, <1>2, <2>2, <2>3
<1> QED
  BY <1>3, <1>4, <1>5, <1>6 DEF Sound

\* Sound is inductive, given types and requests.
LEMMA SoundStep == ASSUME TypeOK, WorkSound, Sound, [Next]_vars PROVE Sound'
<1>u. ASSUME UNCHANGED <<inv, src, journals, stale, blurred>> PROVE Sound'
  BY <1>u DEF Sound, JournalTellsIssued, ApprovedOnce, Live, OneClaim, Flagged, Overwritten
<1>1. ASSUME NEW m \in Milestones, ReachMilestone(m) \/ CancelMilestone(m) PROVE Sound'
  <2>1. \E t \in {"reached", "cancelled"} : MilestoneStep(m, t)
    BY <1>1 DEF ReachMilestone, CancelMilestone, MilestoneStep, history
  <2> QED
    BY <2>1, MilestoneKeeps
<1>2. ASSUME NEW u \in Users, Reach(u) PROVE Sound'
  <2>1. work[u].on \in Milestones
    BY <1>2 DEF Reach, On, WorkSound
  <2>2. MilestoneStep(work[u].on, "reached")
    BY <1>2 DEF Reach, MilestoneStep
  <2> QED
    BY <2>1, <2>2, MilestoneKeeps
<1>3. ASSUME NEW u \in Users, ReadStep(u) PROVE Sound'
  BY <1>3, <1>u DEF ReadStep, AskStep, AskApprove, AskClose, ReadLines, history
<1>4. ASSUME NEW u \in Users, Approve(u) PROVE Sound'
  <2>1. work[u].on \in Invoices /\ Writes(u, work[u].on, "approve", "approved")
    BY <1>4 DEF Approve, On, WorkSound, Writes
  <2> QED
    BY <1>4, <2>1, WriteStep, FlagsWritten DEF Approve, Sound
<1>5. ASSUME NEW u \in Users, CancelInvoice(u) PROVE Sound'
  <2>1. work[u].on \in Invoices /\ Writes(u, work[u].on, "close", "cancelled")
    BY <1>5 DEF CancelInvoice, On, WorkSound, Writes
  <2> QED
    BY <1>5, <2>1, WriteStep, FlagsWritten DEF CancelInvoice, Sound
<1>6. ASSUME NEW u \in Users, VoidProjectInvoice(u) PROVE Sound'
  <2>1. work[u].on \in Invoices /\ Writes(u, work[u].on, "close", "void")
    BY <1>6 DEF VoidProjectInvoice, On, WorkSound, Writes
  <2> QED
    BY <1>6, <2>1, WriteStep, FlagsWritten DEF VoidProjectInvoice, Sound
<1>7. ASSUME NEW u \in Users, NEW m \in Milestones, AskReach(u, m) PROVE Sound'
  BY <1>7, <1>u DEF AskReach, history
<1>8. ASSUME NEW i \in Invoices, StatusStep(i) PROVE Sound'
  BY <1>8, StatusKeeps
<1>9. ASSUME NEW i \in Invoices, NEW lines \in SUBSET Sources,
             NewDraft(i, lines) \/ UpdateProjectInvoice(i, lines)
      PROVE  Sound'
  BY <1>9, DraftKeeps, EditKeeps
<1>10. CASE UNCHANGED vars
  BY <1>10, <1>u DEF vars, history
<1> QED
  BY <1>1, <1>2, <1>3, <1>4, <1>5, <1>6, <1>7, <1>8, <1>9, <1>10, Steps

-----------------------------------------------------------------------------
\* The invariant holds in every reachable state.
THEOREM InvAlways == Spec => []Inv
<1>1. Inv /\ [Next]_vars => Inv'
  BY TypeStep, SoundStep DEF Inv
<1> QED
  BY InitInv, <1>1, PTL DEF Spec

\* Every reachable state is well typed.
THEOREM TypeCorrect == Spec => []TypeOK
<1>1. Inv => TypeOK
  BY DEF Inv
<1> QED
  BY InvAlways, <1>1, PTL

\* An invoice is issued exactly when its journal was asked for, unless an
\* overtaken request wrote over its status.
THEOREM JournalAlwaysTellsIssued == Spec => []JournalTellsIssued
<1>1. Inv => JournalTellsIssued
  BY DEF Inv, Sound
<1> QED
  BY InvAlways, <1>1, PTL

\* A second journal takes an overtaken approval, never a late cancel or void.
THEOREM AlwaysJournalOnce == Spec => []JournalOnce
<1>1. Inv => JournalOnce
  <2>1. Inv => journals \in [Invoices -> Nat] /\ ApprovedOnce
    BY DEF Inv, TypeOK, Sound
  <2> QED
    BY <2>1 DEF ApprovedOnce, JournalOnce
<1> QED
  BY InvAlways, <1>1, PTL

\* The flag of a source tells whether an invoice bills it (is_invoiced,
\* markSourcesInvoiced and the cancel that takes it back).
THEOREM FlagAlwaysTellsBilled == Spec => []FlagTellsBilled
<1>1. Inv => FlagTellsBilled
  <2>1. ASSUME Flagged PROVE FlagTellsBilled
    BY <2>1 DEF Flagged, FlagTellsBilled, Listing
  <2> QED
    BY <2>1 DEF Inv, Sound
<1> QED
  BY InvAlways, <1>1, PTL

\* Two invoices with a journal bill no source twice, unless it was blurred.
THEOREM AlwaysBilledOnce == Spec => []BilledOnce
<1>1. Inv => BilledOnce
  <2> SUFFICES ASSUME Inv, NEW i \in Invoices, NEW j \in Invoices, i # j,
                      journals[i] > 0, journals[j] > 0, NEW s \in inv[i].lines \cap inv[j].lines,
                      s \notin blurred
               PROVE  FALSE
    BY DEF BilledOnce
  <2>1. s \in Sources
    BY DEF Inv, TypeOK
  <2>2. inv[i].status = "issued" /\ inv[j].status = "issued"
    BY DEF Inv, Sound, Live
  <2> QED
    BY <2>1, <2>2 DEF Inv, Sound, OneClaim, Active
<1> QED
  BY InvAlways, <1>1, PTL
=============================================================================
