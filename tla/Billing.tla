------------------------------- MODULE Billing -------------------------------
(***************************************************************************)
(* The invoices of one project contract, from the work they bill to the    *)
(* journal that books them (packages/billing, services/projects/src/routes *)
(* and the gateway's own mutations).  Receivable goes on from there.       *)
(*                                                                         *)
(* A source is what a line bills: a milestone, or a cost (manufacturing    *)
(* order, purchase receipt, stock issue, rental).  Its is_invoiced flag,   *)
(* or the status of the milestone, is all that keeps it off the next       *)
(* invoice.  Most handlers read the invoice, answer 409 on a wrong status, *)
(* read the lines in a second query, and write by id in a transaction: a   *)
(* step each, and other requests come between.  An UPDATE that tests the   *)
(* status itself is one.                                                   *)
(***************************************************************************)
EXTENDS Naturals, FiniteSets

CONSTANTS
  Invoices,    \* project_invoices of the contract
  Milestones,  \* project_milestones of the contract
  Costs,       \* finished costs of the project
  Users,       \* people with a request in progress
  Nothing,     \* the object of no request
  MaxLate      \* bound: writes of requests that were overtaken

ASSUME ConstantsAssumption ==
  /\ Milestones \cap Costs = {} /\ Invoices \cap (Milestones \cup Costs) = {}
  /\ Nothing \notin Invoices \cup Milestones
  /\ MaxLate \in Nat

VARIABLES
  inv,       \* the invoices
  src,       \* status of a milestone, is_invoiced of a cost
  work,      \* what the request of each user has read
  journals,  \* PROJECT_INVOICE_JOURNAL_REQUESTED rows of an invoice
  stale,     \* history: which invoices which requests wrote to after what they
             \* had read changed
  blurred    \* history: sources with a flag that may be wrong

history == <<stale, blurred>>
vars    == <<inv, src, work, journals, stale, blurred>>

Sources == Milestones \cup Costs

\* "issued" stands for partial and paid too.
Statuses == {"absent", "draft", "review", "approved", "issued", "cancelled", "void"}
Marking  == {"approved", "issued"}

NoWork == [op |-> "none", on |-> Nothing, status |-> "absent", lines |-> {}]

TypeOK ==
  /\ inv \in [Invoices -> [status : Statuses, lines : SUBSET Sources]]
  /\ src \in [Sources -> {"pending", "reached", "invoiced", "cancelled"}]
  /\ work \in [Users -> [op : {"none", "approve", "mark", "close", "free", "reach"},
                         on : Invoices \cup Milestones \cup {Nothing},
                         status : Statuses, lines : SUBSET Sources]]
  /\ journals \in [Invoices -> Nat]
  /\ stale \subseteq Invoices \X {"approve", "close"} /\ blurred \subseteq Sources

Init ==
  /\ inv = [i \in Invoices |-> [status |-> "absent", lines |-> {}]]
  /\ src = [s \in Sources |-> IF s \in Milestones THEN "pending" ELSE "reached"]
  /\ work = [u \in Users |-> NoWork]
  /\ journals = [i \in Invoices |-> 0]
  /\ stale = {} /\ blurred = {}

-----------------------------------------------------------------------------
(* Requests: what is read, and whether it still holds at the write.        *)

Idle(u)   == work[u].op = "none"
Rest(u)   == work' = [work EXCEPT ![u] = NoWork]
On(u, op) == work[u].op = op

Reads(u, op, i) ==
  work' = [work EXCEPT ![u] = [op |-> op, on |-> i, status |-> inv[i].status, lines |-> {}]]

\* approve and cancel read the lines once the status was right.
ReadLines(u) ==
  /\ On(u, "approve") \/ On(u, "close")
  /\ work' = [work EXCEPT ![u].op = IF @ = "approve" THEN "mark" ELSE "free",
                          ![u].lines = inv[work[u].on].lines]
  /\ UNCHANGED <<inv, src, journals, history>>

Overtaken(u) ==
  \/ work[u].status # inv[work[u].on].status
  \/ ~On(u, "close") /\ work[u].lines # inv[work[u].on].lines

NoteStale(u, op) ==
  /\ stale' = IF Overtaken(u) THEN stale \cup {<<work[u].on, op>>} ELSE stale
  /\ Cardinality(stale') <= MaxLate

Listing(s) == {i \in Invoices : s \in inv[i].lines}
Drafted(s) == \E i \in Listing(s) : inv[i].status \in {"draft", "review"}

\* An invoice that was closed is cancelled again: what it frees may have been
\* billed since.
ClosesAgain(u) == On(u, "free") /\ work[u].status \in {"cancelled", "void"}

\* What a request may leave wrong.
Blurs(u) ==
  IF Overtaken(u) \/ ClosesAgain(u) THEN work[u].lines \cup inv[work[u].on].lines ELSE {}

NoteBlur(u) == blurred' = blurred \cup Blurs(u)

-----------------------------------------------------------------------------
(* The sources.                                                            *)

\* The gateway's mutation tests the status where it writes.
ReachMilestone(m) ==
  /\ src[m] = "pending"
  /\ src' = [src EXCEPT ![m] = "reached"]
  /\ UNCHANGED <<inv, work, journals, history>>

\* The route reads the status first and writes by id.
AskReach(u, m) ==
  /\ Idle(u) /\ src[m] = "pending"
  /\ work' = [work EXCEPT ![u] = [NoWork EXCEPT !.op = "reach", !.on = m]]
  /\ UNCHANGED <<inv, src, journals, history>>

Reach(u) ==
  /\ On(u, "reach")
  /\ src' = [src EXCEPT ![work[u].on] = "reached"]
  /\ blurred' = IF src[work[u].on] = "invoiced" THEN blurred \cup {work[u].on} ELSE blurred
  /\ Rest(u)
  /\ UNCHANGED <<inv, journals, stale>>

CancelMilestone(m) ==
  /\ src[m] \in {"pending", "reached"}
  /\ src' = [src EXCEPT ![m] = "cancelled"]
  /\ UNCHANGED <<inv, work, journals, history>>

-----------------------------------------------------------------------------
(* An invoice until it is issued.  A draft does not mark its sources, so   *)
(* the next draft may list them too, and both may be approved.             *)

Draft(i, lines, billed) ==
  /\ inv[i].status = "absent"
  /\ inv' = [inv EXCEPT ![i] = [status |-> "draft", lines |-> lines]]
  /\ blurred' = blurred \cup billed \cup {s \in lines : Drafted(s)}
  /\ UNCHANGED <<src, journals, stale>>

CreateMilestoneInvoice(i, ms) ==
  /\ ms # {} /\ \A m \in ms : src[m] = "reached"
  /\ Draft(i, ms, {})
  /\ UNCHANGED work

\* Mutant: the flags are not looked at.
CostPlusOfAll(i) ==
  /\ Draft(i, Costs, {})
  /\ UNCHANGED work

CreateCostPlusInvoice(i) ==
  /\ Draft(i, {c \in Costs : src[c] = "reached"}, {})
  /\ UNCHANGED work

\* A contract has one lump sum invoice.  The count locks nothing, and what
\* comes between it and the insert leaves what CreateProjectInvoice can.
CreateLumpSumInvoice(i) ==
  /\ \A j \in Invoices : inv[j].status \in {"absent", "cancelled"}
  /\ Draft(i, {}, {})
  /\ UNCHANGED work

\* The gateway takes the lines it is sent, marked or not.
CreateProjectInvoice(i, lines) ==
  /\ Draft(i, lines, {s \in lines : src[s] = "invoiced"})
  /\ UNCHANGED work

SubmitForReview(i) ==
  /\ inv[i].status = "draft"
  /\ inv' = [inv EXCEPT ![i].status = "review"]
  /\ UNCHANGED <<src, work, journals, history>>

RejectInvoice(i) ==
  /\ inv[i].status = "review"
  /\ inv' = [inv EXCEPT ![i].status = "draft"]
  /\ UNCHANGED <<src, work, journals, history>>

AskApprove(u, i) ==
  /\ Idle(u) /\ inv[i].status = "review"
  /\ Reads(u, "approve", i)
  /\ UNCHANGED <<inv, src, journals, history>>

\* Mutant: the costs of an approved invoice are left unmarked.
MarkMilestones(lines) ==
  src' = [s \in Sources |-> IF s \in lines \cap Milestones THEN "invoiced" ELSE src[s]]

MarkSourcesInvoiced(lines) ==
  src' = [s \in Sources |-> IF s \in lines THEN "invoiced" ELSE src[s]]

Approve(u) ==
  /\ On(u, "mark")
  /\ MarkSourcesInvoiced(work[u].lines)
  /\ inv' = [inv EXCEPT ![work[u].on].status = "approved"]
  /\ NoteStale(u, "approve")
  /\ NoteBlur(u)
  /\ Rest(u)
  /\ UNCHANGED journals

\* Mutant: the UPDATE takes an invoice that was issued.
IssueAgain(i) ==
  /\ inv[i].status \in {"approved", "issued"}
  /\ inv' = [inv EXCEPT ![i].status = "issued"]
  /\ journals' = [journals EXCEPT ![i] = @ + 1]
  /\ UNCHANGED <<src, work, history>>

\* The status test is the UPDATE's own WHERE.
IssueInvoice(i) ==
  /\ inv[i].status = "approved"
  /\ inv' = [inv EXCEPT ![i].status = "issued"]
  /\ journals' = [journals EXCEPT ![i] = @ + 1]
  /\ UNCHANGED <<src, work, history>>

-----------------------------------------------------------------------------
(* Cancelling and voiding refuse what is live, and nothing else.           *)

\* Mutant: an issued invoice can be closed.
AskCloseAny(u, i) ==
  /\ Idle(u) /\ inv[i].status # "absent"
  /\ Reads(u, "close", i)
  /\ UNCHANGED <<inv, src, journals, history>>

\* They test the same, so what follows is open until they write.
AskClose(u, i) ==
  /\ Idle(u) /\ inv[i].status \notin {"absent", "issued"}
  /\ Reads(u, "close", i)
  /\ UNCHANGED <<inv, src, journals, history>>

CancelInvoice(u) ==
  LET i == work[u].on
      lines == work[u].lines
  IN /\ On(u, "free")
     /\ src' = [s \in Sources |-> IF s \in lines /\ src[s] = "invoiced" THEN "reached" ELSE src[s]]
     /\ inv' = [inv EXCEPT ![i].status = "cancelled"]
     /\ NoteStale(u, "close")
     /\ NoteBlur(u)
     /\ Rest(u)
     /\ UNCHANGED journals

\* The sources keep their flag.
VoidProjectInvoice(u) ==
  /\ On(u, "close")
  /\ inv' = [inv EXCEPT ![work[u].on].status = "void"]
  /\ NoteStale(u, "close")
  /\ Rest(u)
  /\ NoteBlur(u)
  /\ UNCHANGED <<src, journals>>

-----------------------------------------------------------------------------
\* An edit is taken in any status, and forgets the flags of the lines it drops.
UpdateProjectInvoice(i, kept) ==
  /\ inv[i].status # "absent" /\ kept \subseteq inv[i].lines
  /\ inv' = [inv EXCEPT ![i].lines = kept]
  /\ blurred' = blurred \cup {s \in inv[i].lines \ kept : src[s] = "invoiced"}
  /\ UNCHANGED <<src, work, journals, stale>>

-----------------------------------------------------------------------------
SourceStep ==
  \/ \E m \in Milestones : ReachMilestone(m) \/ CancelMilestone(m)
  \/ \E u \in Users : Reach(u) \/ \E m \in Milestones : AskReach(u, m)

DraftStep ==
  \E i \in Invoices :
       \/ \E ms \in SUBSET Milestones : CreateMilestoneInvoice(i, ms)
       \/ CreateCostPlusInvoice(i) \/ CreateLumpSumInvoice(i)
       \/ \E lines \in SUBSET Sources :
            CreateProjectInvoice(i, lines) \/ UpdateProjectInvoice(i, lines)
       \/ SubmitForReview(i) \/ RejectInvoice(i)

InvoiceStep ==
  \/ \E i \in Invoices : IssueInvoice(i)
  \/ \E u \in Users, i \in Invoices : AskApprove(u, i) \/ AskClose(u, i)
  \/ \E u \in Users : ReadLines(u) \/ Approve(u) \/ CancelInvoice(u) \/ VoidProjectInvoice(u)

Next == SourceStep \/ DraftStep \/ InvoiceStep

Spec == Init /\ [][Next]_vars

-----------------------------------------------------------------------------
Overwritten(i) == \E op \in {"approve", "close"} : <<i, op>> \in stale

(* Where no request wrote over what another had changed, the status and    *)
(* the journals go together: an invoice is issued from its journal on, and *)
(* nothing takes it back.  (approve, cancel and void test the status too   *)
(* early to promise this by themselves.)                                   *)
JournalTellsIssued ==
  \A i \in Invoices :
    Overwritten(i) \/ journals[i] = IF inv[i].status = "issued" THEN 1 ELSE 0

(* A second journal takes a second approval that was overtaken: however    *)
(* late a cancel or a void comes, it cannot lead there (invoices.ts:697).  *)
JournalOnce ==
  \A i \in Invoices : journals[i] > 1 => <<i, "approve">> \in stale

(* The flag of a source says whether an invoice bills it: through drafts,  *)
(* rejections, approvals, edits, cancellations and new drafts, until one   *)
(* of these happens to it (blurred), each of which the code lets through.  *)
(*   - a draft lists it that another draft, or one in review, lists too;   *)
(*   - the gateway is sent it as a line although it is marked;             *)
(*   - a request on an invoice that lists it, or on the milestone itself,  *)
(*     writes after what it had read has changed;                          *)
(*   - an edit takes it off an invoice while it is marked;                 *)
(*   - an invoice that lists it, cancelled or void, is cancelled again     *)
(*     (invoices.ts:790 refuses what is issued and nothing else).          *)
(* A voided invoice keeps its sources marked.                              *)
FlagTellsBilled ==
  \A s \in Sources \ blurred :
    /\ (\E i \in Listing(s) : inv[i].status \in Marking) => src[s] = "invoiced"
    /\ src[s] = "invoiced" => \E i \in Listing(s) : inv[i].status \in Marking \cup {"void"}

(* Two invoices with a journal never bill one source, with the same        *)
(* exceptions: what keeps them apart is the flag, set by the approval of   *)
(* one before the other is drafted.                                        *)
BilledOnce ==
  \A i, j \in Invoices :
    i # j /\ journals[i] > 0 /\ journals[j] > 0 => inv[i].lines \cap inv[j].lines \subseteq blurred

(* "approved MO cannot be added to a second invoice - is_invoiced flag     *)
(* blocks it" (services/projects/tests/invoicing.test.ts:577): the lines   *)
(* the service builds bill nothing that an approved invoice bills.         *)
Built(i) == CreateCostPlusInvoice(i) \/ \E ms \in SUBSET Milestones : CreateMilestoneInvoice(i, ms)

ApprovedNotAddedAgain ==
  [][\A i \in Invoices :
       Built(i) => \A s \in inv'[i].lines : \A j \in Listing(s) : inv[j].status \notin Marking]_vars
=============================================================================
