------------------------------- MODULE PettyCash -------------------------------
(***************************************************************************)
(* One petty cash float and the expense claims it may pay                  *)
(* (services/finance/src/routes/petty-cash.ts and expense-claims.ts).      *)
(*                                                                         *)
(* A direct spend and the approval of a replenishment read the float,      *)
(* compute its new balance, and write it in a later transaction.  The      *)
(* payment of a claim locks the claim and the float.  Every other step of  *)
(* a claim is one statement guarded by its status, except pass-audit,      *)
(* which looks for the receipt first.                                      *)
(***************************************************************************)
EXTENDS Integers

CONSTANTS
  Users,      \* people with a request in progress
  Claims,     \* expense claims
  Tops,       \* requests for replenishment
  MaxAmount,  \* bound: any amount
  MaxMoves    \* bound: movements of the float

ASSUME ConstantsAssumption == MaxAmount \in Nat /\ MaxMoves \in Nat

VARIABLES
  float,    \* petty_cash_floats
  moved,    \* petty_cash_transactions: the sums in and out, and how many
  tops,     \* status of each petty_cash_replenishments row
  claims,   \* expense_claims, with their receipts
  work,     \* what the request of each user has read
  posts,    \* history: how often each replenishment was posted
  paid,     \* history: what was paid for each claim, and how often
  approved, \* history: the total that was approved
  crossed,  \* history: a spend or a top-up wrote after the float had changed
  late,     \* history: replenishments approved after they were decided
  unproved  \* history: claims that lost a receipt where nothing looks again

vars == <<float, moved, tops, claims, work, posts, paid, approved, crossed, late, unproved>>

Amounts    == 1..MaxAmount
Cash       == Nat
TopStates  == {"absent", "pending", "posted", "rejected"}
Audited    == {"audited", "posted", "paid"}
Statuses   == {"absent", "draft", "submitted", "approved", "rejected"} \cup Audited
NoWork     == [op |-> "none", on |-> "none", balance |-> 0, amount |-> 0]
NoClaim    == [status |-> "absent", total |-> 0, pending |-> FALSE, receipt |-> FALSE]

ClaimType ==
  [status : Statuses, total : 0..MaxAmount, pending : BOOLEAN, receipt : BOOLEAN]

WorkType ==
  [op : {"none", "spend", "top", "pass"}, on : {"none"} \cup Tops \cup Claims,
   balance : Cash, amount : 0..MaxAmount]

TypeOK ==
  /\ float \in [balance : Cash, opening : 0..MaxAmount, active : BOOLEAN]
  /\ moved \in [received : Cash, spent : Cash, count : 0..MaxMoves]
  /\ tops \in [Tops -> TopStates]
  /\ claims \in [Claims -> ClaimType]
  /\ work \in [Users -> WorkType]
  /\ posts \in [Tops -> Nat]
  /\ paid \in [Claims -> [times : Nat, amount : Nat]]
  /\ approved \in [Claims -> 0..MaxAmount]
  /\ crossed \in BOOLEAN /\ late \subseteq Tops /\ unproved \subseteq Claims

\* POST /floats writes the opening balance and its transaction together.
Init ==
  /\ \E opening \in 0..MaxAmount :
       float = [balance |-> opening, opening |-> opening, active |-> TRUE]
  /\ moved = [received |-> 0, spent |-> 0, count |-> 0]
  /\ tops = [t \in Tops |-> "absent"]
  /\ claims = [c \in Claims |-> NoClaim]
  /\ work = [u \in Users |-> NoWork]
  /\ posts = [t \in Tops |-> 0]
  /\ paid = [c \in Claims |-> [times |-> 0, amount |-> 0]]
  /\ approved = [c \in Claims |-> 0]
  /\ crossed = FALSE /\ late = {} /\ unproved = {}

cash       == <<float, moved, crossed>>
toppings   == <<tops, posts, late>>
claimed    == <<claims, paid, approved, unproved>>

-----------------------------------------------------------------------------
Idle(u)   == work[u].op = "none"
On(u, op) == work[u].op = op
Rest(u)   == work' = [work EXCEPT ![u] = NoWork]

Reads(u, op, row, a) ==
  work' = [work EXCEPT ![u] = [op |-> op, on |-> row, balance |-> float.balance, amount |-> a]]

\* The float is written with the balance that was computed from the read.
Writes(u, balance) ==
  /\ float' = [float EXCEPT !.balance = balance]
  /\ crossed' = (crossed \/ work[u].balance # float.balance)

Moves(received, spent) ==
  /\ moved.count < MaxMoves
  /\ moved' = [received |-> moved.received + received, spent |-> moved.spent + spent,
               count |-> moved.count + 1]

-----------------------------------------------------------------------------
(* The float.                                                              *)

UpdateFloat ==
  /\ float' = [float EXCEPT !.active = ~@]
  /\ UNCHANGED <<moved, crossed, work, toppings, claimed>>

\* Nobody asks here whether the float is active.
AskSpend(u, a) ==
  /\ Idle(u) /\ a <= float.balance
  /\ Reads(u, "spend", "none", a)
  /\ UNCHANGED <<cash, toppings, claimed>>

Spend(u) ==
  LET w == work[u] IN
  /\ On(u, "spend")
  /\ Moves(0, w.amount) /\ Writes(u, w.balance - w.amount)
  /\ Rest(u)
  /\ UNCHANGED <<toppings, claimed>>

RequestReplenishment(t) ==
  /\ tops[t] = "absent"
  /\ tops' = [tops EXCEPT ![t] = "pending"]
  /\ UNCHANGED <<work, cash, posts, late, claimed>>

\* Mutant: a posted replenishment can be rejected.
RejectAnyReplenishment(t) ==
  /\ tops[t] # "absent"
  /\ tops' = [tops EXCEPT ![t] = "rejected"]
  /\ UNCHANGED <<work, cash, posts, late, claimed>>

RejectReplenishment(t) ==
  /\ tops[t] = "pending"
  /\ tops' = [tops EXCEPT ![t] = "rejected"]
  /\ UNCHANGED <<work, cash, posts, late, claimed>>

\* The amount is the approver's, whatever was requested.
AskReplenish(u, t, a) ==
  /\ Idle(u) /\ tops[t] = "pending"
  /\ Reads(u, "top", t, a)
  /\ UNCHANGED <<cash, toppings, claimed>>

Replenish(u) ==
  LET w == work[u] IN
  /\ On(u, "top")
  /\ Moves(w.amount, 0) /\ Writes(u, w.balance + w.amount)
  /\ tops' = [tops EXCEPT ![w.on] = "posted"]
  /\ posts' = [posts EXCEPT ![w.on] = @ + 1]
  /\ late' = IF tops[w.on] = "pending" THEN late ELSE late \cup {w.on}
  /\ Rest(u)
  /\ UNCHANGED claimed

-----------------------------------------------------------------------------
(* Expense claims.                                                         *)

SetStatus(c, from, to) ==
  /\ claims[c].status \in from
  /\ claims' = [claims EXCEPT ![c].status = to]

Create(c, a) ==
  /\ claims[c].status = "absent"
  /\ claims' = [claims EXCEPT ![c].status = "draft", ![c].total = a]
  /\ UNCHANGED <<work, cash, toppings, paid, approved, unproved>>

RequestSelf(c, a, pending) ==
  /\ claims[c].status = "absent"
  /\ claims' = [claims EXCEPT ![c] = [status |-> "submitted", total |-> a,
                                      pending |-> pending, receipt |-> FALSE]]
  /\ UNCHANGED <<work, cash, toppings, paid, approved, unproved>>

\* attachFile and detachFile of the gateway do not look at the claim's status.
AttachFile(c) ==
  /\ claims[c].status # "absent" /\ ~claims[c].receipt
  /\ claims' = [claims EXCEPT ![c].receipt = TRUE]
  /\ UNCHANGED <<work, cash, toppings, paid, approved, unproved>>

DetachFile(c) ==
  /\ claims[c].receipt
  /\ claims' = [claims EXCEPT ![c].receipt = FALSE]
  /\ unproved' = unproved \cup {c}
  /\ UNCHANGED <<work, cash, toppings, paid, approved>>

Auditing(c) == \E u \in Users : On(u, "pass") /\ work[u].on = c

\* Mutant: a claim can still be revised while it is approved.
ReviseApproved(c, a, removed, resubmit) ==
  /\ claims[c].status \in {"draft", "rejected", "approved"}
  /\ claims' = [claims EXCEPT
       ![c].total = a,
       ![c].receipt = @ /\ ~removed,
       ![c].status = IF resubmit THEN "submitted" ELSE @]
  /\ unproved' = IF removed /\ Auditing(c) THEN unproved \cup {c} ELSE unproved
  /\ UNCHANGED <<work, cash, toppings, paid, approved>>

\* The receipts of a removed line go with it.
Revise(c, a, removed, resubmit) ==
  /\ claims[c].status \in {"draft", "rejected"}
  /\ claims' = [claims EXCEPT
       ![c].total = a,
       ![c].receipt = @ /\ ~removed,
       ![c].status = IF resubmit THEN "submitted" ELSE @]
  /\ unproved' = IF removed /\ Auditing(c) THEN unproved \cup {c} ELSE unproved
  /\ UNCHANGED <<work, cash, toppings, paid, approved>>

Submit(c) ==
  /\ SetStatus(c, {"draft"}, "submitted")
  /\ UNCHANGED <<work, cash, toppings, paid, approved, unproved>>

Approve(c) ==
  /\ SetStatus(c, {"submitted"}, "approved")
  /\ approved' = [approved EXCEPT ![c] = claims[c].total]
  /\ UNCHANGED <<work, cash, toppings, paid, unproved>>

\* Mutant: nobody looks for the receipt.
AskPassAuditAny(u, c) ==
  /\ Idle(u) /\ claims[c].status # "absent"
  /\ Reads(u, "pass", c, 0)
  /\ UNCHANGED <<cash, toppings, claimed>>

AskPassAudit(u, c) ==
  /\ Idle(u) /\ claims[c].status # "absent"
  /\ claims[c].pending => claims[c].receipt
  /\ Reads(u, "pass", c, 0)
  /\ UNCHANGED <<cash, toppings, claimed>>

\* The claim is audited, or 409 tells that it is not approved.
PassAudit(u) ==
  LET c == work[u].on IN
  /\ On(u, "pass")
  /\ \/ SetStatus(c, {"approved"}, "audited")
     \/ claims[c].status # "approved" /\ UNCHANGED claims
  /\ Rest(u)
  /\ UNCHANGED <<cash, toppings, paid, approved, unproved>>

FailAudit(c) ==
  /\ SetStatus(c, {"approved"}, "draft")
  /\ UNCHANGED <<work, cash, toppings, paid, approved, unproved>>

RejectClaim(c) ==
  /\ SetStatus(c, {"submitted", "approved"}, "rejected")
  /\ UNCHANGED <<work, cash, toppings, paid, approved, unproved>>

MarkPaid(c) ==
  /\ SetStatus(c, {"posted"}, "paid")
  /\ UNCHANGED <<work, cash, toppings, paid, approved, unproved>>

Pays(c) ==
  /\ SetStatus(c, {"audited"}, "posted")
  /\ paid' = [paid EXCEPT ![c] = [times |-> @.times + 1, amount |-> @.amount + claims[c].total]]
  /\ UNCHANGED <<work, toppings, approved, unproved>>

\* From a bank account, or from the employee's advance (see Advances).
PostPayment(c) ==
  /\ Pays(c)
  /\ UNCHANGED cash

\* Mutant: the claim's transaction is recorded and the float not written.
PostPettyCashUnpaid(c) ==
  LET total == claims[c].total IN
  /\ float.active /\ total <= float.balance
  /\ Pays(c)
  /\ Moves(0, total)
  /\ UNCHANGED <<float, crossed>>

\* The claim and the float stay locked from the read to the write.
PostPettyCash(c) ==
  LET total == claims[c].total IN
  /\ float.active /\ total <= float.balance
  /\ Pays(c)
  /\ Moves(0, total)
  /\ float' = [float EXCEPT !.balance = @ - total]
  /\ UNCHANGED crossed

Next ==
  \/ UpdateFloat
  \/ \E u \in Users, a \in Amounts : AskSpend(u, a) \/ \E t \in Tops : AskReplenish(u, t, a)
  \/ \E u \in Users : Spend(u) \/ Replenish(u) \/ PassAudit(u)
  \/ \E t \in Tops : RequestReplenishment(t) \/ RejectReplenishment(t)
  \/ \E c \in Claims, a \in Amounts :
       \/ Create(c, a) \/ \E pending \in BOOLEAN : RequestSelf(c, a, pending)
       \/ \E removed, resubmit \in BOOLEAN : Revise(c, a, removed, resubmit)
  \/ \E c \in Claims :
       \/ AttachFile(c) \/ DetachFile(c) \/ Submit(c) \/ Approve(c)
       \/ FailAudit(c) \/ RejectClaim(c) \/ MarkPaid(c)
       \/ PostPayment(c) \/ PostPettyCash(c)
       \/ \E u \in Users : AskPassAudit(u, c)

Spec == Init /\ [][Next]_vars

-----------------------------------------------------------------------------
(* The balance is what the float's transactions add up to, whoever spends, *)
(* tops up and pays claims, unless a direct spend or a top-up overlapped   *)
(* another movement; the payment of a claim, which locks, may come between *)
(* any two of them.                                                        *)
BalanceTellsMovements ==
  ~crossed => float.balance = float.opening + moved.received - moved.spent

(* A replenishment is posted once and only if nobody rejected it; two      *)
(* approvals that overlap, or a rejection that comes in between, are the   *)
(* only way around.                                                        *)
ToppedOnce ==
  \A t \in Tops \ late : posts[t] = IF tops[t] = "posted" THEN 1 ELSE 0

(* A claim is paid once, with the total that was approved, however often   *)
(* it was sent back, revised and submitted again: "Lines can't change once *)
(* a claim leaves 'draft'" (expense-claims.ts:1266).                       *)
PaidAsApproved ==
  \A c \in Claims :
    paid[c] = IF claims[c].status \in {"posted", "paid"}
              THEN [times |-> 1, amount |-> approved[c]]
              ELSE [times |-> 0, amount |-> 0]

(* A claim filed without a receipt is not paid before it has one, unless   *)
(* the receipt was detached, which no status prevents, or removed in a     *)
(* revision while pass-audit stood between its test and its update.        *)
ProvenBeforePaid ==
  \A c \in Claims \ unproved :
    claims[c].status \in Audited /\ claims[c].pending => claims[c].receipt

=============================================================================
