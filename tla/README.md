# FNC-ERP: specifications, model checking and proofs

This directory holds TLA+ specifications of the parts of FNC-ERP whose correctness depends on the order in which
independent requests, timers and jobs run, the TLC configurations that check them on small instances, and proofs, checked
by TLAPS, that hold for every size. `PROJECT.json` is the machine-readable index: components, runs, mutants (a small wrong
change of a definition that a property must notice), the source lines behind each definition, findings, hazards, theorems.

1. [The system](#1-the-system)
2. [The plan](#2-the-plan)
3. [Outbox](#3-outbox)
4. [Reservation](#4-reservation)
5. [Advances and Account](#5-advances-and-account)
6. [PettyCash](#6-pettycash)
7. [Billing and Receivable](#7-billing-and-receivable)
8. [Payable](#8-payable)
9. [MobileQueue](#9-mobilequeue)
10. [Proofs](#10-proofs)
11. [What the checks found](#11-what-the-checks-found)
12. [What is only model-checked, and what is not modelled](#12-what-is-only-model-checked-and-what-is-not-modelled)
13. [Running](#13-running)

Paths are relative to `src/`; GR stands for `services/gateway/src/graphql/resolvers.ts`.

## 1. The system

FNC-ERP is a multi-company ERP in TypeScript: a React web application, a mobile application with an offline store
(WatermelonDB), and ten services behind a GraphQL gateway, all over one PostgreSQL database. Under PM2 the gateway and the
worker run as one process each and the other services as two. There is no message broker and no in-process lock shared by
the services: **every interaction goes through the database**, by rows that several requests read and write, and through
one table of events, the outbox, that the worker polls. So the hard behaviours are the same everywhere:

- a handler reads a row, decides, opens a transaction and writes from what it read (a stale check or a lost update),
- a row lock inside the transaction, and a check that is or is not repeated under it,
- two statements that belong together without a transaction, and a crash or a failing statement between them,
- a timer that starts again while its last run has not ended,
- a call to another service whose answer can be lost, and the retry that follows,
- long life cycles (a requisition, an advance, an invoice) whose quantities must balance after any legal sequence of steps.

| Component (source) | State | Operations | Interacts with | Hard behaviour | Correct when | Here |
|---|---|---|---|---|---|---|
| Transactional outbox, dead letters (`services/worker/src/jobs/outbox-processor.ts`, GR 13214-13284, `services/gateway/src/routes/admin-outbox.ts`, migrations 011, 026, 302) | `service_outbox`, `outbox_dead_letters`, `outbox_event_configs`; in the worker the circuit breakers and the configuration cache | enqueue, claim, deliver, retry, bury, administrator's retry, reset, dismiss, edit | every service enqueues; the worker calls handlers and services | overlapping timer runs, crashes, lost answers, stale snapshots and caches | one holder per row, nothing lost silently, guarded events once, everything settles | **Outbox** |
| Stock reservations, requisitions, Store Outs (GR 475-506, 2005-2892, 25378-26165, 34456-36838) | `stock_balances.qty_reserved`, `qty_on_hand`, `requisitions`, `po_lines`, `po_line_purchases`, `project_material_issues` and lines | inventory check, approval, buying, coverage from stock, Finish Buying, completion, cancellation; create, fill, confirm, cancel a Store Out | balances shared by all requisitions; child purchase orders | stale checks before transactions; what is still reserved is derived, not stored | never reserve more than there is; each reserved unit promised once and released once | **Reservation** |
| Stock moves and adjustments (`services/inventory/src/routes/moves.ts`, migrations 008, 050, 254) | `stock_moves`, balances by trigger | move, adjust, receive | changes what reservations rely on | looks at on-hand only | on hand never negative except in transit | one step of Reservation |
| Purchase orders, receipts, returns (GR, `packages/workflow`) | `purchase_orders`, `po_receipts` | approve, buy, receive, complete, cancel, return | children of requisitions | state machine with approvals by role | no received order cancelled; quantities balance | child order in Reservation |
| Mobile sync (`apps/mobile/src/sync/SyncEngine.ts`, `services/gateway/src/routes/mobile-sync.ts`) | the device's queue; `offline_action_log` | queue, submit, replay check, decide, log | one device, the gateway, the desks that decide the same requests | lost answers, application killed mid-submit, batch limit, replay | each decision written once, and what the phone files is true | **MobileQueue** |
| Project invoices and receipts (`packages/billing`, `services/projects/src/routes`, GR 13286-13360, 27630-27960) | invoices, lines, `is_invoiced` flags, milestone status, receipts | draft, review, approve, issue, cancel, void, edit, receive | manufacturing, stock, rental (their flags); journals through the outbox | status tested before the transaction; a flag that several drafts share | each piece of work billed once; status, receipts and books agree | **Billing**, **Receivable** |
| Accounts payable (`services/finance/src/routes/vendor-invoices.ts`) | invoice, amount paid, payments | edit, submit, reject, approve, cancel, pay | journals through the outbox | outstanding amount read before the transaction that writes it; approve and journal apart | paid amount is the sum of the payments, and no more than is owed | **Payable** |
| Advances (`employee-advances.ts`) | advance, settlements, returns | issue, settle, return, void | claims, purchase order lines, journals | several documents draw on one balance; the lock is on the advance only | settled plus returned at most issued; books agree | **Advances**, which implements **Account** |
| Claims, petty cash (`expense-claims.ts`, `petty-cash.ts`) | claim, receipts, float balance | revise, approve, audit, pay; spend, replenish | a claim is paid from the float, a bank account or an advance | some movements lock the float, some do not | the float balances; a claim is paid once, as approved | **PettyCash** |
| Sessions and login (`services/auth/src/routes/auth.ts`) | failed attempts, sessions | login, second factor, refresh, revoke | every request | counter and limit read and written apart | the limits hold | hazard listed |
| Intercompany transfer (`services/worker/src/jobs/interco-stock-transfer.ts`) | `interco_stock_transfers`, moves | execute a detected move | an outbox handler | delivered twice, number by count | one transfer per move | not modelled |
| Rental billing, fx-sync, other jobs (`services/worker/src/jobs`) | invoices, rates, `job_runs` | daily and monthly runs | outbox | statements without a transaction | one invoice a month, with its journal | hazard listed |
| Payroll, leave, attendance (`services/hr`) | runs, payslips, requests | run, approve | deductions of advances; decisions by phone | two runs over one deduction | a deduction applied once | leave and overtime decisions in MobileQueue |
| Journals and periods, bank, budgets, assets, revaluation, retention (`services/finance`) | entries, periods | post, cancel, close | every financial document | arithmetic under a row lock | debits equal credits | not modelled |
| Document numbering (`packages/db/src/document-sequence.ts`) | sequence row | next number | every document | number taken outside the caller's transaction | unique | not modelled |
| Roles, permissions, companies; gateway plumbing, files, imports; notifications, e-mail, PDF, reporting; web and mobile screens | their own tables | look-ups, forms, formatting | | none over time | | not modelled |

`PROJECT.json` lists them all with the reason for each that is left out, and every hazard found in the code at its line,
with the properties that cover it, or why none does.

## 2. The plan

Each module has its MC module, a run with a mutant for every property, and a proof module where section 10 names one.

Done, in this order: **Outbox** (the table, the polling run, the dead letters), with **Lease**, what a queue of work promises,
as its abstract specification and MobileQueue's; **Reservation** (balances, requisitions,
Store Outs), with **Stock**, what a store promises, as its abstract specification; **MobileQueue** (a device's queue, the server's log, a lossy call); **Advances** and **Account**, its abstract
specification; **PettyCash** (the float and the claims); **Billing** and **Receivable** (a project's invoices up to the
journal, and from there to the last receipt); **Payable** (a vendor's invoice).

The modules compose through what one hands to the next, which is one row and never a call back: the issue of an invoice in
Billing is `Issue` of Receivable, the payment of a claim out of an advance in PettyCash (`PostPayment`) is
`SettleFromClaim` of Advances, and every journal that Billing, Receivable and Payable ask for is an `Enqueue` of Outbox, whose
`EventuallySettled` and `GuardedOnce` say what becomes of it. None of the receiving modules looks back at the sender's
state, so a product of two of them has no behaviour that the two do not have apart.

Left: **Sessions**, **Interco** and **Jobs** (rental billing, payroll deductions), three
small modules.

## 3. Outbox

`Outbox.tla`, `Lease.tla`, `MCOutbox.tla`, `Outbox_*.cfg`.

**What happens in the code.** A service inserts a row into `service_outbox` in the transaction that changes its own data. Every
five seconds the worker starts `processOutbox`, whether or not the last run has ended. A run claims up to twenty due rows
with `FOR UPDATE SKIP LOCKED`, sets them `processing` and counts the attempt in one transaction, then delivers them one by one
from the copy it has read. A failure schedules a retry or, at the limit, writes a dead letter and buries the row. An
administrator can retry a row or a letter, dismiss a letter, reset rows that are stuck, and edit the limits.

**State.** `outbox`, `letters` and `limit` are the tables. Per run of `processOutbox`: `pc`, where it stands in the loop;
`batch`, the rows it still holds with the attempts it read at the claim; `config`, the limit it uses for the row in hand.
`breaker` and `cache` are the worker's memory. `session` is what an administrator's request read before it writes. `applied`
counts how often the target carried an event out. `raced`, `concurrent` and `drifted` are history: the rows an administrator
moved under a run, the events two runs delivered at once, the rows whose limit is not the worker's.

**Actions.** `Enqueue`; the run's `Claim`, `FindNothing`, `Skip`, `Start`, `CheckJournal`, `Post`, `MarkDelivered`,
`Reschedule`, `WriteLetter`, `Bury`; `Fail` (a delivery or a statement fails), `Abort` (an error leaves the loop) and
`Crash`; time: `BecomeDue`, `GrowOld`, `FailureWindowEnds`, `OpenPeriodEnds`, `CacheExpires`; the administrator's
`ChooseRow`/`RetryRow`, `ChooseLetter`/`RetryLetter`, `Dismiss`, `ResetStuck`, `EditConfig`. One statement
of the code is one action, except that a single-statement read by the run itself is joined with the step after it when
nothing in between can be observed.

**Abstractions.** One target service and one event type, because breaker and limits are kept per service and per type and do
not read the others'. The delay before a retry is "not yet due" until time passes. A handler carries an event out in one
step; a guarded handler (`createInvoiceJournal`) first looks for the journal, outside its transaction. The REST twins of the
administrator's operations do the same reads and writes and are not repeated.

**Lease** says what such a table promises, whatever the statements that keep it: a task is taken while it is open, by a worker
when nobody else has it; only who holds it finishes it or opens it again; what is done stays done; a worker that dies leaves
his tasks taken by nobody; an operator may open tasks again, and those somebody held, or that were done, are `disturbed` from
then on. In `ImplementsLease` a row is a task, a run of `processOutbox` a worker that holds its batch, and `raced` is what is
disturbed. The claim's transaction is `Take`; `Skip`, `MarkDelivered`, `Reschedule` and `Bury` are `Return` of one row; `Abort` and
`Crash` are `Die`; the inserts of a service or of a retried letter are `Arrive`; an administrator's retry and reset are `Reopen`;
every other statement is a stutter. The attempts, the letters, the breaker and the caches have no counterpart in the lease.

| Run | Question | Properties | Bounds |
|---|---|---|---|
| `outbox_overlap` | two overlapping runs and an administrator | `OneHolder`, `GuardedOnce`, `ConcurrentOnlyByHand`, `DeliveredIsFinal`, `ImplementsLease` | 2 rows, 2 runs, 2 requests, limit 2 |
| `outbox_crash` | crashes and failing statements at any point, two rows in one claimed batch, limits edited while the cache is stale | `AttemptsMatchErrors`, `NoSilentLoss` | 2 events, 2 rows, limits 1 and 2, 1 outage, 1 edit, breaker opens at 1 |
| `outbox_live` | does every event settle? | `EventuallySettled` | 2 rows, 2 runs, limits 1 and 2, of which the worker's default is 2, 1 outage, 1 request |

Why the bounds are enough: two runs are what it takes to overlap and a third only repeats what the second can do to the
first; two rows are what it takes for one claimed row to wait while another is delivered, and for a retried letter to insert
its second row; a limit of 2 has a retry, a last attempt and the boundary between them; one outage can fall between any two
steps. `MaxRows`, `MaxOutages`, `MaxEdits` and `MaxRequests` cap what the environment does. `MaxLetters` caps the
dead letters: beyond it the run that would write one waits. It is reached late in a few behaviours only: with `MaxLetters = 4`
the same properties hold and the overlap, crash and live runs grow by at most 5% in states.

**Fairness** (`FairSpec`). Weak fairness of each run's `Step`: the timer keeps firing and Node keeps running what it started.
Weak fairness of `BecomeDue` and `OpenPeriodEnds`: the clock moves. Nobody is obliged to crash, fail, retry or reset, and a
delivery may fail each time. `EventuallySettled` therefore says that each committed event is carried out or has a dead letter,
and its exceptions are the three cases in which the code really leaves a row to a person: a crash orphaned it in
`processing`, which nothing but an administrator's reset moves; its own limit is below the one the worker goes by, a stale or the
default one, so that it was rescheduled when its attempts were used up and no run takes it again (`Stranded`,
`outbox-processor.ts:519`; in `outbox_live` a row inserted with limit 1 under a worker that falls back on 2); or a request raced
with a run.

## 4. Reservation

`Reservation.tla`, `Stock.tla`, `MCReservation.tla`, `Reservation_*.cfg`.

**What happens in the code.** At its inventory check a requisition reserves what the store can give
(`qty_reserved` rises, `po_lines.qty_from_stock` remembers). Approval drafts a Store Out for exactly that. What is missing is
bought, or later covered from stock, or marked short; Finish Buying forks a child purchase order for what was bought and the
requisition waits in `sourcing` until its Store Outs are confirmed and its child orders finished. Confirming a Store Out
takes the units off both quantities. Rejecting, cancelling, deleting a line or cancelling a Store Out gives back what is still
reserved, **which no column stores**: it is `qty_from_stock` less what is on Store Outs that are no longer drafts
(`Remaining`). The properties are mostly about that derived quantity.

**State.** `onHand` and `reserved` are the balance. `req[r]` is requisition `r` with its one stock line and its child order:
`ordered`, `stock` (`qty_from_stock`), `bought`, `short`, `closed` (the line, or the copy of it on the child order, given up
by a supervisor), `po` (the child order's status), `onPO` (the line itself moved to the child order). `so` and `item` are
Store Outs and their lines. `session[u]` is what a user's request read before its transaction. `taken` and `unusual` are
history.

**Actions.** An operation that tests something before its transaction and does not test it again inside is two actions,
`Ask...` and the transaction, so that others can act in between: purchase, short, coverage from stock, cancellation, adding
and deleting a Store Out line, confirming and cancelling a Store Out. `Buy` and `Cancel` repeat part of their tests under a
lock, as the code does. Operations that end in `reqTransition` test the status under the row's lock and are one step:
`SubmitToInventoryCheck`, `ConfirmInventoryCheck` (the confirmation names the line), `ConfirmOmitting` (it does not), `VerifyPrices`, `RejectToMarketPricing`, `Reject`, `Approve`. Also one
step: `RejectPurchase`, `FinishBuying`, `ReceiveChild`, `CompleteChild`, `CancelChild`, `CloseLine`, `CreateStoreOut`, and
`Adjust`, which stands for adjustments, moves and receipts of the product. `GiveUp` is a rollback or a request that dies.
`Cover` is `coverRequisitionStockLines`, called by `Approve` and `Resolve`; `Evaluated` is
`evaluateRequisitionCompletion`, called wherever the code calls it and nowhere else.

**The history `unusual`.** Some kinds of event make exceptions to the properties. They are named, each property lists the
kinds it excepts, and everything else must hold through them: `drained` (an adjustment takes reserved stock), `late` (a
request acts on a status or quantity that has changed), `rereleased` (a requisition returned to draft or inventory check is
cancelled while its line still carries a quantity), `redrafted` (a line with a cancelled draft is covered again),
`discarded` (a requisition's Store Out line is deleted), `byhand` (a line for a requisition's line is added by hand), `omitted` (a
confirmation of the inventory check leaves out a line that still carries the quantity of an earlier confirmation, whose
reservation was released with the rejection).
`late`, `rereleased`, `redrafted` and `omitted` are situations in which the code departs from what its comments promise (section 11).

**Stock.** What all this is for is said by `Stock.tla` in five actions: a unit in the store is free or promised to one
customer. `ImplementsStock` maps a requisition to a customer, `Available` to the free units, and to the promise `Promise(r)`: what
is covered from stock on the way to the approval, what the draft Store Out holds afterwards. `ConfirmInventoryCheck` and
a later coverage are `Reserve`; rejecting, cancelling a requisition before its Store Out is confirmed, and cancelling that Store Out are `Release`;
confirming a Store Out is `Deliver` of the whole promise, with the manual lines as the free units beside it, or `Count` where it
serves no requisition; `Adjust` is `Count`; buying, finishing, completing and the questions before a transaction are
stutters. An approval is a stutter too: the promise passes from the line to the Store Out that `Approve` drafts. Once anything is `unusual` a step is
`Disturb`, of which Stock says nothing.

| Run | Question | Properties | Bounds |
|---|---|---|---|
| `reservation_shared` | two requisitions and manual Store Outs on one balance | `ReservedWithinOnHand`, `PromisesKept`, `ImplementsStock` | 1 person, 1 Store Out, of a requisition or by hand, 1 line, orders of 2 units |
| `reservation_stale` | two people act on what they read before; Store Outs are cancelled and drafted again | `NeverOverbought`, `CoveredOnce`, `CompletesAfterIssue` | 1 requisition, 2 people, 2 Store Outs of the requisition and none by hand, 2 lines, orders of 2 units |

Why the bounds are enough: two units and orders of two are what it takes to be covered partly, bought partly or more than
fully covered; two requisitions are what it takes for one to release the other's units; two people for a stale request; two
Store Outs and two lines for an issued or cancelled one to be followed by another. `MaxUnusual = 1` lets a behaviour contain
one kind of unusual event, any number of times: two different kinds in one behaviour would only tell which of them
excused a property. Requisitions (and people, in `reservation_stale`) are interchangeable: symmetry is used for the
invariants, none of the liveness kind. `reservation_shared` has the `VIEW` `WhatIsRead`, which makes one state of those that differ only in what neither a later action
nor a property of that run reads: the history `taken`, what was ordered and bought once the buying is over, how a child order ended
once its requisition has. `CHECK_DEADLOCK FALSE`: once every requisition and Store Out is final and the bounds
are used up the system may stop.

**Abstractions.** One location and one stock line per requisition; market pricing and price verification are one status
(`pricing`) because they move no stock and both can be rejected to the same statuses; several vendors are one child order;
what approvals by role, receipts of photographs and over-tolerance sign-off do is to delay `FinishBuying`, which may then be
taken later. A transaction is one step, so two evaluations of completion in transactions that do not see each other's writes are not
modelled. The rejection of a purchase, too, is one step: what its read before the transaction could miss, an approval of the
purchase, is no part of the state, and once the buying has ended nothing reads `bought`.

**What `NeverOverbought` promises.** Two buyers may overtake each other in every way, because the second looks again under the
lock of the line. The store's coverage does not look again (GR 36520-36578): `Resolve` counts as `late`, and ends the promise, when
what was bought, what is covered or the status is no longer what `AskResolve` had read. Two coverages, or a purchase and a
coverage, that overlap can thus exceed the order, and the property does not deny it; that a coverage whose line did not change
never does is part of it, and of its proof (`Asked`).

## 5. Advances and Account

`Advances.tla`, `Account.tla`, `MCAdvances.tla`, `Advances_clear.cfg`.

**What happens in the code.** An advance is money handed to an employee. It is cleared by settlements and returns, by the
lines of purchase orders it paid, and by an expense claim posted against it. Each way compares with `outstanding_amount`, a
generated column, under `FOR UPDATE OF a`, the row of the advance. The approval of a document joins the document in the same query
but does not lock it: PostgreSQL takes the snapshot, waits for the advance, and rechecks the advance's columns only.

**State.** `adv` is the row of `employee_advances`, `doc` the settlements and returns, `po` which settlement paid a purchase
order line. `lock` is the row lock where it lasts over several steps, `work` what a request has read. `issued`, `credited` and
`posted` are the journals. `late` and `overlapped` are history.

**Actions.** The life of the advance (`CreateAdvance` to `VoidAdvance`), of a document before its approval (`CreateSettlement`
to `CancelReturn`), and the three ways to clear: the approval in three steps (`ReadForApproval` the snapshot,
`LockForApproval` the lock with the recheck, `FinishApproval` or `RollBack`), `SettleFromPOLines`, `SettleFromClaim`. The
edits of an advance and of a document test the status before they write and are two steps.

**Account** says what such money promises, in five lines: opened once with a limit, each withdrawal fits into what is left
at that moment, closed only untouched. Advances implements it: the refinement mapping takes `adv.amount` for the limit and
settled plus returned for what is spent, and `ImplementsAccount` is checked and proved.

| Run | Question | Properties | Bounds |
|---|---|---|---|
| `advances_clear` | two people approve, edit and settle while claims and purchase orders draw on the advance | `NeverOverdrawn`, `StatusTellsBalance`, `PostedAsApproved`, `PostedOnce`, `LinesSettledOnce`, `ImplementsAccount` | 2 documents, 2 lines, 2 people, amounts to 3, 1 late edit |

Amounts to 3 have a partial, an exact and an excessive clearing; two documents and two people are what it takes to overlap;
documents, people and lines are interchangeable. The exceptions in the properties are what the code lets through: an edit
that comes after the status has moved on (`late`), and one document approved twice by two overlapping approvals
(`overlapped`), which the lock on the advance makes wait but not fail. Purchase order lines have price 1; the currencies of claims and the
lines of a settlement (its total stands for their sum) are abstracted.

## 6. PettyCash

`PettyCash.tla`, `MCPettyCash.tla`, `PettyCash_paid.cfg`.

**What happens in the code.** A direct spend and the approval of a replenishment read `current_balance`, compute the new
one in the program, and write it in a later transaction. The payment of a claim locks claim and float. Before that a claim
is drafted, revised, submitted, approved, audited or sent back, each a statement guarded by the status; only `pass-audit` looks for the
receipt first and updates afterwards.

**State and actions.** `float` is the row; `moved` sums `petty_cash_transactions`; `tops` are the replenishments; `claims`
have their total, whether they were filed without a receipt (`pending`) and whether they have one. `Ask...` and the write
are two actions where the code reads first. `AttachFile` and `DetachFile` are the gateway's mutations, which do not look at the
claim's status. `posts`, `paid`, `approved`, `crossed`, `late`, `unproved` are history.

| Run | Question | Properties | Bounds |
|---|---|---|---|
| `petty_cash` | spending, top-ups and the payment of a claim meet on one float | `BalanceTellsMovements`, `ToppedOnce`, `PaidAsApproved`, `ProvenBeforePaid` | 1 float, 1 claim, 1 replenishment, 2 people, amounts to 2, 3 movements |

Two people are what it takes to overlap; three movements let a claim be paid between a spend and a top-up. `PaidAsApproved`
and the locked payment hold without exception. What is left out: the lines of a claim and their currencies (which the code
does not compare with the float's), the accounts of the journals, and payment vouchers, which may name a float and do not
touch its balance.

## 7. Billing and Receivable

`Billing.tla`, `MCBilling.tla`, `Billing_contract.cfg`, `Billing_again.cfg`; `Receivable.tla`, `MCReceivable.tla`,
`Receivable_paid.cfg`.

**What happens in the code.** An invoice bills sources: a reached milestone, or a finished cost (a manufacturing order, a
purchase receipt, a stock issue, a rental). A draft lists them and marks nothing. `approve` marks them, `cancel`
unmarks them, `void` leaves them marked; all three test the invoice's status before their transaction and write by id. The test of
`cancel` and `void` refuses what is issued, partial or paid, and lets a cancelled invoice be cancelled again (`invoices.ts:790`).
`issue` tests the status in its own `UPDATE` and asks for the journal. The gateway has a second set of mutations for
drafting, editing, voiding and for receipts, with fewer tests. After the issue, receipts come in through the projects service, which counts what
the customer withholds as tax and asks for a journal, and through the gateway, which does neither.

**State.** Billing: `inv` (status and the sources listed), `src` (status of a milestone, flag of a cost), `journals` (how often one
was asked for), `work`; `stale` notes which invoices which requests wrote to after what they had read had changed, `blurred` which
sources one of the five events listed below has touched. Receivable: one invoice, `paid`, `booked` (both sides of the receivable).

**Actions.** Billing has one per handler, more where the handler reads first: `AskApprove` and `AskClose` read the status,
`ReadLines` the lines, `Approve` and `CancelInvoice` write; `VoidProjectInvoice` follows `AskClose`, and `Reach` follows `AskReach`. Receivable has `Issue`, `AskReceive`/`Receive`,
`AskRecordPayment` with `RecordPayment` and `RecordPaymentStatus` (the gateway's two statements), `AskEdit`/`UpdateProjectInvoice`.

| Run | Question | Properties | Bounds |
|---|---|---|---|
| `billing_contract` | two invoices over the same work, requests that overtake each other | `JournalTellsIssued`, `JournalOnce`, `FlagTellsBilled`, `BilledOnce` | 2 invoices, 1 milestone, 1 cost, 2 people, 1 overtaken write |
| `billing_again` | "approved MO cannot be added to a second invoice - is_invoiced flag blocks it" | `ApprovedNotAddedAgain`, violated | 3 invoices, 1 person |
| `receivable_paid` | receipts by two ways, and edits in any status | `StatusTellsPaid`, `NeverOverpaid`, `PaidClearsReceivable` | 1 invoice, 2 people, amounts to 3, 3 receipts, 2 edits |

**What is excepted in `FlagTellsBilled` and `BilledOnce`.** The flag of a source is trusted until one of five events touches it, all of
which the code lets through: a draft lists it that another draft, or one in review, lists too (nothing marks it until an
approval); the gateway is sent it as a line although it is marked; a request on an invoice that lists it, or on the milestone, writes
after what it had read has changed; an edit takes it off an invoice while it is marked; a closed invoice that lists it is cancelled
again. Listing a source that an approved, issued or void invoice marks is not among them: that the service never builds such a
draft, and that cancelling leaves the flag right for the next one, is what the two properties check. A change that ignores
the flag when it builds lines is found at once (mutant `CostPlusOfAll`).

`PaidClearsReceivable` says what the journals of a paid invoice add up to: each receipt's journal credits the receivable with the cash and
with the whole tax the customer withholds (`outbox-processor.ts:810`), so the sum is what was debited, and the tax once more for
each receipt after the first. With no tax, or with one receipt, nothing is left. Receipts of the gateway and edits after the
journal are in no book, and overlapping receipts exceed the invoice: these are excepted by name.

Two invoices are what it takes to bill a source twice, two people to overtake; one overtaken write per behaviour shows what each
kind does alone. `SomeTrusted` (a `CONSTRAINT`) ends a behaviour when both sources are `blurred`: the two properties on flags say
nothing from there on, and the two on journals hold whatever the lines are, which the proofs show without the bound. Amounts to 3 allow a partial, an exact and an excessive receipt, and a tax that is not nothing nor all. Left out:
progress billing and retention (arithmetic over percentages), the amounts of lines in Billing, currencies.

## 8. Payable

`Payable.tla`, `MCPayable.tla`, `Payable_paid.cfg`.

**What happens in the code.** A vendor's invoice is drafted, edited, submitted, rejected or approved, and paid.
`approve` tests the status in its `UPDATE`, commits, and asks for the journal in a second transaction. Every other handler reads
the invoice, answers 400 on a wrong status, and writes by id; a payment also writes `amount_paid` and the status from what it read.
The worker's journal of a payment debits the payment and its share of the withheld tax.

**State and actions.** `inv`, `rows` (the sum of `vendor_payments`), `journals`, `booked` (both sides of the payable), `work`.
`Ask...` and the write are two actions; `Approve` and `RequestJournal` are apart, and `Stop` (the finance service dies) may come
between them. `stale` names the kinds of request that wrote after what they had read changed, `lost` that the service stopped
before it asked for the journal.

| Run | Question | Properties | Bounds |
|---|---|---|---|
| `payable_paid` | two people, overtaken requests, a stop between approval and journal | `TypeOK`, `JournalPerApproval`, `PaidOnce`, `StatusTellsPaid`, `PaidClearsPayable` | 1 invoice, 2 people, net to 3, tax to 2, 3 payments, 2 overtaken writes |

Amounts are in cents, `ProportionalTax` is `Math.round` of the share. Three payments of a net of 3 are the case in which each share
is rounded. Left out: the lines, the match with the purchase order, the REST and the GraphQL look-ups.

## 9. MobileQueue

`MobileQueue.tla`, `Lease.tla`, `MCMobileQueue.tla`, `Mobile_queue.cfg`.

**What happens in the code.** A decision taken on the phone is a row of the phone's `offline_queue`. A timer every 15
minutes posts all rows that are `pending` or `failed`, having marked them `submitting`. The gateway takes at most fifty in one
post and handles them in order, each in four statements of their own: has it been logged, is the request still pending, the write,
the log. The answer's results are filed in the queue. The same requests are decided by the HR service, by the
gateway's mutations (which do not look at the status) and cancelled by the employee.

**State and actions.** `queue` is the phone's table, `engine` the post its memory waits for, `post` what is on its way or being
handled, `actionLog` the gateway's log, `request` the requests. The phone: `QueueAction`, `SubmitQueue`, `HearAnswer`,
`PostFails` (the phone gives up, whatever becomes of the post), `KillApp`. The gateway: `LookForDuplicate`, `ReadRequest`,
`WriteDecision`, `WriteLog`, and `DropPost` (lost on its way, a failed statement, a stop). The desks: `DecideInHR`,
`DecideInGateway`, `CancelLeaveRequest`. An action about no request stands for the kinds the gateway always rejects because the
phone sends them without what it requires (material issues, punches, usage logs, condition reports).

The phone's table keeps the promise of **Lease** too (`ImplementsLease`, section 3), with the engine's memory as its only worker: it holds
the items of the post it waits for (`Waiting`). `SubmitQueue` is `Take`, `HearAnswer` and `PostFails` are `Return`, `KillApp` is
`Die`, `QueueAction` is `Arrive`, there is no operator, and what the gateway and the desks do is a stutter: in particular the
gateway, going on with a post after the phone gave it up, files nothing.

| Run | Question | Properties | Bounds |
|---|---|---|---|
| `mobile_queue` | lost answers, overlapping posts, a killed app, a queue larger than one post | `FiledTruthfully`, `WrittenOnce`, `EventuallyFiled`, `ImplementsLease` | 1 request, 3 actions, posts of at most 2, 2 posts at once, 1 fault |

The batch limit of fifty is 2 here, and three actions exceed it. One fault can fall between any two steps; two posts
are what it takes to overlap.

**Fairness** (`FairSpec`). Weak fairness of `SubmitQueue` (the timer), of `HearAnswer` and of the error answer to a refused post (a
fetch that was answered resolves), and of each post's `Handle` (Node goes on with a request it has). Nobody has to decide,
lose or kill anything. `EventuallyFiled` excepts the two situations from which the code does not recover by itself: the application
was killed while it waited (the rows stay `submitting`, which no query selects again), and the queue has outgrown one post.

## 10. Proofs

`OutboxProofs`, `ReservationProofs`, `AdvancesProofs`, `PettyCashProofs`, `BillingProofs`,
`ReceivableProofs`, `PayableProofs`, `MobileQueueProofs`, from the assumption `ConstantsAssumption` of each
module alone: the bounds are arbitrary natural numbers, the sets of runs, people, events, requisitions, documents are arbitrary
(the purchase order lines of Advances and the requisitions of Reservation are finitely many).

- `Outbox`: **TypeCorrect** (`[]TypeOK`). **OneHolderAlways** (`[]OneHolder`): not inductive by itself, because a row could
  be claimed again if it were not `processing` while held; the invariant proved is `HolderInv`, that is `TypeOK`,
  `HeldIsProcessing` and `OneHolder` together. **DeliveredFinal** (`DeliveredIsFinal`), an action property from the same
  invariant: a late statement of another run would need a held row that is `delivered`. **GuardedOnceAlways**
  (`[]GuardedOnce`): needs what a run inside `deliverEvent` knows (`DeliveryInv`): if it is past the look-up, the event
  has not been carried out or two runs were at it. The invariant is `DeliverOnce` = `HolderInv`, `DeliveryInv`,
  `GuardedOnce`.
  **ConcurrentOnlyByHandAlways** (`[]ConcurrentOnlyByHand`), from `HandInv`: an event has a second row only when a dead letter
  of it was retried, so two runs at one event without that would be two holders of one row. **AttemptsMatchErrorsAlways** and
  **NoSilentLossAlways** both follow from `CountInv`: the attempts of every row nobody excused are accounted for (`Accounted`),
  because a run knows the counters of the rows it claimed and, between the two statements of `routeToDLQ`, that the letter
  is already written (`Knows`).
  **OutboxIsALease** (`ImplementsLease`), the refinement: `Init` maps to `Init`, and each step to the step of Lease named in section
  3, or to a stutter. `Take` needs `HolderInv` (what is claimed is held by nobody, or disturbed), `Return` needs that the row in
  hand is `processing`, `Reopen` the part of `HandInv` that says which row a request has read.
- `Reservation`: **TypeCorrect** (`[]TypeOK`), which contains that neither quantity falls below zero: `Enough` guards the
  confirmations and the floor of `Less` guards the releases. **ReservedWithinOnHandAlways** (`[]ReservedWithinOnHand`),
  inductive together with `TypeOK`: reservations are guarded by what is available under the balance's lock, a linked
  Store Out lowers both quantities by the same amount, a manual one takes only what is available, every release only lowers
  `reserved`, and an adjustment below it is `drained`.
  **NeverOverboughtAlways** (`[]NeverOverbought`), from `BuyInv`: nothing is bought before the approval, a
  buyer tests what is left under the line's lock (`Within`), and what a coverage will write fits into the order with what it has
  read (`Asked`), so that it exceeds the order only where the line has changed since.
  **CoveredOnceAlways** (`[]CoveredOnce`) and **CompletesAfterIssueAlways** (`[]CompletesAfterIssue`), both from `CoverInv`, the first with
  a lemma on `TakenOnce` (a Store Out that is absent or a draft has taken nothing). The
  sum `CoveredOnce` speaks of is not kept by the steps alone: `Placed` says where lines are (a line for a requisition is on a
  Store Out of it, and no line on an absent one), `OneDraft` that a requisition has one draft at most with a line of its own on
  it, so that to release all of a requisition is to release what its draft holds, `LineSound` that before the approval there
  is no line, afterwards the lines hold what is covered, and once cancelled no draft is left, and `Cancelling` that nobody
  asks to cancel what is over.
  **PromisesKeptAlways** (`[]PromisesKept`), from `PromiseInv`: `reserved` is the sum of one `Promise` per requisition, what is
  covered from stock while it is on its way to approval, what its draft Store Out holds afterwards. Each step changes the promise
  of one requisition, and `reserved` by the same amount; by `CoverInv` what the code derives and releases (`Remaining`) is that
  promise, so that a confirmation or a cancellation gives back neither more nor less.
  **ReservationIsAStore** (`ImplementsStock`), the refinement: each step keeps every promise, or raises or ends one (`PromiseMoves`,
  which `PromisesKept` rests on as well), and `Available` moves by that amount; that it stays a natural number is
  `ReservedWithinOnHand`.
- `Advances`: **AdvanceIsAnAccount** (the refinement: `Init` maps to `Init`, every step to a step of Account or a stutter) and
  **LedgerAlwaysAgrees**, **NeverOverdrawnAlways**, **StatusAlwaysTellsBalance**, **AlwaysPostedAsApproved**,
  **AlwaysPostedOnce**, **LinesAlwaysSettledOnce**, **TypeCorrect**. They rest on one inductive invariant: settled plus returned is what
  was credited; a request that is `locked` holds the lock, has read an amount that still fits, and nobody else is between lock
  and write; what a request has read of a document is the document's total unless it is `late`; a document that is approved
  was posted.
- `PettyCash`: **TypeCorrect**, **BalanceAlwaysTellsMovements**, **AlwaysToppedOnce**, **AlwaysPaidAsApproved**,
  **AlwaysProvenBeforePaid**. Inductive with: the total of an approved or audited claim is the approved one; a request that found
  the receipt still has it unless the claim is `unproved`; a spend that still sees the balance it read fits into it.
- `Billing`: **TypeCorrect**, **JournalAlwaysTellsIssued**, **AlwaysJournalOnce**, **FlagAlwaysTellsBilled**, **AlwaysBilledOnce**.
  Inductive with: a request that approves has read an invoice in review, one that closes has read one that is not live; until an
  approval is overtaken an invoice that can still be issued has no journal (`ApprovedOnce`); an invoice with a journal is
  issued where its lines are not blurred (`Live`); a source that is not blurred is on one invoice at most that is a draft, in
  review, approved or issued (`OneClaim`). The last is kept by the flags: by `FlagTellsBilled` (`Flagged`) a source on an invoice that is approved or issued
  is marked, so no draft is built on it, and the only way to a second draft beside a draft is the first of the five events.
  `BilledOnce` follows from `Live` and `OneClaim`.
- `Receivable`: **TypeCorrect**, **StatusAlwaysTellsPaid**, **AlwaysNeverOverpaid**, **PaidAlwaysClearsReceivable**. Inductive with:
  what a receipt is about to write fitted into what its request has read; nothing was received on an invoice that is not
  issued; the books hold the net on one side and, on the other, the cash received and the tax once for each receipt (`BooksSound`).
- `Payable`: **TypeCorrect**, **AlwaysPaidOnce**, **StatusAlwaysTellsPaid**, **AlwaysJournalPerApproval**, **PaidAlwaysClearsPayable**.
  Inductive with: what a payment has read and fitted into; journals are approvals less those asked for, lost or reopened; and
  a bound on rounding, `2 * net * (tax booked)` stays within `net` per payment of `2 * tax * (cash paid)`, from which the
  payable of a paid invoice is cleared but for half a unit per payment.
- `MobileQueue`: **TypeCorrect**, **AlwaysWrittenOnce**, **AlwaysFiledTruthfully** (without fairness). Inductive with: only the first
  item of what is left of a post may have a result (`PostSound`); a decision that was written left its request decided
  (`Decided`), so the gateway's read stops a second write even where the log row is missing; an item none of whose answers was
  missed is in one post at most, whose result says whether it was written (`Filing`). **PhoneIsALease** (`ImplementsLease`): `Return`
  and the stutters of the gateway's loop need `PostSound`, by which an item leaves a post's list only with a result, so that the
  phone goes on waiting for it.

Each proof has a lemma per group of actions that a conjunct can be disturbed by, and lemmas on the operators (`Advance`,
`Less`, `Cover`, `Evaluated`, `Clear`, `Post`) where several actions use them.

Sums are counted: the `Total` of a quantity over a set is the number of its units, one pair for each unit of each
element (`Units`). What a fold computes is an induction over the set, beyond the provers, while the library knows cardinalities; so the
lemmas the proofs of Reservation rest on (the sum of a set with one element more or changed, of a subset, of a disjoint union)
are proved, and `TotalIsASum` in `MCReservation` has TLC compare the count with the sum of the community modules.

## 11. What the checks found

One run checks a sentence of the repository and is expected to be violated; `PROJECT.json` quotes the sentence and the code.

| Run | Sentence | What happens |
|---|---|---|
| `billing_again` | "approved MO cannot be added to a second invoice - is_invoiced flag blocks it" (`services/projects/tests/invoicing.test.ts:577`) | two drafts list one manufacturing order; one is approved, the other cancelled; the cancellation clears the flag, and the next invoice bills the order again |

Other divergences met on the way. The properties that they would break except them by name, through a history variable, so that
a reader sees exactly what they excuse.

- Outbox: a reset measures from the first attempt and hits rows that are being delivered (GR 13280; `raced`); a row whose limit
  differs from the worker's cached one can exhaust its attempts without a letter and never be taken again, or be polled again after it was buried
  (`outbox-processor.ts:519`; `drifted`); two administrators can retry one letter (GR 13231); `POST /admin/outbox/stuck/reset`
  (`admin-outbox.ts:249`) names a column `service_outbox` does not have and always fails.
- Reservation: a rejected requisition keeps `qty_from_stock`, and a later cancellation releases it again (`rereleased`); a cancelled
  draft's units are drafted again without being reserved again (`redrafted`); two stale coverages overwrite each other, and a Store Out
  that is read as a draft twice is confirmed twice (`late`); a confirmation that leaves out a line keeps its old `qty_from_stock`, which
  nothing reserves any more (GR 34803; `omitted`); a coverage and a purchase that overlap exceed the order (GR 36520; `late`); Finish Buying does not evaluate completion (GR 2664).
- Advances: a settlement is posted twice by two overlapping approvals (`employee-advances.ts:1772`; `overlapped`); an edit that comes
  late changes an issued advance or an approved document (`late`).
- PettyCash: a spend or a top-up overwrites a movement that came between its read and its write (`crossed`), two
  approvals post one replenishment twice (`late`), a spend does not ask whether the float is active, a receipt can be detached from a
  claim in any status (`unproved`).
- Billing: an approval or a closing that comes late brings an issued invoice back, or closes it (`stale`); two drafts on one source
  can both be approved, or one approved and one cancelled, which is the run above; a closed invoice can be cancelled again, and frees
  what an approved invoice has marked since (`invoices.ts:790`); an edit of a marked invoice
  forgets the flags of the lines it drops (all `blurred`); a void keeps its sources marked, so their work is never billed.
- Receivable: two overlapping receipts exceed the invoice (`overlap`); each receipt's journal credits the whole tax that the customer
  withholds (`outbox-processor.ts:810`); a receipt through the gateway is not booked (`offBooks`), and neither is a later edit (`revised`).
- Payable: two overlapping payments lose one from `amount_paid`, and a submit or a reject that comes late reopens an approved invoice
  for a second journal (`stale`); a stop between the approval and its journal leaves an approved invoice without one (`lost`).
- MobileQueue: an action that was refused but whose answer was lost comes back as `duplicate` and is filed as submitted (`unheard`);
  two posts with one action write it twice (`overlapped`); the app killed in mid-submit strands its rows; more than fifty
  actions are refused forever.

## 12. What is only model-checked, and what is not modelled

Only model-checked, on the bounds above: `EventuallySettled` and `EventuallyFiled` (liveness under fairness is beyond TLAPS), and
`TotalIsASum`, which is an induction. Every other property of the passing runs is proved, the refinements of Account, Lease and Stock among them.

Not modelled in Outbox: handler bodies beyond the guard, mails, the arithmetic of the backoff, other services and types.
Not modelled in Reservation: a second location (a later coverage may overwrite `source_location_id`), material returns, edit
requests that release a line's reservation, substituted products, the older purchase-order path
(`confirmPOInventoryCheck`), Store Outs that cross companies, and costs. What sections 5 to
9 leave out is named there. Other components: section 1 and `PROJECT.json`. Roles and permissions, numbering, plumbing,
formatting and screens have no behaviour over time to check; sessions, the intercompany transfer, rental billing and payroll
have (their hazards are listed) and are left for later modules.

PostgreSQL is taken as it is: a statement is atomic, `FOR UPDATE` holds to the end of the transaction, a transaction that
fails leaves nothing.

## 13. Running

    tlc -workers 2 -config Outbox_overlap.cfg MCOutbox           (also Outbox_crash.cfg, Outbox_live.cfg)
    tlc -workers 2 -config Reservation_stale.cfg MCReservation   (also Reservation_shared.cfg)
    tlc -workers 2 -config Advances_clear.cfg MCAdvances
    tlc -workers 2 -config PettyCash_paid.cfg MCPettyCash
    tlc -workers 2 -config Billing_contract.cfg MCBilling        (also Billing_again.cfg)
    tlc -workers 2 -config Receivable_paid.cfg MCReceivable
    tlc -workers 2 -config Payable_paid.cfg MCPayable
    tlc -workers 2 -config Mobile_queue.cfg MCMobileQueue
    tlapm AdvancesProofs.tla                                     (and the other *Proofs.tla)

The largest runs take about two minutes with two workers, the proofs a few minutes from nothing.
