---------------------------- MODULE PaymentLedger ----------------------------
(***************************************************************************)
(* One fee invoice of the university server and everything that moves its  *)
(* money: payment attempts through the bKash gateway, their callbacks and  *)
(* manual re-verification, refunds, corrections, cancellation and late     *)
(* fees (src/app/module/payment/payment.service.ts and                     *)
(* src/app/module/invoice/invoice.service.ts).                             *)
(*                                                                         *)
(* Requests are served concurrently.  What one database transaction does   *)
(* under the row lock of the invoice (lockInvoice) is one action; every    *)
(* statement outside such a transaction, and every call to the gateway, is *)
(* an action of its own, with what the handler read before it kept in the  *)
(* handler's own record.  A handler may die between any two of its         *)
(* actions: the server keeps nothing of it but the database.               *)
(*                                                                         *)
(* recomputeInvoice aborts its transaction when the installments do not    *)
(* add up to the payable amount.  No action has that abort: LedgerAddsUp,  *)
(* checked and stated below, says that it can never be reached.            *)
(***************************************************************************)
EXTENDS Billing, FiniteSets

CONSTANTS
  InitialAmounts,  \* the installments of the invoice when it is issued
  InvoiceType,     \* "ADMISSION", "SEMESTER", "APPLICATION" or "ID_CARD"
  AllowPartial,    \* plan.allowPartialPayment
  LateFeeType,     \* plan.lateFeeType: "NONE", "FIXED" or "PERCENT"
  LateFeeValue,    \* plan.lateFeeValue
  Attempts,        \* ids of payment attempts (PaymentTransaction rows)
  Handlers,        \* request handlers: initPayment, bkashCallback, verify
  Refunds,         \* ids of refund requests (Refund rows and their handlers)
  LateRuns,        \* runs of applyLateFees that may overlap
  Deltas,          \* signed amounts an administrator may adjust by
  MaxPayable,      \* bound on what adjustments may raise the invoice to
  CaptureDrift,    \* by how much a capture may differ from the amount asked
  NoAttempt        \* the attempt of an idle handler

ASSUME LedgerAssumption ==
  /\ InitialAmounts \in [Numbers -> Nat]
  /\ InvoiceType \in {"ADMISSION", "SEMESTER", "APPLICATION", "ID_CARD"}
  /\ AllowPartial \in BOOLEAN
  /\ LateFeeType \in {"NONE", "FIXED", "PERCENT"}
  /\ LateFeeValue \in Nat
  /\ Deltas \subseteq Int
  /\ MaxPayable \in Nat
  /\ CaptureDrift \subseteq Int
  /\ NoAttempt \notin Attempts
  /\ IsFiniteSet(Attempts) /\ IsFiniteSet(Refunds)

VARIABLES
  schedule,      \* Installment rows: amount and paidAmount
  invoice,       \* FeeInvoice row: status, payable, paid, refunded
  adjustment,    \* sum of the InvoiceAdjustment rows since the issue
  lateFees,      \* installments that have a LATE_FEE adjustment (unique key)
  overdue,       \* installments whose due date and grace days have passed
  confirmed,     \* StudentProfile.admissionConfirmedAt is set
  tx,            \* PaymentTransaction rows, with their PaymentAllocation rows
  refund,        \* Refund rows
  handler,       \* the payment handlers: where they are, what they hold
  refunding,     \* where the handler of each refund request is
  charging,      \* the late-fee runs: the fees each has still to book
  gateway,       \* external: bKash's record of each payment
  gatewayRefunds \* external: the refunds bKash has carried out

ledgerVars == <<schedule, invoice, adjustment, lateFees, confirmed>>
gatewayVars == <<gateway, gatewayRefunds>>
vars == <<ledgerVars, overdue, tx, refund, handler, refunding, charging,
          gatewayVars>>

-----------------------------------------------------------------------------
Nobody == [i \in Numbers |-> 0]

TransactionStatus ==
  {"NONE", "INITIATED", "PENDING", "SUCCESS", "FAILED", "CANCELLED", "REFUNDED"}
InvoiceStatus == {"UNPAID", "PARTIALLY_PAID", "PAID", "CANCELLED"}
RefundStatus  == {"NONE", "PENDING", "SUCCESS", "FAILED"}
HandlerStep   == {"idle", "creating", "marking", "abandoning", "executing",
                  "querying", "verifying", "settling"}
RefundStep    == {"new", "calling", "failing", "booking", "done"}

FeeInvoice == [status : InvoiceStatus, payable : Int, paid : Int, refunded : Nat]
PaymentTransaction == [status : TransactionStatus, amount : Nat, excess : Nat,
                       refunded : Nat, alloc : [Numbers -> Nat]]
RefundRow == [status : RefundStatus, tx : Attempts \cup {NoAttempt},
              amount : Nat, reverseCharge : BOOLEAN]
HandlerRecord == [step : HandlerStep, tx : Attempts \cup {NoAttempt}, amount : Nat]
GatewayRecord == [state : {"created", "approved", "completed"}, captured : Nat]

\* The schedule is a well-formed one, statuses are those of the source, and
\* what a handler or a late-fee run remembers is money of the right kind.
TypeOK ==
  /\ schedule \in Schedules
  /\ invoice \in FeeInvoice
  /\ adjustment \in Int
  /\ lateFees \subseteq Numbers
  /\ overdue \subseteq Numbers
  /\ confirmed \in BOOLEAN
  /\ tx \in [Attempts -> PaymentTransaction]
  /\ refund \in [Refunds -> RefundRow]
  /\ handler \in [Handlers -> HandlerRecord]
  /\ refunding \in [Refunds -> RefundStep]
  /\ charging \in [LateRuns -> [Numbers -> Nat]]
  /\ gateway \in [Attempts -> GatewayRecord]
  /\ gatewayRefunds \subseteq Refunds

-----------------------------------------------------------------------------
(***************************************************************************)
(* The invoice row.                                                        *)
(***************************************************************************)

subtotal == Total(InitialAmounts)

\* Mutant: the status is not derived again.
Recomputed_KeepsStatus(s, adj, inv) ==
  [inv EXCEPT !.payable = computePayable(subtotal, 0, adj), !.paid = Total(Paids(s))]

\* Mutant: that the invoice was cancelled is not looked at.
Recomputed_Revives(s, adj, inv) ==
  LET payable == computePayable(subtotal, 0, adj)
      paid    == Total(Paids(s))
  IN  [inv EXCEPT !.payable = payable, !.paid = paid,
                  !.status = deriveInvoiceStatus(payable, paid, FALSE)]

\* recomputeInvoice: the row derived again from the child rows.
Recomputed(s, adj, inv) ==
  LET payable == computePayable(subtotal, 0, adj)
      paid    == Total(Paids(s))
  IN  [inv EXCEPT !.payable = payable,
                  !.paid    = paid,
                  !.status  = deriveInvoiceStatus(payable, paid,
                                                  inv.status = "CANCELLED")]

Idle == [step |-> "idle", tx |-> NoAttempt, amount |-> 0]

\* createInvoiceRecord; waivers are part of the amounts it issues.
Init ==
  /\ schedule = [i \in Numbers |-> [amount |-> InitialAmounts[i], paid |-> 0]]
  /\ invoice = [status |-> IF subtotal = 0 THEN "PAID" ELSE "UNPAID",
                payable |-> subtotal, paid |-> 0, refunded |-> 0]
  /\ adjustment = 0
  /\ lateFees = {}
  /\ overdue = {}
  /\ confirmed = FALSE
  /\ tx = [t \in Attempts |-> [status |-> "NONE", amount |-> 0, excess |-> 0,
                               refunded |-> 0, alloc |-> Nobody]]
  /\ refund = [r \in Refunds |-> [status |-> "NONE", tx |-> NoAttempt,
                                  amount |-> 0, reverseCharge |-> FALSE]]
  /\ handler = [h \in Handlers |-> Idle]
  /\ refunding = [r \in Refunds |-> "new"]
  /\ charging = [l \in LateRuns |-> Nobody]
  /\ gateway = [t \in Attempts |-> [state |-> "created", captured |-> 0]]
  /\ gatewayRefunds = {}

-----------------------------------------------------------------------------
(***************************************************************************)
(* initPayment.                                                            *)
(***************************************************************************)

Become(h, step, t, amount) ==
  handler' = [handler EXCEPT ![h] = [step |-> step, tx |-> t, amount |-> amount]]
Finish(h) == handler' = [handler EXCEPT ![h] = Idle]
Move(h, from, to) ==
  /\ handler[h].step = from
  /\ handler' = [handler EXCEPT ![h].step = to]

\* createPayment is under way for t: bKash gives every request an id of its own.
BeingCreated(t) == \E h \in Handlers : handler[h].step = "creating" /\ handler[h].tx = t

\* The invoice is read without a lock and the amount decided from what was
\* read: any amount the student asks for that planPayment lets through.
InitPaymentRead(h, t) ==
  /\ handler[h].step = "idle"
  /\ tx[t].status = "NONE" /\ ~BeingCreated(t)
  /\ invoice.status \notin {"CANCELLED", "PAID"}
  /\ \E amount \in 1..Outstanding(schedule) :
       /\ planPayment(schedule, amount, AllowPartial)
       /\ Become(h, "creating", t, amount)
  /\ UNCHANGED <<ledgerVars, overdue, tx, refund, refunding, charging, gatewayVars>>

\* bKash has created the payment; the row is inserted with the amount decided
\* on earlier, whatever became of the invoice since.
InitPaymentInsert(h) ==
  LET t == handler[h].tx
  IN  /\ handler[h].step = "creating"
      /\ tx' = [tx EXCEPT ![t].status = "INITIATED", ![t].amount = handler[h].amount]
      /\ Finish(h)
      /\ UNCHANGED <<ledgerVars, overdue, refund, refunding, charging, gatewayVars>>

-----------------------------------------------------------------------------
(***************************************************************************)
(* bKash, as seen through src/app/lib/bkash.ts (external).                 *)
(***************************************************************************)

Exists(t) == tx[t].status # "NONE"

\* The customer approves the payment on bKash's page.
CustomerApproves(t) ==
  /\ Exists(t)
  /\ gateway[t].state = "created"
  /\ gateway' = [gateway EXCEPT ![t].state = "approved"]
  /\ UNCHANGED <<ledgerVars, overdue, tx, refund, handler, refunding, charging,
                 gatewayRefunds>>

Capture(t) ==
  /\ gateway[t].state = "approved"
  /\ \E drift \in CaptureDrift :
       /\ tx[t].amount + drift > 0
       /\ gateway' = [gateway EXCEPT ![t] = [state    |-> "completed",
                                             captured |-> tx[t].amount + drift]]

-----------------------------------------------------------------------------
(***************************************************************************)
(* bkashCallback, confirmWithGateway and verifyTransaction.                *)
(***************************************************************************)

Done(t) == tx[t].status \in {"SUCCESS", "REFUNDED"}

\* The redirect with status "success" (also a repeated or a late one): the
\* transaction is read and found not settled yet.
CallbackRead(h, t) ==
  /\ handler[h].step = "idle"
  /\ Exists(t) /\ gateway[t].state # "created"
  /\ ~Done(t)
  /\ Become(h, "marking", t, 0)
  /\ UNCHANGED <<ledgerVars, overdue, tx, refund, refunding, charging, gatewayVars>>

\* updateMany INITIATED -> PENDING, then the gateway is asked to execute.
CallbackMarkPending(h) ==
  LET t == handler[h].tx
  IN  /\ Move(h, "marking", "executing")
      /\ tx' = [tx EXCEPT ![t].status = IF @ = "INITIATED" THEN "PENDING" ELSE @]
      /\ UNCHANGED <<ledgerVars, overdue, refund, refunding, charging, gatewayVars>>

\* The redirect with another status: the customer backed out, or it failed.
CallbackAbandonRead(h, t) ==
  /\ handler[h].step = "idle"
  /\ Exists(t) /\ ~Done(t)
  /\ Become(h, "abandoning", t, 0)
  /\ UNCHANGED <<ledgerVars, overdue, tx, refund, refunding, charging, gatewayVars>>

\* Mutant: the update has no guard on the status.
CallbackAbandon_Unguarded(h) ==
  /\ handler[h].step = "abandoning"
  /\ \E outcome \in {"CANCELLED", "FAILED"} :
       tx' = [tx EXCEPT ![handler[h].tx].status = outcome]
  /\ Finish(h)
  /\ UNCHANGED <<ledgerVars, overdue, refund, refunding, charging, gatewayVars>>

CallbackAbandon(h) ==
  LET t == handler[h].tx
  IN  /\ handler[h].step = "abandoning"
      /\ \E outcome \in {"CANCELLED", "FAILED"} :
           tx' = [tx EXCEPT ![t].status =
                    IF @ \in {"INITIATED", "PENDING"} THEN outcome ELSE @]
      /\ Finish(h)
      /\ UNCHANGED <<ledgerVars, overdue, refund, refunding, charging, gatewayVars>>

\* executePayment answers "Completed".
ExecuteConfirmed(h) ==
  LET t == handler[h].tx
  IN  /\ handler[h].step = "executing"
      /\ Capture(t)
      /\ Become(h, "settling", t, gateway'[t].captured)
      /\ UNCHANGED <<ledgerVars, overdue, tx, refund, refunding, charging,
                     gatewayRefunds>>

\* The money is captured, the answer is lost or comes after the timeout.
ExecuteAnswerLost(h) ==
  /\ Move(h, "executing", "querying")
  /\ Capture(handler[h].tx)
  /\ UNCHANGED <<ledgerVars, overdue, tx, refund, refunding, charging, gatewayRefunds>>

\* Nothing is captured: declined, out of reach, or executed before.
ExecuteFailed(h) ==
  /\ Move(h, "executing", "querying")
  /\ UNCHANGED <<ledgerVars, overdue, tx, refund, refunding, charging, gatewayVars>>

\* Mutant: whatever status the query reports is taken for "Completed".
QueryCompleted_AnyStatus(h) ==
  LET t == handler[h].tx
  IN  /\ handler[h].step \in {"querying", "verifying"}
      /\ Become(h, "settling", t, tx[t].amount)
      /\ UNCHANGED <<ledgerVars, overdue, tx, refund, refunding, charging, gatewayVars>>

\* queryPayment answers "Completed", in a callback or in verifyTransaction.
QueryCompleted(h) ==
  LET t == handler[h].tx
  IN  /\ handler[h].step \in {"querying", "verifying"}
      /\ gateway[t].state = "completed"
      /\ Become(h, "settling", t, gateway[t].captured)
      /\ UNCHANGED <<ledgerVars, overdue, tx, refund, refunding, charging, gatewayVars>>

\* No confirmation: the query failed, timed out or says something else.
CallbackUnconfirmed(h) ==
  LET t == handler[h].tx
  IN  /\ handler[h].step = "querying"
      /\ tx' = [tx EXCEPT ![t].status = IF @ = "PENDING" THEN "FAILED" ELSE @]
      /\ Finish(h)
      /\ UNCHANGED <<ledgerVars, overdue, refund, refunding, charging, gatewayVars>>

\* Mutant: an attempt that was given up is not looked at again.
VerifyRead_OnlyInFlight(h, t) ==
  /\ handler[h].step = "idle"
  /\ tx[t].status \in {"INITIATED", "PENDING"}
  /\ Become(h, "verifying", t, 0)
  /\ UNCHANGED <<ledgerVars, overdue, tx, refund, refunding, charging, gatewayVars>>

VerifyRead(h, t) ==
  /\ handler[h].step = "idle"
  /\ Exists(t) /\ ~Done(t)
  /\ Become(h, "verifying", t, 0)
  /\ UNCHANGED <<ledgerVars, overdue, tx, refund, refunding, charging, gatewayVars>>

\* verifyTransaction: the query fails or bKash reports another status.
VerifyUnanswered(h) ==
  /\ handler[h].step = "verifying"
  /\ Finish(h)
  /\ UNCHANGED <<ledgerVars, overdue, tx, refund, refunding, charging, gatewayVars>>

\* The server dies, or the client's request is cut off.
HandlerDies(h) ==
  /\ handler[h].step # "idle"
  /\ Finish(h)
  /\ UNCHANGED <<ledgerVars, overdue, tx, refund, refunding, charging, gatewayVars>>

-----------------------------------------------------------------------------
(***************************************************************************)
(* settleTransaction, under the lock of the invoice.                       *)
(***************************************************************************)

\* A payment that was settled before is returned untouched.
SettleAlreadyDone(h) ==
  /\ handler[h].step = "settling"
  /\ Done(handler[h].tx)
  /\ Finish(h)
  /\ UNCHANGED <<ledgerVars, overdue, tx, refund, refunding, charging, gatewayVars>>

\* Mutant: the status of the invoice is not looked at.
Settlement_IgnoresCancel(t, captured) ==
  IF captured = tx[t].amount
    THEN allocatePayment(schedule, captured)
    ELSE [allocations |-> Nobody, excess |-> captured]

\* Mutant: what does not fit the schedule is not recorded.
Settlement_DropsExcess(t, captured) ==
  IF captured = tx[t].amount /\ invoice.status # "CANCELLED"
    THEN [allocatePayment(schedule, captured) EXCEPT !.excess = 0]
    ELSE [allocations |-> Nobody, excess |-> captured]

\* What of a captured amount goes to which installment.
Settlement(t, captured) ==
  IF captured = tx[t].amount /\ invoice.status # "CANCELLED"
    THEN allocatePayment(schedule, captured)
    ELSE [allocations |-> Nobody, excess |-> captured]

\* Everything a first settlement writes.
BookPayment(t, captured) ==
  LET booked == Settlement(t, captured)
      paidUp == [i \in Numbers |->
                   [schedule[i] EXCEPT !.paid = @ + booked.allocations[i]]]
  IN  /\ schedule' = paidUp
      /\ tx' = [tx EXCEPT ![t] = [status   |-> "SUCCESS",
                                  amount   |-> captured,
                                  excess   |-> booked.excess,
                                  refunded |-> tx[t].refunded,
                                  alloc    |-> booked.allocations]]
      /\ invoice' = Recomputed(paidUp, adjustment, invoice)
      /\ confirmed' = (\/ confirmed
                       \/ InvoiceType = "ADMISSION" /\ invoice'.status = "PAID")

\* Mutant: the status is not looked at again once the invoice is locked.
Settle_NoRecheck(h) ==
  /\ handler[h].step = "settling"
  /\ BookPayment(handler[h].tx, handler[h].amount)
  /\ Finish(h)
  /\ UNCHANGED <<adjustment, lateFees, overdue, refund, refunding, charging,
                 gatewayVars>>

Settle(h) ==
  /\ handler[h].step = "settling"
  /\ ~Done(handler[h].tx)
  /\ BookPayment(handler[h].tx, handler[h].amount)
  /\ Finish(h)
  /\ UNCHANGED <<adjustment, lateFees, overdue, refund, refunding, charging,
                 gatewayVars>>

-----------------------------------------------------------------------------
(***************************************************************************)
(* refundTransaction: reserve, call the gateway, book.                     *)
(***************************************************************************)

RefundMove(r, from, to) ==
  /\ refunding[r] = from
  /\ refunding' = [refunding EXCEPT ![r] = to]

\* Mutant: refunds that are still under way are not counted.
Live_BookedOnly(t) == {r \in Refunds : refund[r].tx = t /\ refund[r].status = "SUCCESS"}

\* Refund rows of a payment that count against it.
Live(t) == {r \in Refunds : refund[r].tx = t /\ refund[r].status \in {"PENDING", "SUCCESS"}}

RefundSum(rows) == SumFunctionOnSet([r \in Refunds |-> refund[r].amount], rows)

Reserved(t) == RefundSum(Live(t))

\* Step 1, under the lock: the amount is set aside in a PENDING row.
ReserveRefund(r, t, reverseCharge) ==
  /\ RefundMove(r, "new", "calling")
  /\ tx[t].status = "SUCCESS"
  /\ \E amount \in 1..tx[t].amount :
       /\ amount <= tx[t].amount - Reserved(t)
       /\ reverseCharge => amount <= Total(tx[t].alloc)
       /\ refund' = [refund EXCEPT ![r] = [status |-> "PENDING", tx |-> t,
                                           amount |-> amount,
                                           reverseCharge |-> reverseCharge]]
  /\ UNCHANGED <<ledgerVars, overdue, tx, handler, charging, gatewayVars>>

\* bKash never returns more of a payment than it captured (external).
GatewayRefunds(r) ==
  LET t == refund[r].tx
  IN  /\ RefundSum({q \in gatewayRefunds : refund[q].tx = t}) + refund[r].amount
           <= gateway[t].captured
      /\ gatewayRefunds' = gatewayRefunds \cup {r}
      /\ UNCHANGED gateway

\* Step 2, outside any database transaction: refundPayment answers.
RefundConfirmed(r) ==
  /\ RefundMove(r, "calling", "booking")
  /\ GatewayRefunds(r)
  /\ UNCHANGED <<ledgerVars, overdue, tx, refund, handler, charging>>

\* bKash returns the money, the answer is lost or comes after the timeout.
RefundAnswerLost(r) ==
  /\ RefundMove(r, "calling", "failing")
  /\ GatewayRefunds(r)
  /\ UNCHANGED <<ledgerVars, overdue, tx, refund, handler, charging>>

\* bKash refuses, or is never reached.
RefundRefused(r) ==
  /\ RefundMove(r, "calling", "failing")
  /\ UNCHANGED <<ledgerVars, overdue, tx, refund, handler, charging, gatewayVars>>

\* Any error of step 2 marks the row FAILED and frees what it had reserved.
RefundFails(r) ==
  /\ RefundMove(r, "failing", "done")
  /\ refund' = [refund EXCEPT ![r].status = "FAILED"]
  /\ UNCHANGED <<ledgerVars, overdue, tx, handler, charging, gatewayVars>>

\* Mutant: the allocation rows are left as they were.
WriteRefund_KeepsAllocations(r, reversal) ==
  LET t        == refund[r].tx
      unpaid   == [i \in Numbers |-> [schedule[i] EXCEPT !.paid = @ - reversal[i]]]
      returned == tx[t].refunded + refund[r].amount
  IN  /\ schedule' = unpaid
      /\ refund' = [refund EXCEPT ![r].status = "SUCCESS"]
      /\ tx' = [tx EXCEPT
                  ![t].refunded = returned,
                  ![t].status   = IF returned >= tx[t].amount
                                    THEN "REFUNDED" ELSE "SUCCESS"]
      /\ invoice' = [Recomputed(unpaid, adjustment, invoice) EXCEPT
                       !.refunded = @ + refund[r].amount]
      /\ UNCHANGED <<adjustment, lateFees, confirmed>>

\* Everything step 3 writes, the reversal being what is taken off each
\* allocation and off the installment it had paid.
WriteRefund(r, reversal) ==
  LET t        == refund[r].tx
      unpaid   == [i \in Numbers |-> [schedule[i] EXCEPT !.paid = @ - reversal[i]]]
      returned == tx[t].refunded + refund[r].amount
  IN  /\ schedule' = unpaid
      /\ refund' = [refund EXCEPT ![r].status = "SUCCESS"]
      /\ tx' = [tx EXCEPT
                  ![t].alloc    = [i \in Numbers |-> @[i] - reversal[i]],
                  ![t].refunded = returned,
                  ![t].status   = IF returned >= tx[t].amount
                                    THEN "REFUNDED" ELSE "SUCCESS"]
      /\ invoice' = [Recomputed(unpaid, adjustment, invoice) EXCEPT
                       !.refunded = @ + refund[r].amount]
      /\ UNCHANGED <<adjustment, lateFees, confirmed>>

\* Mutant: the whole refund is taken off the newest installment.
Reversal_NewestOnly(r) ==
  IF refund[r].reverseCharge
    THEN [i \in Numbers |-> IF i = N THEN refund[r].amount ELSE 0]
    ELSE Nobody

Reversal(r) ==
  IF refund[r].reverseCharge
    THEN reverseAllocations(tx[refund[r].tx].alloc, refund[r].amount)
    ELSE Nobody

CanBook(r) ==
  refund[r].reverseCharge => CanReverse(tx[refund[r].tx].alloc, refund[r].amount)

\* Step 3, under the lock: the PENDING row is claimed and booked.
BookRefund(r) ==
  /\ RefundMove(r, "booking", "done")
  /\ refund[r].status = "PENDING"
  /\ CanBook(r)
  /\ WriteRefund(r, Reversal(r))
  /\ UNCHANGED <<overdue, handler, charging, gatewayVars>>

\* reverseAllocations throws: the claim is rolled back with the transaction.
BookRefundAborts(r) ==
  /\ RefundMove(r, "booking", "done")
  /\ refund[r].status = "PENDING"
  /\ ~CanBook(r)
  /\ UNCHANGED <<ledgerVars, overdue, tx, refund, handler, charging, gatewayVars>>

RefundDies(r) ==
  /\ refunding[r] \in {"calling", "failing", "booking"}
  /\ refunding' = [refunding EXCEPT ![r] = "done"]
  /\ UNCHANGED <<ledgerVars, overdue, tx, refund, handler, charging, gatewayVars>>

-----------------------------------------------------------------------------
(***************************************************************************)
(* addAdjustment and cancelInvoice, under the lock of the invoice.         *)
(***************************************************************************)

AddAdjustment(delta) ==
  LET corrected == applyDelta(schedule, delta)
  IN  /\ invoice.status # "CANCELLED"
      /\ CanApplyDelta(schedule, delta)
      /\ invoice.payable + delta <= MaxPayable
      /\ schedule' = corrected
      /\ adjustment' = adjustment + delta
      /\ invoice' = Recomputed(corrected, adjustment + delta, invoice)
      /\ UNCHANGED <<lateFees, confirmed, overdue, tx, refund, handler, refunding,
                     charging, gatewayVars>>

\* In-flight attempts are cancelled with the invoice.
CancelAttempts ==
  [t \in Attempts |-> IF tx[t].status \in {"INITIATED", "PENDING"}
                        THEN [tx[t] EXCEPT !.status = "CANCELLED"] ELSE tx[t]]

CancelInvoice ==
  /\ invoice.status # "CANCELLED"
  /\ invoice.paid <= 0
  /\ tx' = CancelAttempts
  /\ invoice' = [invoice EXCEPT !.status = "CANCELLED"]
  /\ UNCHANGED <<schedule, adjustment, lateFees, confirmed, overdue, refund, handler,
                 refunding, charging, gatewayVars>>

-----------------------------------------------------------------------------
(***************************************************************************)
(* applyLateFees.                                                          *)
(***************************************************************************)

\* Time passes the due date and the grace days of the next installment; it
\* only matters to the late-fee runs.
DueDatePasses(i) ==
  /\ LateRuns # {}
  /\ i \notin overdue /\ 1..(i-1) \subseteq overdue
  /\ overdue' = overdue \cup {i}
  /\ UNCHANGED <<ledgerVars, tx, refund, handler, refunding, charging, gatewayVars>>

\* The candidates are read without a lock, and the fees computed from them.
LateFeeCandidate(i) ==
  /\ storedInstallmentStatus(schedule[i]) \in {"PENDING", "PARTIALLY_PAID"}
  /\ isInstallmentOverdue(schedule[i], i \in overdue)

LateFeesScan(l) ==
  /\ charging[l] = Nobody
  /\ InvoiceType = "SEMESTER" /\ invoice.status # "CANCELLED"
  /\ charging' = [charging EXCEPT ![l] =
       [i \in Numbers |->
          IF LateFeeCandidate(i)
            THEN computeLateFee(Balances(schedule)[i], LateFeeType, LateFeeValue)
            ELSE 0]]
  /\ UNCHANGED <<ledgerVars, overdue, tx, refund, handler, refunding, gatewayVars>>

\* Everything one charge writes; only the installment row is read again.
WriteLateFee(i, fee) ==
  LET raised == [schedule EXCEPT ![i].amount = @ + fee]
  IN  /\ schedule' = raised
      /\ adjustment' = adjustment + fee
      /\ lateFees' = lateFees \cup {i}
      /\ invoice' = Recomputed(raised, adjustment + fee, invoice)

\* Mutant: no unique key stops a second run.
LateFeesCharge_NoUniqueKey(l, i) ==
  /\ charging[l][i] > 0
  /\ WriteLateFee(i, charging[l][i])
  /\ charging' = [charging EXCEPT ![l][i] = 0]
  /\ UNCHANGED <<confirmed, overdue, tx, refund, handler, refunding, gatewayVars>>

\* One candidate, under the lock.
LateFeesCharge(l, i) ==
  /\ charging[l][i] > 0
  /\ i \notin lateFees
  /\ WriteLateFee(i, charging[l][i])
  /\ charging' = [charging EXCEPT ![l][i] = 0]
  /\ UNCHANGED <<confirmed, overdue, tx, refund, handler, refunding, gatewayVars>>

\* The unique key (installmentId, LATE_FEE) is taken: counted as skipped.
LateFeesSkip(l, i) ==
  /\ charging[l][i] > 0
  /\ i \in lateFees
  /\ charging' = [charging EXCEPT ![l][i] = 0]
  /\ UNCHANGED <<ledgerVars, overdue, tx, refund, handler, refunding, gatewayVars>>

LateRunDies(l) ==
  /\ charging[l] # Nobody
  /\ charging' = [charging EXCEPT ![l] = Nobody]
  /\ UNCHANGED <<ledgerVars, overdue, tx, refund, handler, refunding, gatewayVars>>

-----------------------------------------------------------------------------
PaymentStep ==
  \E h \in Handlers :
    \/ \E t \in Attempts : \/ InitPaymentRead(h, t)
                           \/ CallbackRead(h, t)
                           \/ CallbackAbandonRead(h, t)
                           \/ VerifyRead(h, t)
    \/ InitPaymentInsert(h)
    \/ CallbackMarkPending(h)
    \/ CallbackAbandon(h)
    \/ ExecuteConfirmed(h)
    \/ ExecuteAnswerLost(h)
    \/ ExecuteFailed(h)
    \/ QueryCompleted(h)
    \/ CallbackUnconfirmed(h)
    \/ VerifyUnanswered(h)
    \/ SettleAlreadyDone(h)
    \/ Settle(h)
    \/ HandlerDies(h)

RefundStepOf ==
  \E r \in Refunds :
    \/ \E t \in Attempts, reverseCharge \in BOOLEAN : ReserveRefund(r, t, reverseCharge)
    \/ RefundConfirmed(r)
    \/ RefundAnswerLost(r)
    \/ RefundRefused(r)
    \/ RefundFails(r)
    \/ BookRefund(r)
    \/ BookRefundAborts(r)
    \/ RefundDies(r)

LateFeeStep ==
  \E l \in LateRuns :
    \/ LateFeesScan(l)
    \/ \E i \in Numbers : LateFeesCharge(l, i) \/ LateFeesSkip(l, i)
    \/ LateRunDies(l)

Next ==
  \/ PaymentStep
  \/ RefundStepOf
  \/ LateFeeStep
  \/ \E delta \in Deltas : AddAdjustment(delta)
  \/ CancelInvoice
  \/ \E t \in Attempts : CustomerApproves(t)
  \/ \E i \in Numbers : DueDatePasses(i)

Spec == Init /\ [][Next]_vars

-----------------------------------------------------------------------------
(***************************************************************************)
(* Safety.                                                                 *)
(***************************************************************************)

\* No installment is ever paid beyond its amount, whatever corrections, late
\* fees, refunds and concurrent payments were booked: allocation stops at the
\* balance (billing.ts:346) and reductions at what is paid (billing.ts:305).
PaidWithinAmount == \A i \in Numbers : schedule[i].paid <= schedule[i].amount

\* The installments add up to the payable amount, so that recomputeInvoice
\* (invoiceCore.ts:276) never aborts a transaction with a ledger mismatch, and
\* the stored totals and status are those of the rows they are derived from.
LedgerAddsUp ==
  /\ Total(Amounts(schedule)) = subtotal + adjustment
  /\ invoice.payable = Total(Amounts(schedule))
  /\ invoice.paid = Total(Paids(schedule))
  /\ invoice.status = deriveInvoiceStatus(invoice.payable, invoice.paid,
                                          invoice.status = "CANCELLED")

\* What counts as paid on an installment is what settled payments allocated to
\* it and refunds did not take back: two settlements never count one payment
\* twice, and a reversal is taken off both sides (payment.service.ts:217, 504).
PaidIsAllocated ==
  \A i \in Numbers :
    schedule[i].paid = SumFunction([t \in Attempts |-> tx[t].alloc[i]])

Succeeded(t, charges) ==
  {r \in Refunds : /\ refund[r].tx = t /\ refund[r].status = "SUCCESS"
                   /\ refund[r].reverseCharge \in charges}

\* A payment counts as settled only when bKash captured exactly its amount: no
\* redirect, repeated callback or query answer of another kind makes it count
\* (payment.service.ts:145, 169).
SettledWasCaptured ==
  \A t \in Attempts :
    Done(t) => /\ gateway[t].state = "completed"
               /\ tx[t].amount = gateway[t].captured

\* Every unit of a settled payment is allocated, held as excess or was taken
\* back by a booked refund: nothing captured silently disappears
\* (payment.service.ts:170).  Nothing is allocated of any other attempt.
CapturedIsAccounted ==
  \A t \in Attempts :
    IF Done(t)
      THEN Total(tx[t].alloc) + tx[t].excess + RefundSum(Succeeded(t, {TRUE}))
             = tx[t].amount
      ELSE tx[t].alloc = Nobody /\ tx[t].excess = 0

\* Refunds that are booked or under way never exceed the payment, however many
\* administrators refund it at once (payment.service.ts:406); the totals on the
\* payment and the invoice are the booked refunds, and a payment is REFUNDED
\* exactly when all of it was returned.
RefundsWithinPayment ==
  /\ \A t \in Attempts :
       /\ RefundSum({r \in Refunds : /\ refund[r].tx = t
                                      /\ refund[r].status \in {"PENDING", "SUCCESS"}})
            <= tx[t].amount
       /\ tx[t].refunded = RefundSum(Succeeded(t, BOOLEAN))
       /\ tx[t].status = "REFUNDED" <=> Done(t) /\ tx[t].refunded >= tx[t].amount
  /\ invoice.refunded = SumFunction([t \in Attempts |-> tx[t].refunded])

\* A cancelled invoice holds no money, and no payment that was in flight when
\* it was cancelled is applied to it later (invoice.service.ts:635, 649).
CancelledHoldsNoMoney ==
  invoice.status = "CANCELLED" =>
    /\ \A i \in Numbers : schedule[i].paid = 0
    /\ \A t \in Attempts : tx[t].alloc = Nobody

\* A settled payment is never settled, failed or cancelled again, by a repeated
\* callback, a late one with another status, a verification or the cancellation
\* of the invoice; afterwards only booked refunds take its allocations back
\* (payment.service.ts:168, 339, 358, 651).
SettledForGood ==
  [][\A t \in Attempts :
       Done(t) =>
         /\ Done(t)'
         /\ tx[t].status = "REFUNDED" => tx'[t].status = "REFUNDED"
         /\ tx'[t].amount = tx[t].amount /\ tx'[t].excess = tx[t].excess
         /\ \A i \in Numbers : tx'[t].alloc[i] <= tx[t].alloc[i]
         /\ tx'[t].alloc # tx[t].alloc => tx'[t].refunded > tx[t].refunded]_vars

\* Overlapping late-fee runs charge an installment once (invoice.service.ts:793):
\* no step of a run raises an installment that already carries its fee.
LateFeeOnce ==
  [][\A i \in lateFees :
       schedule'[i].amount > schedule[i].amount => UNCHANGED charging]_vars

-----------------------------------------------------------------------------
(***************************************************************************)
(* Refinement: each payment seen as PaymentBook sees it.                   *)
(***************************************************************************)

Book == INSTANCE PaymentBook WITH
  Payments <- Attempts,
  captured <- [t \in Attempts |-> gateway[t].captured],
  settled  <- {t \in Attempts : Done(t)},
  credited <- [t \in Attempts |-> Total(tx[t].alloc)],
  returned <- [t \in Attempts |-> tx[t].refunded]

\* The handlers, with all their interleavings, deaths and lost answers, treat
\* each payment as PaymentBook promises (payment.service.ts:164-173).
PaymentsAreBooked == Book!Spec

\* The invoice seen as Admission sees it: PARTIALLY_PAID is still owed.
Seen == INSTANCE InvoiceBook WITH
  status   <- IF invoice.status = "PARTIALLY_PAID" THEN "UNPAID" ELSE invoice.status,
  confirms <- confirmed

\* Whatever is settled late, refunded, corrected or charged, and in whichever
\* order, a cancelled invoice stays cancelled and confirms nobody
\* (invoiceCore.ts:254, payment.service.ts:257).
InvoiceIsBooked == Seen!Spec

-----------------------------------------------------------------------------
(***************************************************************************)
(* What the source says of itself and its code does not keep.              *)
(***************************************************************************)

\* A late fee is charged on an installment that is overdue, that is, on one
\* with a balance, of an invoice that is not cancelled (invoice.service.ts:792).
LateFeeOnlyWhileOwing ==
  [][\A i \in lateFees' \ lateFees :
       Balances(schedule)[i] > 0 /\ invoice.status # "CANCELLED"]_vars

\* Money bKash has returned stays counted against the payment, so that it is
\* not refunded a second time (payment.service.ts:406).
ReturnedStaysReserved ==
  \A r \in gatewayRefunds : refund[r].status \in {"PENDING", "SUCCESS"}

-----------------------------------------------------------------------------
(***************************************************************************)
(* Liveness.                                                               *)
(***************************************************************************)

\* A handler's own next step: there always is one, because every call to bKash
\* ends with an answer or with its timeout (BKASH_HTTP_TIMEOUT_MS).
HandlerStepOf(h) ==
  \/ InitPaymentInsert(h)
  \/ CallbackMarkPending(h)
  \/ CallbackAbandon(h)
  \/ ExecuteConfirmed(h)
  \/ ExecuteAnswerLost(h)
  \/ ExecuteFailed(h)
  \/ QueryCompleted(h)
  \/ CallbackUnconfirmed(h)
  \/ VerifyUnanswered(h)
  \/ SettleAlreadyDone(h)
  \/ Settle(h)

\* The server runs each handler on; a payment that is not settled is looked at
\* again and again; bKash does not leave every query unanswered; the server
\* does not die each time it is about to settle.
Fairness ==
  /\ \A h \in Handlers :
       /\ WF_vars(HandlerStepOf(h))
       /\ SF_vars(QueryCompleted(h))
       /\ SF_vars(Settle(h))
       /\ \A t \in Attempts : SF_vars(VerifyRead(h, t))

FairSpec == Spec /\ Fairness

\* Money bKash has captured is settled in the end, whatever became of the
\* callback: its answer lost, the attempt marked failed or cancelled, the
\* invoice cancelled meanwhile (payment.service.ts:373).
CapturedIsSettled ==
  \A t \in Attempts : gateway[t].state = "completed" ~> Done(t)
==============================================================================
