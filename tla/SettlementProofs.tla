-------------------------- MODULE SettlementProofs ---------------------------
(***************************************************************************)
(* What becomes of the money of a payment, and of the ledger of its        *)
(* invoice, for any schedule and any number of payments, handlers, refunds *)
(* and late-fee runs.                                                      *)
(*                                                                         *)
(* The ledger stays in balance: what installments, totals and adjustments  *)
(* say of each other.  Only five actions write the schedule, the           *)
(* adjustments or the invoice (LedgerWriters), and each preserves Balance. *)
(* A payment is settled once and for good, all of it stays accounted for,  *)
(* refunds stay within it, and the ledger implements PaymentBook: there,   *)
(* rows of a table are passed to the definitions as values, so that the    *)
(* table before and the table after a step can be compared.  Both rest on  *)
(* the inductive invariant of PaymentLedgerProofs.                         *)
(*                                                                         *)
(* What is reported of the ledger (LedgerReports) follows from the three.  *)
(***************************************************************************)
EXTENDS PaymentLedgerProofs, LedgerReports

-----------------------------------------------------------------------------
(***************************************************************************)
(* The ledger in balance.                                                  *)
(***************************************************************************)

\* Nothing is paid on a cancelled invoice.
CancelledIsUnpaid ==
  invoice.status = "CANCELLED" => \A i \in Numbers : schedule[i].paid = 0

Balance == PaidWithinAmount /\ LedgerAddsUp /\ CancelledIsUnpaid

\* No step takes the cancellation back.
CancelledForGood == invoice.status = "CANCELLED" => invoice'.status = "CANCELLED"

-----------------------------------------------------------------------------
\* Every other step leaves the schedule, the adjustments and the invoice alone.
LEMMA LedgerWriters ==
  ASSUME [Next]_vars
  PROVE  \/ UNCHANGED <<schedule, adjustment, invoice>>
         \/ \E h \in Handlers : Settle(h)
         \/ \E r \in Refunds : BookRefund(r)
         \/ \E delta \in Deltas : AddAdjustment(delta)
         \/ CancelInvoice
         \/ \E l \in LateRuns, i \in Numbers : LateFeesCharge(l, i)
<1> USE DEF ledgerVars
<1>1. ASSUME PaymentStep
      PROVE  \/ UNCHANGED <<schedule, adjustment, invoice>>
             \/ \E h \in Handlers : Settle(h)
  BY <1>1 DEF PaymentStep, InitPaymentRead, InitPaymentInsert, CallbackRead,
       CallbackAbandonRead, VerifyRead, CallbackMarkPending, CallbackAbandon,
       ExecuteConfirmed, ExecuteAnswerLost, ExecuteFailed, QueryCompleted,
       CallbackUnconfirmed, VerifyUnanswered, SettleAlreadyDone, HandlerDies
<1>2. ASSUME RefundStepOf
      PROVE  \/ UNCHANGED <<schedule, adjustment, invoice>>
             \/ \E r \in Refunds : BookRefund(r)
  BY <1>2 DEF RefundStepOf, ReserveRefund, RefundConfirmed, RefundAnswerLost,
       RefundRefused, RefundFails, BookRefundAborts, RefundDies
<1>3. ASSUME LateFeeStep
      PROVE  \/ UNCHANGED <<schedule, adjustment, invoice>>
             \/ \E l \in LateRuns, i \in Numbers : LateFeesCharge(l, i)
  BY <1>3 DEF LateFeeStep, LateFeesScan, LateFeesSkip, LateRunDies
<1>4. ASSUME NEW t \in Attempts, CustomerApproves(t)
      PROVE  UNCHANGED <<schedule, adjustment, invoice>>
  BY <1>4 DEF CustomerApproves
<1>5. ASSUME NEW i \in Numbers, DueDatePasses(i)
      PROVE  UNCHANGED <<schedule, adjustment, invoice>>
  BY <1>5 DEF DueDatePasses
<1>6. ASSUME UNCHANGED vars PROVE UNCHANGED <<schedule, adjustment, invoice>>
  BY <1>6 DEF vars
<1> QED BY <1>1, <1>2, <1>3, <1>4, <1>5, <1>6 DEF Next

\* recomputeInvoice (invoiceCore.ts:254) restores the balance of the stored totals
\* when the installments add up to the payable amount.
LEMMA RecomputedBalances ==
  ASSUME schedule' \in Schedules, adjustment' \in Int, TypeOK,
         Total(Amounts(schedule')) = subtotal + adjustment',
         invoice' \in FeeInvoice,
         NEW again, again = Recomputed(schedule', adjustment', invoice),
         invoice'.payable = again.payable, invoice'.paid = again.paid,
         invoice'.status = again.status
  PROVE  /\ LedgerAddsUp'
         /\ invoice'.status = "CANCELLED" <=> invoice.status = "CANCELLED"
<1>1. invoice \in FeeInvoice
  BY DEF TypeOK
<1>2. /\ again.payable = subtotal + adjustment' /\ again.paid = Total(Paids(schedule'))
      /\ again.status = deriveInvoiceStatus(subtotal + adjustment', Total(Paids(schedule')),
                                            invoice.status = "CANCELLED")
  BY <1>1, RecomputedTypes
<1>3. invoice'.status = "CANCELLED" <=> invoice.status = "CANCELLED"
  BY <1>2 DEF deriveInvoiceStatus
<1>4. invoice'.status = deriveInvoiceStatus(invoice'.payable, invoice'.paid,
                                            invoice'.status = "CANCELLED")
  BY <1>2 DEF deriveInvoiceStatus
<1> QED BY <1>2, <1>3, <1>4 DEF LedgerAddsUp

\* The payable total depends on the amounts only.
LEMMA SameAmounts ==
  ASSUME \A i \in Numbers : schedule'[i].amount = schedule[i].amount
  PROVE  Total(Amounts(schedule')) = Total(Amounts(schedule))
BY DEF Amounts

\* A newly issued invoice is in balance.
LEMMA BalanceInitially == Init => Balance
<1> SUFFICES ASSUME Init PROVE Balance
  OBVIOUS
<1>1. /\ \A i \in Numbers : /\ schedule[i].amount = InitialAmounts[i]
                            /\ schedule[i].paid = 0
      /\ schedule \in Schedules
      /\ \A i \in Numbers : InitialAmounts[i] \in Nat
  BY LedgerAssumption DEF Init, Schedules
<1>2. /\ invoice = [status |-> IF subtotal = 0 THEN "PAID" ELSE "UNPAID",
                    payable |-> subtotal, paid |-> 0, refunded |-> 0]
      /\ adjustment = 0
  BY Zenon DEF Init
<1>3. subtotal \in Nat
  BY LedgerAssumption, TotalType DEF subtotal
<1>4. Amounts(schedule) = InitialAmounts
  BY <1>1, LedgerAssumption DEF Amounts
<1>5. Total(Paids(schedule)) = 0
  <2>1. Paids(schedule) = Nobody
    BY <1>1 DEF Paids, Nobody
  <2> QED BY <2>1, NobodyTotal
<1>6. invoice.status = deriveInvoiceStatus(invoice.payable, invoice.paid,
                                           invoice.status = "CANCELLED")
  BY <1>2, <1>3 DEF deriveInvoiceStatus
<1>7. LedgerAddsUp
  BY <1>2, <1>3, <1>4, <1>5, <1>6 DEF LedgerAddsUp, subtotal
<1>8. PaidWithinAmount
  BY <1>1 DEF PaidWithinAmount
<1>9. CancelledIsUnpaid
  BY <1>1 DEF CancelledIsUnpaid
<1> QED BY <1>7, <1>8, <1>9 DEF Balance

\* Settling a payment (payment.service.ts:174) keeps the balance.
LEMMA SettleBalances ==
  ASSUME IInv, Balance, NEW h \in Handlers, Settle(h), TypeOK'
  PROVE  Balance' /\ CancelledForGood
<1> DEFINE p == handler[h].tx
           captured == handler[h].amount
           taken == Settlement(p, captured).allocations
<1>1. TypeOK /\ HandlerSound(h) /\ handler[h] \in HandlerRecord /\ schedule \in Schedules
  BY DEF IInv, HandlersSound, TypeOK
<1>2. handler[h].step = "settling" /\ BookPayment(p, captured) /\ adjustment' = adjustment
  BY DEF Settle
<1>3. p \in Attempts /\ captured \in Nat
  BY <1>1, <1>2 DEF HandlerSound, HandlerRecord
<1>4. /\ taken \in [Numbers -> Nat]
      /\ \A i \in Numbers : taken[i] <= Positive(schedule[i].amount - schedule[i].paid)
      /\ invoice.status = "CANCELLED" => taken = Nobody
  BY <1>1, <1>3, SettlementBounds
<1>5. /\ schedule' \in Schedules
      /\ invoice' = Recomputed(schedule', adjustment, invoice) /\ invoice' \in FeeInvoice
      /\ \A i \in Numbers : /\ schedule'[i].amount = schedule[i].amount
                            /\ schedule'[i].paid = schedule[i].paid + taken[i]
  BY <1>1, <1>2, <1>3, SettleWrites
<1>6. Total(Amounts(schedule')) = subtotal + adjustment'
  BY <1>2, <1>5, SameAmounts DEF Balance, LedgerAddsUp
<1>7. LedgerAddsUp' /\ (invoice'.status = "CANCELLED" <=> invoice.status = "CANCELLED")
  BY <1>1, <1>2, <1>5, <1>6, RecomputedBalances DEF TypeOK
<1> HIDE DEF taken
<1>8. PaidWithinAmount'
  BY <1>1, <1>4, <1>5 DEF Balance, PaidWithinAmount, Positive, Schedules
<1>9. CancelledIsUnpaid'
  BY <1>4, <1>5, <1>7 DEF Balance, CancelledIsUnpaid, Nobody
<1> QED BY <1>7, <1>8, <1>9 DEF Balance, CancelledForGood

\* Booking a refund (payment.service.ts:474) keeps the balance.
LEMMA BookRefundBalances ==
  ASSUME IInv, Balance, NEW r \in Refunds, BookRefund(r), TypeOK'
  PROVE  Balance' /\ CancelledForGood
<1>1. /\ TypeOK /\ RefundSound(r) /\ schedule \in Schedules /\ invoice \in FeeInvoice
      /\ refund[r] \in RefundRow /\ adjustment \in Int
  BY DEF IInv, RefundsSound, TypeOK
<1>2. refunding[r] = "booking" /\ WriteRefund(r, Reversal(r)) /\ adjustment' = adjustment
  BY DEF BookRefund, RefundMove, WriteRefund
<1>3. refund[r].tx \in Attempts /\ Done(refund[r].tx)
  BY <1>1, <1>2 DEF RefundSound
<1>4. Reversal(r) \in [Numbers -> Nat]
  BY <1>3, ReversalBounds
<1>5. /\ schedule' \in Schedules /\ invoice' \in FeeInvoice
      /\ invoice' = [Recomputed(schedule', adjustment, invoice) EXCEPT
                      !.refunded = @ + refund[r].amount]
      /\ \A i \in Numbers : /\ schedule'[i].amount = schedule[i].amount
                            /\ schedule'[i].paid = schedule[i].paid - Reversal(r)[i]
  BY <1>2, <1>3, RefundWrites
<1>6. Total(Amounts(schedule')) = subtotal + adjustment'
  BY <1>2, <1>5, SameAmounts DEF Balance, LedgerAddsUp
<1> DEFINE again == Recomputed(schedule', adjustment', invoice)
<1>7. again \in FeeInvoice
  BY <1>1, <1>2, <1>5, RecomputedTypes
<1>8. invoice'.payable = again.payable /\ invoice'.paid = again.paid
      /\ invoice'.status = again.status
  <2>1. invoice' = [again EXCEPT !.refunded = @ + refund[r].amount]
    BY <1>2, <1>5
  <2> HIDE DEF again
  <2> QED BY <1>7, <2>1 DEF FeeInvoice
<1>9. LedgerAddsUp' /\ (invoice'.status = "CANCELLED" <=> invoice.status = "CANCELLED")
  <2>1. \E x : /\ x = Recomputed(schedule', adjustment', invoice)
               /\ invoice'.payable = x.payable /\ invoice'.paid = x.paid
               /\ invoice'.status = x.status
    BY <1>8
  <2> HIDE DEF again
  <2> QED BY <1>1, <1>2, <1>5, <1>6, <2>1, RecomputedBalances
<1>10. \A i \in Numbers :
         /\ schedule[i].paid \in Nat /\ schedule[i].amount \in Nat
         /\ schedule'[i].paid \in Nat /\ Reversal(r)[i] \in Nat
  BY <1>1, <1>4, <1>5 DEF Schedules
<1>11. PaidWithinAmount'
  BY <1>5, <1>10 DEF Balance, PaidWithinAmount
<1>12. CancelledIsUnpaid'
  BY <1>5, <1>9, <1>10 DEF Balance, CancelledIsUnpaid
<1> QED BY <1>9, <1>11, <1>12 DEF Balance, CancelledForGood

\* A correction (invoice.service.ts:571) keeps the balance.
LEMMA AddAdjustmentBalances ==
  ASSUME IInv, Balance, NEW delta \in Deltas, AddAdjustment(delta), TypeOK'
  PROVE  Balance' /\ CancelledForGood
<1> DEFINE new == applyDelta(schedule, delta)
<1>1. TypeOK /\ delta \in Int /\ schedule \in Schedules /\ adjustment \in Int
  BY LedgerAssumption DEF IInv, TypeOK
<1>2. /\ CanApplyDelta(schedule, delta) /\ schedule' = new
      /\ adjustment' = adjustment + delta
      /\ invoice' = Recomputed(schedule', adjustment', invoice)
      /\ invoice.status # "CANCELLED"
  BY DEF AddAdjustment
<1>3. /\ new \in Schedules /\ Total(Amounts(new)) = Total(Amounts(schedule)) + delta
      /\ \A i \in Numbers : schedule[i].paid <= schedule[i].amount => new[i].paid <= new[i].amount
  BY <1>1, <1>2, DeltaExact
<1> HIDE DEF new
<1>4. Total(Amounts(schedule')) = subtotal + adjustment'
  <2>1. subtotal \in Int
    BY LedgerAssumption, TotalType DEF subtotal
  <2>2. Total(Amounts(schedule)) = subtotal + adjustment
    BY DEF Balance, LedgerAddsUp
  <2> QED BY <1>1, <1>2, <1>3, <2>1, <2>2
<1>5. invoice' \in FeeInvoice /\ adjustment' \in Int /\ schedule' \in Schedules
  BY DEF TypeOK
<1>6. LedgerAddsUp' /\ (invoice'.status = "CANCELLED" <=> invoice.status = "CANCELLED")
  BY <1>1, <1>2, <1>4, <1>5, RecomputedBalances
<1>7. PaidWithinAmount'
  BY <1>2, <1>3 DEF Balance, PaidWithinAmount
<1>8. CancelledIsUnpaid'
  BY <1>2, <1>6 DEF CancelledIsUnpaid
<1> QED BY <1>6, <1>7, <1>8 DEF Balance, CancelledForGood

\* A late fee (invoice.service.ts:818) keeps the balance.
LEMMA LateFeeBalances ==
  ASSUME IInv, Balance, NEW l \in LateRuns, NEW i \in Numbers, LateFeesCharge(l, i), TypeOK'
  PROVE  Balance' /\ CancelledForGood
<1> DEFINE fee == charging[l][i]
<1>1. TypeOK /\ schedule \in Schedules /\ adjustment \in Int /\ fee \in Nat
  BY DEF IInv, TypeOK
<1>2. WriteLateFee(i, fee)
  BY DEF LateFeesCharge
<1> HIDE DEF fee
<1>3. /\ schedule' \in Schedules /\ invoice' \in FeeInvoice
      /\ \A j \in Numbers : /\ schedule'[j].paid = schedule[j].paid
                            /\ j # i => schedule'[j] = schedule[j]
      /\ schedule'[i].amount = schedule[i].amount + fee
      /\ adjustment' = adjustment + fee /\ adjustment' \in Int
      /\ invoice' = Recomputed(schedule', adjustment', invoice)
  BY <1>1, <1>2, LateFeeChargeWrites
<1>4. Total(Amounts(schedule')) = subtotal + adjustment'
  <2>1. \A j \in Numbers \ {i} : schedule'[j].amount = schedule[j].amount
    BY <1>3
  <2>2. Total(Amounts(schedule')) = Total(Amounts(schedule)) + fee
    BY <1>1, <1>3, <2>1, TotalRaised
  <2>3. Total(Amounts(schedule)) = subtotal + adjustment
    BY DEF Balance, LedgerAddsUp
  <2>4. subtotal \in Int
    BY LedgerAssumption, TotalType DEF subtotal
  <2> QED BY <1>1, <1>3, <2>2, <2>3, <2>4
<1>5. LedgerAddsUp' /\ (invoice'.status = "CANCELLED" <=> invoice.status = "CANCELLED")
  BY <1>1, <1>3, <1>4, RecomputedBalances
<1>6. PaidWithinAmount'
  BY <1>1, <1>3 DEF Balance, PaidWithinAmount, Schedules
<1>7. CancelledIsUnpaid'
  BY <1>3, <1>5 DEF Balance, CancelledIsUnpaid
<1> QED BY <1>5, <1>6, <1>7 DEF Balance, CancelledForGood

\* Cancelling the invoice (invoice.service.ts:639) keeps the balance: the stored
\* total it looks at is the sum of what is paid.
LEMMA CancelInvoiceBalances ==
  ASSUME IInv, Balance, CancelInvoice
  PROVE  Balance' /\ CancelledForGood
<1>1. schedule \in Schedules /\ invoice \in FeeInvoice
  BY DEF IInv, TypeOK
<1>2. /\ invoice.paid <= 0 /\ invoice' = [invoice EXCEPT !.status = "CANCELLED"]
      /\ schedule' = schedule /\ adjustment' = adjustment
  BY DEF CancelInvoice
<1>3. /\ invoice'.status = "CANCELLED" /\ invoice'.payable = invoice.payable
      /\ invoice'.paid = invoice.paid
  BY <1>1, <1>2 DEF FeeInvoice
<1>4. CancelledIsUnpaid'
  <2>1. Paids(schedule) \in [Numbers -> Nat]
        /\ \A i \in Numbers : Paids(schedule)[i] = schedule[i].paid
    BY <1>1, ScheduleTypes
  <2>2. Total(Paids(schedule)) \in Nat
        /\ \A i \in Numbers : Paids(schedule)[i] <= Total(Paids(schedule))
    BY <2>1, TotalType
  <2>3. Total(Paids(schedule)) <= 0
    BY <1>2 DEF Balance, LedgerAddsUp
  <2>4. \A i \in Numbers : schedule[i].paid = 0
    BY <1>1, <2>1, <2>2, <2>3 DEF Schedules
  <2> QED BY <1>2, <2>4 DEF CancelledIsUnpaid
<1>5. LedgerAddsUp'
  BY <1>2, <1>3 DEF Balance, LedgerAddsUp, deriveInvoiceStatus
<1>6. PaidWithinAmount'
  BY <1>2 DEF Balance, PaidWithinAmount
<1> QED BY <1>3, <1>4, <1>5, <1>6 DEF Balance, CancelledForGood

\* Every step keeps the balance, and a cancelled invoice cancelled.
LEMMA BalanceInductive ==
  IInv /\ TypeOK' /\ Balance /\ [Next]_vars => Balance' /\ CancelledForGood
<1> SUFFICES ASSUME IInv, TypeOK', Balance, [Next]_vars
             PROVE  Balance' /\ CancelledForGood
  OBVIOUS
<1>1. CASE UNCHANGED <<schedule, adjustment, invoice>>
  BY <1>1 DEF Balance, PaidWithinAmount, LedgerAddsUp, CancelledIsUnpaid, CancelledForGood
<1> QED BY <1>1, LedgerWriters, SettleBalances, BookRefundBalances, AddAdjustmentBalances,
           CancelInvoiceBalances, LateFeeBalances

\* The ledger is in balance in every reachable state.
LEMMA BalanceInvariant == Spec => []Balance
<1>1. IInv => TypeOK
  BY DEF IInv
<1> QED BY <1>1, BalanceInitially, BalanceInductive, Invariant, PTL DEF Spec

\* No installment is ever paid beyond its amount (billing.ts:305, 346).
THEOREM NeverPaidBeyondAmount == Spec => []PaidWithinAmount
<1>1. Balance => PaidWithinAmount
  BY DEF Balance
<1> QED BY <1>1, BalanceInvariant, PTL

\* recomputeInvoice never meets a ledger mismatch (invoiceCore.ts:276), and the
\* stored totals and status never drift from the rows they are derived from.
THEOREM LedgerNeverMismatches == Spec => []LedgerAddsUp
<1>1. Balance => LedgerAddsUp
  BY DEF Balance
<1> QED BY <1>1, BalanceInvariant, PTL

\* A cancelled invoice holds no money, whatever was in flight when it was
\* cancelled (invoice.service.ts:635, 649).
THEOREM CancelledStaysEmpty == Spec => []CancelledHoldsNoMoney
<1>1. IInv /\ Balance => CancelledHoldsNoMoney
  <2>1. SUFFICES ASSUME IInv, Balance, invoice.status = "CANCELLED", NEW t \in Attempts
                 PROVE  tx[t].alloc = Nobody
    BY DEF Balance, CancelledIsUnpaid, CancelledHoldsNoMoney
  <2>2. \A i \in Numbers : tx[t].alloc[i] = 0
    <3> TAKE i \in Numbers
    <3>1. tx[t].alloc[i] \in Nat /\ tx[t].alloc[i] <= schedule[i].paid
      BY <2>1, AllocatedIsPaid DEF IInv
    <3>2. schedule[i].paid = 0
      BY <2>1 DEF Balance, CancelledIsUnpaid
    <3> QED BY <3>1, <3>2
  <2>3. tx[t].alloc \in [Numbers -> Nat]
    BY <2>1 DEF IInv, TypeOK, PaymentTransaction
  <2> QED BY <2>2, <2>3 DEF Nobody
<1> QED BY <1>1, Invariant, BalanceInvariant, PTL

\* Overlapping late-fee runs charge an installment once (invoice.service.ts:793),
\* however many runs hold it as a candidate.
THEOREM ChargedOnce == Spec => LateFeeOnce
<1> DEFINE Once == \A i \in lateFees :
                     schedule'[i].amount > schedule[i].amount => UNCHANGED charging
<1>1. IInv /\ [Next]_vars => [Once]_vars
  <2> SUFFICES ASSUME IInv, [Next]_vars, NEW i \in lateFees, charging' # charging
               PROVE  ~(schedule'[i].amount > schedule[i].amount)
    OBVIOUS
  <2>1. /\ TypeOK /\ schedule \in Schedules /\ i \in Numbers
        /\ \A l \in LateRuns, j \in Numbers : charging[l][j] \in Nat
    BY DEF IInv, TypeOK
  <2>2. schedule[i].amount \in Nat
    BY <2>1 DEF Schedules
  <2>3. CASE schedule' = schedule
    BY <2>2, <2>3
  <2>4. ASSUME NEW l \in LateRuns, NEW j \in Numbers, LateFeesCharge(l, j)
        PROVE  schedule'[i] = schedule[i]
    <3>1. j \notin lateFees /\ WriteLateFee(j, charging[l][j])
      BY <2>4 DEF LateFeesCharge
    <3> QED BY <2>1, <3>1, LateFeeChargeWrites
  <2>5. ASSUME schedule' # schedule PROVE \E l \in LateRuns, j \in Numbers : LateFeesCharge(l, j)
    <3>1. ASSUME NEW h \in Handlers, Settle(h) PROVE FALSE
      BY <3>1 DEF Settle
    <3>2. ASSUME NEW r \in Refunds, BookRefund(r) PROVE FALSE
      BY <3>2 DEF BookRefund
    <3>3. ASSUME NEW delta \in Deltas, AddAdjustment(delta) PROVE FALSE
      BY <3>3 DEF AddAdjustment
    <3>4. ASSUME CancelInvoice PROVE FALSE
      BY <3>4 DEF CancelInvoice
    <3> QED BY <2>5, <3>1, <3>2, <3>3, <3>4, LedgerWriters
  <2>6. ASSUME schedule'[i] = schedule[i]
        PROVE  ~(schedule'[i].amount > schedule[i].amount)
    BY <2>2, <2>6
  <2> QED BY <2>3, <2>4, <2>5, <2>6
<1> QED BY <1>1, Invariant, PTL DEF Spec, LateFeeOnce

-----------------------------------------------------------------------------
(***************************************************************************)
(* The invariant.                                                          *)
(***************************************************************************)

\* A refund row that counts against payment t.
Counts(row, t) == row.tx = t /\ row.status \in {"PENDING", "SUCCESS"}

RowSum(rows, S) == SumFunctionOnSet([r \in Refunds |-> rows[r].amount], S)

LiveRows(rows, t) ==
  {r \in Refunds : rows[r].tx = t /\ rows[r].status \in {"PENDING", "SUCCESS"}}

BookedRows(rows, t, charges) ==
  {r \in Refunds : /\ rows[r].tx = t /\ rows[r].status = "SUCCESS"
                   /\ rows[r].reverseCharge \in charges}

\* The row of payment t agrees with the refund rows.
Accounted(rows, row, t) ==
  /\ RowSum(rows, LiveRows(rows, t)) <= row.amount
  /\ row.refunded = RowSum(rows, BookedRows(rows, t, BOOLEAN))
  /\ row.status = "REFUNDED" <=> /\ row.status \in {"SUCCESS", "REFUNDED"}
                                 /\ row.refunded >= row.amount
  /\ IF row.status \in {"SUCCESS", "REFUNDED"}
       THEN Total(row.alloc) + row.excess + RowSum(rows, BookedRows(rows, t, {TRUE}))
              = row.amount
       ELSE row.alloc = Nobody /\ row.excess = 0

AllAccounted == \A t \in Attempts : Accounted(refund, tx[t], t)

RefundsAddUp == invoice.refunded = SumFunction([t \in Attempts |-> tx[t].refunded])

\* bKash holds money of a payment exactly when it has completed it.
CapturesClear ==
  \A t \in Attempts : /\ gateway[t].state # "completed" => gateway[t].captured = 0
                      /\ gateway[t].state = "completed" => gateway[t].captured > 0

Accounts == AllAccounted /\ RefundsAddUp /\ CapturesClear

\* The parts of the invariant are the properties of the ledger.
LEMMA AccountsImply == Accounts => CapturedIsAccounted /\ RefundsWithinPayment
<1> SUFFICES ASSUME Accounts PROVE CapturedIsAccounted /\ RefundsWithinPayment
  OBVIOUS
<1>1. \A t \in Attempts : Accounted(refund, tx[t], t)
  BY DEF Accounts, AllAccounted
<1>2. CapturedIsAccounted
  BY <1>1 DEF Accounted, CapturedIsAccounted, RowSum, BookedRows, RefundSum, Succeeded, Done
<1>3. RefundsWithinPayment
  BY <1>1 DEF Accounts, RefundsAddUp, Accounted, RefundsWithinPayment, RowSum, LiveRows,
       BookedRows, RefundSum, Succeeded, Done
<1> QED BY <1>2, <1>3

-----------------------------------------------------------------------------
(***************************************************************************)
(* Sums of refund rows.                                                    *)
(***************************************************************************)

\* The sum over rows whose amounts are the same in both tables is the same.
LEMMA RowsAgree ==
  ASSUME NEW rows \in [Refunds -> RefundRow], NEW new \in [Refunds -> RefundRow],
         NEW S \in SUBSET Refunds, \A r \in S : new[r].amount = rows[r].amount
  PROVE  RowSum(new, S) = RowSum(rows, S) /\ RowSum(rows, S) \in Nat
<1> DEFINE f == [r \in Refunds |-> rows[r].amount]
           g == [r \in Refunds |-> new[r].amount]
<1>1. IsFiniteSet(S)
  BY LedgerAssumption, FS_Subset
<1>2. \A r \in S : f[r] \in Nat /\ f[r] = g[r]
  BY DEF RefundRow
<1> HIDE DEF f, g
<1>3. \A r \in S : f[r] \in Int /\ f[r] = g[r]
  BY <1>2
<1>4. SumFunctionOnSet(f, S) = SumFunctionOnSet(g, S)
  BY <1>1, <1>3, SumAgree
<1>5. SumFunctionOnSet(f, S) \in Nat
  BY <1>1, <1>2, SumNat
<1> QED BY <1>4, <1>5 DEF RowSum, f, g

\* Some of the rows sum to no more than all of them.
LEMMA RowsMonotone ==
  ASSUME NEW rows \in [Refunds -> RefundRow], NEW T \in SUBSET Refunds,
         NEW S \in SUBSET T
  PROVE  RowSum(rows, S) <= RowSum(rows, T)
<1> DEFINE f == [r \in Refunds |-> rows[r].amount]
<1>1. IsFiniteSet(T)
  BY LedgerAssumption, FS_Subset
<1>2. \A r \in T : f[r] \in Nat
  BY DEF RefundRow
<1> HIDE DEF f
<1>3. SumFunctionOnSet(f, S) <= SumFunctionOnSet(f, T)
  BY <1>1, <1>2, SumSubset
<1> QED BY <1>3 DEF RowSum, f

\* One more row adds its amount.
LEMMA RowAdded ==
  ASSUME NEW rows \in [Refunds -> RefundRow], NEW new \in [Refunds -> RefundRow],
         NEW S \in SUBSET Refunds, NEW r \in Refunds, r \notin S,
         \A q \in S : new[q].amount = rows[q].amount
  PROVE  /\ RowSum(new, S \cup {r}) = RowSum(rows, S) + new[r].amount
         /\ RowSum(rows, S) \in Nat
<1> DEFINE g == [q \in Refunds |-> new[q].amount]
           T == S \cup {r}
<1>1. IsFiniteSet(T) /\ r \in T /\ T \ {r} = S
  BY LedgerAssumption, FS_Subset
<1>2. \A q \in T : g[q] \in Int
  BY DEF RefundRow
<1>3. g[r] = new[r].amount
  OBVIOUS
<1> HIDE DEF g, T
<1>4. SumFunctionOnSet(g, T) = g[r] + SumFunctionOnSet(g, T \ {r})
  BY <1>1, <1>2, SumRemove
<1>5. RowSum(new, S) = RowSum(rows, S) /\ RowSum(rows, S) \in Nat
  BY RowsAgree
<1>6. SumFunctionOnSet(g, S) = RowSum(new, S) /\ SumFunctionOnSet(g, T) = RowSum(new, T)
  BY DEF RowSum, g
<1>7. RowSum(new, T) = g[r] + RowSum(new, S)
  BY <1>1, <1>4, <1>6
<1>8. g[r] \in Nat
  BY <1>3 DEF RefundRow
<1> QED BY <1>3, <1>5, <1>7, <1>8 DEF T

\* A payment is still accounted for when only rows change that do not count
\* against it, before or after.
LEMMA OtherRows ==
  ASSUME NEW rows \in [Refunds -> RefundRow], NEW new \in [Refunds -> RefundRow],
         NEW row, NEW t, Accounted(rows, row, t),
         \A r \in Refunds : \/ new[r] = rows[r]
                            \/ ~Counts(rows[r], t) /\ ~Counts(new[r], t)
  PROVE  Accounted(new, row, t)
<1>1. LiveRows(new, t) = LiveRows(rows, t)
  BY DEF LiveRows, Counts
<1>2. ASSUME NEW charges PROVE BookedRows(new, t, charges) = BookedRows(rows, t, charges)
  BY DEF BookedRows, Counts
<1>3. ASSUME NEW S \in SUBSET LiveRows(rows, t) PROVE RowSum(new, S) = RowSum(rows, S)
  <2>1. S \in SUBSET Refunds /\ \A r \in S : new[r].amount = rows[r].amount
    BY DEF LiveRows, Counts
  <2> QED BY <2>1, RowsAgree
<1>4. ASSUME NEW charges PROVE BookedRows(rows, t, charges) \in SUBSET LiveRows(rows, t)
  BY DEF BookedRows, LiveRows
<1>5. /\ RowSum(new, LiveRows(new, t)) = RowSum(rows, LiveRows(rows, t))
      /\ RowSum(new, BookedRows(new, t, BOOLEAN)) = RowSum(rows, BookedRows(rows, t, BOOLEAN))
      /\ RowSum(new, BookedRows(new, t, {TRUE})) = RowSum(rows, BookedRows(rows, t, {TRUE}))
  BY <1>1, <1>2, <1>3, <1>4
<1> QED BY <1>5 DEF Accounted

\* No row counts against t: nothing of it is refunded or reserved.
LEMMA NoRows ==
  ASSUME NEW rows, NEW t, \A r \in Refunds : ~Counts(rows[r], t)
  PROVE  /\ RowSum(rows, LiveRows(rows, t)) = 0
         /\ \A charges : RowSum(rows, BookedRows(rows, t, charges)) = 0
<1>1. LiveRows(rows, t) = {} /\ \A charges : BookedRows(rows, t, charges) = {}
  BY DEF LiveRows, BookedRows, Counts
<1> QED BY <1>1, SumEmpty DEF RowSum

\* Refund rows count against settled payments only.
LEMMA UnsettledHasNoRows ==
  ASSUME IInv, NEW t \in Attempts, ~Done(t)
  PROVE  \A r \in Refunds : ~Counts(refund[r], t)
BY DEF IInv, RefundsSound, RefundSound, Counts

-----------------------------------------------------------------------------
(***************************************************************************)
(* What each step does to payments, refunds and captures.                  *)
(***************************************************************************)

\* A step that settles nothing and touches no settled payment and no refund.
Quiet ==
  /\ refund' = refund
  /\ invoice'.refunded = invoice.refunded
  /\ \A t \in Attempts :
       IF tx[t].status \in {"SUCCESS", "REFUNDED"}
         THEN tx'[t] = tx[t]
         ELSE tx'[t].status \notin {"SUCCESS", "REFUNDED"}

SameCaptures ==
  \A t \in Attempts : /\ gateway'[t].captured = gateway[t].captured
                      /\ gateway'[t].state = "completed" <=> gateway[t].state = "completed"

\* recomputeInvoice does not write the refunded column.
LEMMA RecomputedRefunded ==
  ASSUME NEW s, NEW adj, NEW inv \in FeeInvoice
  PROVE  Recomputed(s, adj, inv).refunded = inv.refunded
BY DEF Recomputed, FeeInvoice

\* Steps of the database that leave payments and refunds alone.
LEMMA NothingSettled ==
  ASSUME UNCHANGED <<tx, refund>>, invoice'.refunded = invoice.refunded
  PROVE  Quiet
<1>1. \A t \in Attempts : tx'[t] = tx[t]
  OBVIOUS
<1> QED BY <1>1 DEF Quiet

\* The steps of a payment handler before it settles.
LEMMA HandlersAreQuiet ==
  ASSUME IInv, NEW h \in Handlers,
         \/ \E t \in Attempts : \/ InitPaymentRead(h, t) \/ CallbackRead(h, t)
                                \/ CallbackAbandonRead(h, t) \/ VerifyRead(h, t)
         \/ InitPaymentInsert(h) \/ CallbackMarkPending(h) \/ CallbackAbandon(h)
         \/ ExecuteFailed(h) \/ QueryCompleted(h) \/ CallbackUnconfirmed(h)
         \/ VerifyUnanswered(h) \/ SettleAlreadyDone(h) \/ HandlerDies(h)
  PROVE  Quiet /\ SameCaptures
<1> DEFINE p == handler[h].tx
<1> USE DEF ledgerVars, gatewayVars
<1>1. /\ TypeOK /\ HandlerSound(h) /\ tx \in [Attempts -> PaymentTransaction]
  BY DEF IInv, HandlersSound, TypeOK
<1>2. CASE \/ \E t \in Attempts : \/ InitPaymentRead(h, t) \/ CallbackRead(h, t)
                                  \/ CallbackAbandonRead(h, t) \/ VerifyRead(h, t)
           \/ ExecuteFailed(h) \/ QueryCompleted(h) \/ VerifyUnanswered(h)
           \/ SettleAlreadyDone(h) \/ HandlerDies(h)
  <2>1. UNCHANGED <<tx, refund, invoice, gateway>>
    BY <1>2 DEF InitPaymentRead, CallbackRead, CallbackAbandonRead, VerifyRead,
         ExecuteFailed, QueryCompleted, VerifyUnanswered, SettleAlreadyDone, HandlerDies
  <2> QED BY <2>1, NothingSettled DEF SameCaptures
<1>3. CASE InitPaymentInsert(h)
  <2>1. /\ handler[h].step = "creating" /\ UNCHANGED <<refund, invoice, gateway>>
        /\ tx' = [tx EXCEPT ![p].status = "INITIATED", ![p].amount = handler[h].amount]
    BY <1>3 DEF InitPaymentInsert
  <2>2. p \in Attempts /\ tx[p].status = "NONE"
    BY <1>1, <2>1 DEF HandlerSound
  <2>3. tx' = [tx EXCEPT ![p] = [tx[p] EXCEPT !.status = "INITIATED", !.amount = handler[h].amount]]
    BY <1>1, <2>1, <2>2
  <2>4. [tx[p] EXCEPT !.status = "INITIATED", !.amount = handler[h].amount].status = "INITIATED"
    BY <1>1, <2>2 DEF PaymentTransaction
  <2>5. tx'[p].status = "INITIATED" /\ \A q \in Attempts \ {p} : tx'[q] = tx[q]
    BY <1>1, <2>2, <2>3, <2>4
  <2> QED BY <2>1, <2>2, <2>5 DEF Quiet, SameCaptures
<1>4. CASE CallbackMarkPending(h) \/ CallbackAbandon(h) \/ CallbackUnconfirmed(h)
  <2>1. /\ handler[h].step \in {"marking", "abandoning", "querying"}
        /\ UNCHANGED <<refund, invoice, gateway>>
    BY <1>4 DEF CallbackMarkPending, CallbackAbandon, CallbackUnconfirmed, Move
  <2>2. p \in Attempts
    BY <1>1, <2>1 DEF HandlerSound
  <2>3. PICK status :
          /\ tx' = [tx EXCEPT ![p].status = status]
          /\ status = tx[p].status \/ (~Done(p) /\ status \notin {"SUCCESS", "REFUNDED"})
    <3>1. CASE CallbackMarkPending(h)
      <4> DEFINE new == IF tx[p].status = "INITIATED" THEN "PENDING" ELSE tx[p].status
      <4>1. tx' = [tx EXCEPT ![p].status = new]
        BY <1>1, <3>1 DEF CallbackMarkPending
      <4>2. new = tx[p].status \/ (~Done(p) /\ new \notin {"SUCCESS", "REFUNDED"})
        BY DEF Done
      <4> QED BY <4>1, <4>2
    <3>2. CASE CallbackAbandon(h)
      <4>1. PICK outcome \in {"CANCELLED", "FAILED"} :
              tx' = [tx EXCEPT ![p].status = IF @ \in {"INITIATED", "PENDING"}
                                               THEN outcome ELSE @]
        BY <3>2 DEF CallbackAbandon
      <4> DEFINE new == IF tx[p].status \in {"INITIATED", "PENDING"}
                          THEN outcome ELSE tx[p].status
      <4>2. tx' = [tx EXCEPT ![p].status = new]
        BY <1>1, <4>1
      <4>3. new = tx[p].status \/ (~Done(p) /\ new \notin {"SUCCESS", "REFUNDED"})
        BY DEF Done
      <4> QED BY <4>2, <4>3
    <3>3. CASE CallbackUnconfirmed(h)
      <4> DEFINE new == IF tx[p].status = "PENDING" THEN "FAILED" ELSE tx[p].status
      <4>1. tx' = [tx EXCEPT ![p].status = new]
        BY <1>1, <3>3 DEF CallbackUnconfirmed
      <4>2. new = tx[p].status \/ (~Done(p) /\ new \notin {"SUCCESS", "REFUNDED"})
        BY DEF Done
      <4> QED BY <4>1, <4>2
    <3> QED BY <1>4, <3>1, <3>2, <3>3
  <2>4. \A q \in Attempts \ {p} : tx'[q] = tx[q]
    BY <1>1, <2>3
  <2>5. tx'[p] = [tx[p] EXCEPT !.status = status] /\ tx[p] \in PaymentTransaction
    BY <1>1, <2>2, <2>3
  <2>6. tx'[p].status = status /\ (status = tx[p].status => tx'[p] = tx[p])
    BY <2>5 DEF PaymentTransaction
  <2> QED BY <2>1, <2>2, <2>3, <2>4, <2>6 DEF Quiet, SameCaptures, Done
<1> QED BY <1>2, <1>3, <1>4

\* bKash captures a payment of which nothing was captured before.
LEMMA CaptureTakes ==
  ASSUME TypeOK, NEW t \in Attempts, Capture(t)
  PROVE  /\ gateway[t].state = "approved" /\ gateway'[t].state = "completed"
         /\ gateway'[t].captured \in Nat /\ gateway'[t].captured > 0
         /\ gateway' = [gateway EXCEPT ![t] = gateway'[t]]
         /\ \A q \in Attempts \ {t} : gateway'[q] = gateway[q]
<1>1. PICK drift \in CaptureDrift :
        /\ tx[t].amount + drift > 0
        /\ gateway' = [gateway EXCEPT ![t] = [state    |-> "completed",
                                              captured |-> tx[t].amount + drift]]
  BY DEF Capture
<1>2. drift \in Int /\ tx[t].amount \in Nat /\ gateway \in [Attempts -> GatewayRecord]
  BY LedgerAssumption DEF TypeOK, PaymentTransaction
<1> QED BY <1>1, <1>2 DEF Capture

\* The steps in which bKash captures.
LEMMA ExecuteIsQuiet ==
  ASSUME IInv, NEW h \in Handlers, ExecuteConfirmed(h) \/ ExecuteAnswerLost(h)
  PROVE  Quiet /\ \E t \in Attempts : Capture(t)
<1> USE DEF ledgerVars
<1>1. handler[h].step = "executing" /\ Capture(handler[h].tx) /\ UNCHANGED <<tx, refund, invoice>>
  BY DEF ExecuteConfirmed, ExecuteAnswerLost, Move
<1>2. handler[h].tx \in Attempts
  BY <1>1 DEF IInv, HandlersSound, HandlerSound
<1> QED BY <1>1, <1>2, NothingSettled

\* Refund requests other than by reserving, failing and booking.
LEMMA RefundsAreQuiet ==
  ASSUME NEW r \in Refunds,
         \/ RefundConfirmed(r) \/ RefundAnswerLost(r) \/ RefundRefused(r)
         \/ BookRefundAborts(r) \/ RefundDies(r)
  PROVE  Quiet /\ SameCaptures
<1>1. UNCHANGED <<tx, refund, invoice, gateway>>
  BY DEF RefundConfirmed, RefundAnswerLost, RefundRefused, BookRefundAborts, RefundDies,
     GatewayRefunds, ledgerVars, gatewayVars
<1> QED BY <1>1, NothingSettled DEF SameCaptures

\* Corrections, cancellation and late fees settle nothing and refund nothing.
LEMMA InvoiceIsQuiet ==
  ASSUME IInv,
         \/ \E delta \in Deltas : AddAdjustment(delta)
         \/ CancelInvoice
         \/ LateFeeStep
         \/ \E i \in Numbers : DueDatePasses(i)
  PROVE  Quiet /\ SameCaptures
<1> USE DEF ledgerVars, gatewayVars
<1>1. invoice \in FeeInvoice
  BY DEF IInv, TypeOK
<1>2. CASE \E delta \in Deltas : AddAdjustment(delta)
  <2>1. PICK delta \in Deltas :
          /\ UNCHANGED <<tx, refund, gateway>>
          /\ invoice' = Recomputed(applyDelta(schedule, delta), adjustment + delta, invoice)
    BY <1>2 DEF AddAdjustment
  <2>2. invoice'.refunded = invoice.refunded
    BY <1>1, <2>1, RecomputedRefunded
  <2> QED BY <2>1, <2>2, NothingSettled DEF SameCaptures
<1>3. CASE CancelInvoice
  <2>1. /\ UNCHANGED <<refund, gateway>> /\ tx' = CancelAttempts
        /\ invoice' = [invoice EXCEPT !.status = "CANCELLED"]
    BY <1>3 DEF CancelInvoice
  <2>2. invoice'.refunded = invoice.refunded
    BY <1>1, <2>1 DEF FeeInvoice
  <2>3. ASSUME NEW t \in Attempts
        PROVE  IF tx[t].status \in {"SUCCESS", "REFUNDED"}
                 THEN tx'[t] = tx[t]
                 ELSE tx'[t].status \notin {"SUCCESS", "REFUNDED"}
    <3>1. tx[t] \in PaymentTransaction
      BY DEF IInv, TypeOK
    <3>2. tx'[t] = IF tx[t].status \in {"INITIATED", "PENDING"}
                     THEN [tx[t] EXCEPT !.status = "CANCELLED"] ELSE tx[t]
      BY <2>1 DEF CancelAttempts
    <3> QED BY <3>1, <3>2 DEF PaymentTransaction
  <2> QED BY <2>1, <2>2, <2>3 DEF Quiet, SameCaptures
<1>4. CASE LateFeeStep
  <2>1. ASSUME NEW l \in LateRuns, NEW i \in Numbers, LateFeesCharge(l, i)
        PROVE  Quiet /\ SameCaptures
    <3>1. /\ UNCHANGED <<tx, refund, gateway>>
          /\ WriteLateFee(i, charging[l][i])
      BY <2>1 DEF LateFeesCharge
    <3>2. invoice'.refunded = invoice.refunded
      BY <1>1, <3>1, RecomputedRefunded DEF WriteLateFee
    <3> QED BY <3>1, <3>2, NothingSettled DEF SameCaptures
  <2>2. ASSUME UNCHANGED <<tx, refund, invoice, gateway>> PROVE Quiet /\ SameCaptures
    BY <2>2, NothingSettled DEF SameCaptures
  <2> QED BY <1>4, <2>1, <2>2 DEF LateFeeStep, LateFeesScan, LateFeesSkip, LateRunDies
<1>5. CASE \E i \in Numbers : DueDatePasses(i)
  <2>1. UNCHANGED <<tx, refund, invoice, gateway>>
    BY <1>5 DEF DueDatePasses
  <2> QED BY <2>1, NothingSettled DEF SameCaptures
<1> QED BY <1>2, <1>3, <1>4, <1>5

\* Every step is quiet, or settles a payment, or reserves, gives up or books a
\* refund.
LEMMA StepKinds ==
  ASSUME IInv, [Next]_vars
  PROVE  \/ Quiet /\ SameCaptures
         \/ Quiet /\ \E t \in Attempts : Capture(t)
         \/ \E h \in Handlers : Settle(h)
         \/ \E r \in Refunds, t \in Attempts, reverseCharge \in BOOLEAN :
              ReserveRefund(r, t, reverseCharge)
         \/ \E r \in Refunds : RefundFails(r) \/ BookRefund(r)
<1>1. CASE PaymentStep
  BY <1>1, HandlersAreQuiet, ExecuteIsQuiet DEF PaymentStep
<1>2. CASE RefundStepOf
  BY <1>2, RefundsAreQuiet DEF RefundStepOf
<1>3. CASE \/ \E delta \in Deltas : AddAdjustment(delta)
           \/ CancelInvoice
           \/ LateFeeStep
           \/ \E i \in Numbers : DueDatePasses(i)
  BY <1>3, InvoiceIsQuiet
<1>4. CASE \E t \in Attempts : CustomerApproves(t)
  <2>1. PICK t \in Attempts : /\ gateway[t].state = "created"
                              /\ gateway' = [gateway EXCEPT ![t].state = "approved"]
                              /\ UNCHANGED <<tx, refund, invoice>>
    BY <1>4 DEF CustomerApproves, ledgerVars
  <2>2. gateway \in [Attempts -> GatewayRecord]
    BY DEF IInv, TypeOK
  <2>3. SameCaptures
    BY <2>1, <2>2 DEF SameCaptures, GatewayRecord
  <2> QED BY <2>1, <2>3, NothingSettled
<1>5. CASE UNCHANGED vars
  <2>1. UNCHANGED <<tx, refund, invoice, gateway>>
    BY <1>5 DEF vars, ledgerVars, gatewayVars
  <2> QED BY <2>1, NothingSettled DEF SameCaptures
<1> QED BY <1>1, <1>2, <1>3, <1>4, <1>5 DEF Next

-----------------------------------------------------------------------------
(***************************************************************************)
(* The invariant is kept.                                                  *)
(***************************************************************************)

\* Nothing is refunded, reserved or captured of a new invoice.
LEMMA AccountsInitially == Init => Accounts
<1> SUFFICES ASSUME Init PROVE Accounts
  OBVIOUS
<1>1. ASSUME NEW t \in Attempts
      PROVE  /\ tx[t] = [status |-> "NONE", amount |-> 0, excess |-> 0, refunded |-> 0,
                         alloc |-> Nobody]
             /\ gateway[t] = [state |-> "created", captured |-> 0]
             /\ \A r \in Refunds : ~Counts(refund[r], t)
  BY DEF Init, Counts
<1>2. ASSUME NEW t \in Attempts PROVE Accounted(refund, tx[t], t)
  <2>1. \A r \in Refunds : ~Counts(refund[r], t)
    BY <1>1
  <2>2. /\ tx[t].status = "NONE" /\ tx[t].amount = 0 /\ tx[t].excess = 0
        /\ tx[t].refunded = 0 /\ tx[t].alloc = Nobody
    BY <1>1
  <2> QED BY <2>1, <2>2, NoRows DEF Accounted
<1>3. RefundsAddUp
  <2> DEFINE f == [t \in Attempts |-> tx[t].refunded]
  <2>1. \A t \in Attempts : f[t] \in Int /\ f[t] = 0
    BY <1>1
  <2>2. invoice.refunded = 0 /\ DOMAIN f = Attempts
    BY DEF Init
  <2> HIDE DEF f
  <2>3. SumFunctionOnSet(f, Attempts) = 0
    BY <2>1, LedgerAssumption, SumZero
  <2> QED BY <2>2, <2>3 DEF RefundsAddUp, SumFunction, f
<1>4. CapturesClear
  BY <1>1 DEF CapturesClear
<1> QED BY <1>2, <1>3, <1>4 DEF Accounts, AllAccounted

\* A payment that is not settled is accounted for: nothing of it is anywhere.
LEMMA UnsettledAccounted ==
  ASSUME NEW rows, NEW row \in PaymentTransaction, NEW t,
         \A r \in Refunds : ~Counts(rows[r], t),
         row.status \notin {"SUCCESS", "REFUNDED"},
         row.alloc = Nobody, row.excess = 0, row.refunded = 0
  PROVE  Accounted(rows, row, t)
BY NoRows DEF Accounted, PaymentTransaction

\* The refunds of all payments add up after one payment's refunded amount
\* changes by as much as the invoice's.
LEMMA RefundedChange ==
  ASSUME TypeOK, RefundsAddUp, NEW t \in Attempts, NEW d \in Int,
         tx' \in [Attempts -> PaymentTransaction],
         \A q \in Attempts \ {t} : tx'[q].refunded = tx[q].refunded,
         tx'[t].refunded = tx[t].refunded + d,
         invoice'.refunded = invoice.refunded + d
  PROVE  RefundsAddUp'
<1> DEFINE f == [q \in Attempts |-> tx[q].refunded]
           g == [q \in Attempts |-> tx'[q].refunded]
<1>1. \A q \in Attempts : f[q] \in Int /\ g[q] \in Int
  BY DEF TypeOK, PaymentTransaction
<1>2. \A q \in Attempts \ {t} : f[q] = g[q]
  OBVIOUS
<1>3. g[t] = f[t] + d /\ DOMAIN f = Attempts /\ DOMAIN g = Attempts
  OBVIOUS
<1>4. invoice.refunded = SumFunction(f)
  BY DEF RefundsAddUp
<1> HIDE DEF f, g
<1>5. /\ SumFunctionOnSet(f, Attempts) \in Int
      /\ SumFunctionOnSet(g, Attempts) = SumFunctionOnSet(f, Attempts) - f[t] + g[t]
  <2> DEFINE T == Attempts \ {t}
  <2>1. IsFiniteSet(Attempts) /\ IsFiniteSet(T)
    BY LedgerAssumption, FS_Subset
  <2>2. \A q \in T : f[q] \in Int /\ f[q] = g[q]
    BY <1>1, <1>2
  <2>3. T = Attempts \ {t}
    OBVIOUS
  <2> HIDE DEF T
  <2>4. SumFunctionOnSet(f, T) = SumFunctionOnSet(g, T)
    BY <2>1, <2>2, SumAgree
  <2>5. /\ SumFunctionOnSet(f, Attempts) = f[t] + SumFunctionOnSet(f, T)
        /\ SumFunctionOnSet(f, T) \in Int
    BY <1>1, <2>1, <2>3, SumWithout
  <2>6. SumFunctionOnSet(g, Attempts) = g[t] + SumFunctionOnSet(g, T)
    BY <1>1, <2>1, <2>3, SumWithout
  <2> QED BY <1>1, <2>4, <2>5, <2>6
<1>6. SumFunction(g) = SumFunction(f) + d
  BY <1>1, <1>3, <1>5 DEF SumFunction
<1>7. invoice'.refunded = SumFunction(g)
  BY <1>4, <1>6
<1> QED BY <1>7 DEF RefundsAddUp, g

\* When no refunded amount changes, the refunds still add up.
LEMMA RefundedSame ==
  ASSUME RefundsAddUp, invoice'.refunded = invoice.refunded,
         \A t \in Attempts : tx'[t].refunded = tx[t].refunded
  PROVE  RefundsAddUp'
<1>1. [t \in Attempts |-> tx'[t].refunded] = [t \in Attempts |-> tx[t].refunded]
  OBVIOUS
<1> QED BY <1>1 DEF RefundsAddUp

\* A capture leaves bKash's records clear.
LEMMA CapturesStayClear ==
  ASSUME TypeOK, CapturesClear, SameCaptures \/ \E t \in Attempts : Capture(t)
  PROVE  CapturesClear'
<1>1. CASE SameCaptures
  BY <1>1 DEF CapturesClear, SameCaptures
<1>2. CASE \E t \in Attempts : Capture(t)
  BY <1>2, CaptureTakes DEF CapturesClear
<1> QED BY <1>1, <1>2

\* Quiet steps keep every payment accounted for.
LEMMA QuietKeeps ==
  ASSUME IInv, IInv', Accounts, Quiet
  PROVE  AllAccounted' /\ RefundsAddUp'
<1>1. ASSUME NEW t \in Attempts
      PROVE  Accounted(refund', tx'[t], t) /\ tx'[t].refunded = tx[t].refunded
  <2>1. CASE Done(t)
    <3>1. tx'[t] = tx[t] /\ refund' = refund
      BY <2>1 DEF Quiet, Done
    <3> QED BY <3>1 DEF Accounts, AllAccounted
  <2>2. CASE ~Done(t)
    <3>1. tx'[t].status \notin {"SUCCESS", "REFUNDED"} /\ refund' = refund
      BY <2>2 DEF Quiet, Done
    <3>2. \A r \in Refunds : ~Counts(refund[r], t)
      BY <2>2, UnsettledHasNoRows
    <3>3. /\ tx'[t] \in PaymentTransaction /\ tx[t].refunded = 0
          /\ tx'[t].alloc = Nobody /\ tx'[t].excess = 0 /\ tx'[t].refunded = 0
      BY <2>2, <3>1 DEF IInv, TypeOK, UnsettledIsEmpty, Done
    <3> QED BY <3>1, <3>2, <3>3, UnsettledAccounted
  <2> QED BY <2>1, <2>2
<1>2. AllAccounted'
  BY <1>1 DEF AllAccounted
<1>3. RefundsAddUp'
  BY <1>1, RefundedSame DEF Accounts, Quiet
<1> QED BY <1>2, <1>3

\* Settling a payment (payment.service.ts:174): the capture is all there, as
\* allocations and excess.
LEMMA SettleAccounts ==
  ASSUME IInv, Accounts, NEW h \in Handlers, Settle(h)
  PROVE  AllAccounted' /\ RefundsAddUp' /\ SameCaptures
<1> DEFINE p == handler[h].tx
           captured == handler[h].amount
<1>1. /\ TypeOK /\ HandlerSound(h) /\ handler[h] \in HandlerRecord
      /\ schedule \in Schedules /\ invoice \in FeeInvoice
  BY DEF IInv, HandlersSound, TypeOK
<1>2. /\ handler[h].step = "settling" /\ ~Done(p) /\ BookPayment(p, captured)
      /\ refund' = refund /\ gateway' = gateway
  BY DEF Settle, gatewayVars
<1>3. /\ p \in Attempts /\ captured \in Nat /\ captured > 0
  BY <1>1, <1>2 DEF HandlerSound, HandlerRecord, Accounts, CapturesClear
<1>4. /\ tx' \in [Attempts -> PaymentTransaction]
      /\ invoice' = Recomputed(schedule', adjustment, invoice)
      /\ tx'[p] = [status |-> "SUCCESS", amount |-> captured,
                   excess |-> Settlement(p, captured).excess,
                   refunded |-> tx[p].refunded,
                   alloc |-> Settlement(p, captured).allocations]
      /\ \A q \in Attempts \ {p} : tx'[q] = tx[q]
  BY <1>1, <1>2, <1>3, SettleWrites
<1>5. /\ Total(Settlement(p, captured).allocations) + Settlement(p, captured).excess = captured
      /\ Settlement(p, captured).allocations \in [Numbers -> Nat]
      /\ Settlement(p, captured).excess \in Nat
  BY <1>1, <1>3, SettlementBounds
<1>6. Total(Settlement(p, captured).allocations) \in Nat
  BY <1>5, TotalType
<1>7. tx[p].refunded = 0
  BY <1>2, <1>3 DEF IInv, UnsettledIsEmpty
<1>8. Accounted(refund, tx'[p], p)
  <2>1. \A r \in Refunds : ~Counts(refund[r], p)
    BY <1>2, <1>3, UnsettledHasNoRows
  <2>2. /\ RowSum(refund, LiveRows(refund, p)) = 0
        /\ RowSum(refund, BookedRows(refund, p, BOOLEAN)) = 0
        /\ RowSum(refund, BookedRows(refund, p, {TRUE})) = 0
    BY <2>1, NoRows
  <2> QED BY <1>3, <1>4, <1>5, <1>6, <1>7, <2>2 DEF Accounted
<1>9. AllAccounted'
  BY <1>2, <1>4, <1>8 DEF Accounts, AllAccounted
<1>10. RefundsAddUp'
  <2>1. invoice'.refunded = invoice.refunded
    BY <1>1, <1>4, RecomputedRefunded
  <2>2. \A q \in Attempts : tx'[q].refunded = tx[q].refunded
    BY <1>3, <1>4
  <2> QED BY <2>1, <2>2, RefundedSame DEF Accounts
<1> QED BY <1>2, <1>9, <1>10 DEF SameCaptures

\* Reserving a refund (payment.service.ts:423): the new row fits beside those
\* that count already.
LEMMA ReserveAccounts ==
  ASSUME IInv, IInv', Accounts, NEW r \in Refunds, NEW t \in Attempts,
         NEW reverseCharge \in BOOLEAN, ReserveRefund(r, t, reverseCharge)
  PROVE  AllAccounted' /\ RefundsAddUp' /\ SameCaptures /\ UNCHANGED <<tx, gateway>>
<1>1. PICK amount \in 1..tx[t].amount :
        /\ amount <= tx[t].amount - Reserved(t)
        /\ refund' = [refund EXCEPT ![r] = [status |-> "PENDING", tx |-> t,
                                            amount |-> amount,
                                            reverseCharge |-> reverseCharge]]
  BY DEF ReserveRefund
<1>2. /\ refunding[r] = "new" /\ UNCHANGED <<tx, invoice, gateway>>
  BY DEF ReserveRefund, RefundMove, ledgerVars, gatewayVars
<1>3. /\ refund \in [Refunds -> RefundRow] /\ refund' \in [Refunds -> RefundRow]
      /\ tx[t] \in PaymentTransaction
  BY DEF IInv, TypeOK
<1>4. refund[r].status = "NONE"
  BY <1>2 DEF IInv, RefundsSound, RefundSound
<1>5. /\ refund'[r].tx = t /\ refund'[r].status = "PENDING" /\ refund'[r].amount = amount
      /\ \A q \in Refunds \ {r} : refund'[q] = refund[q]
  BY <1>1, <1>3
<1>6. ASSUME NEW q \in Attempts PROVE Accounted(refund, tx[q], q)
  BY DEF Accounts, AllAccounted
<1>7. Accounted(refund', tx[t], t)
  <2> DEFINE S == LiveRows(refund, t)
  <2>1. /\ S \in SUBSET Refunds /\ r \notin S /\ LiveRows(refund', t) = S \cup {r}
        /\ \A q \in S : refund'[q].amount = refund[q].amount
    BY <1>4, <1>5 DEF LiveRows
  <2>2. \A charges : BookedRows(refund', t, charges) = BookedRows(refund, t, charges)
    BY <1>4, <1>5 DEF BookedRows
  <2>3. \A charges : BookedRows(refund, t, charges) \in SUBSET S
    BY DEF BookedRows, LiveRows
  <2>4. RowSum(refund, S) = Reserved(t)
    BY DEF Reserved, RefundSum, Live, RowSum, LiveRows
  <2> HIDE DEF S
  <2>5. RowSum(refund', S \cup {r}) = RowSum(refund, S) + amount /\ RowSum(refund, S) \in Nat
    BY <1>3, <1>5, <2>1, RowAdded
  <2>6. RowSum(refund', LiveRows(refund', t)) <= tx[t].amount
    <3>1. tx[t].amount \in Nat /\ amount \in Nat
      BY <1>3 DEF PaymentTransaction
    <3>2. amount <= tx[t].amount - RowSum(refund, S)
      BY <1>1, <2>4
    <3>3. RowSum(refund', LiveRows(refund', t)) = RowSum(refund', S \cup {r})
      BY <2>1
    <3> QED BY <2>5, <3>1, <3>2, <3>3
  <2>7. ASSUME NEW charges
        PROVE  RowSum(refund', BookedRows(refund', t, charges))
                 = RowSum(refund, BookedRows(refund, t, charges))
    <3> DEFINE B == BookedRows(refund, t, charges)
    <3>1. B \in SUBSET Refunds /\ \A q \in B : refund'[q].amount = refund[q].amount
      BY <2>1, <2>3
    <3> HIDE DEF B
    <3>2. RowSum(refund', B) = RowSum(refund, B)
      BY <1>3, <3>1, RowsAgree
    <3> QED BY <2>2, <3>2 DEF B
  <2> QED BY <1>6, <2>6, <2>7 DEF Accounted
<1>8. ASSUME NEW q \in Attempts, q # t PROVE Accounted(refund', tx[q], q)
  <2>1. \A s \in Refunds : \/ refund'[s] = refund[s]
                           \/ ~Counts(refund[s], q) /\ ~Counts(refund'[s], q)
    BY <1>4, <1>5, <1>8 DEF Counts
  <2> QED BY <1>3, <1>6, <2>1, OtherRows
<1>9. AllAccounted'
  BY <1>2, <1>7, <1>8 DEF AllAccounted
<1>10. RefundsAddUp'
  BY <1>2, RefundedSame DEF Accounts
<1> QED BY <1>2, <1>9, <1>10 DEF SameCaptures

\* Giving a refund up (payment.service.ts:465): its row counts no longer.
LEMMA FailAccounts ==
  ASSUME IInv, IInv', Accounts, NEW r \in Refunds, RefundFails(r)
  PROVE  AllAccounted' /\ RefundsAddUp' /\ SameCaptures /\ UNCHANGED <<tx, gateway>>
<1> DEFINE t == refund[r].tx
<1>1. /\ refunding[r] = "failing" /\ refund' = [refund EXCEPT ![r].status = "FAILED"]
      /\ UNCHANGED <<tx, invoice, gateway>>
  BY DEF RefundFails, RefundMove, ledgerVars, gatewayVars
<1>2. /\ refund \in [Refunds -> RefundRow] /\ refund' \in [Refunds -> RefundRow]
  BY DEF IInv, TypeOK
<1>3. t \in Attempts /\ refund[r].status = "PENDING"
  BY <1>1 DEF IInv, RefundsSound, RefundSound
<1>4. /\ refund'[r].tx = t /\ refund'[r].status = "FAILED"
      /\ refund'[r].amount = refund[r].amount
      /\ \A q \in Refunds \ {r} : refund'[q] = refund[q]
  BY <1>1, <1>2 DEF RefundRow
<1>5. ASSUME NEW q \in Attempts PROVE Accounted(refund, tx[q], q)
  BY DEF Accounts, AllAccounted
<1>6. Accounted(refund', tx[t], t)
  <2> DEFINE S == LiveRows(refund', t)
  <2>1. /\ S \in SUBSET Refunds /\ r \notin S /\ LiveRows(refund, t) = S \cup {r}
        /\ \A q \in S : refund'[q] = refund[q]
    BY <1>3, <1>4 DEF LiveRows
  <2>2. \A charges : /\ BookedRows(refund', t, charges) = BookedRows(refund, t, charges)
                     /\ BookedRows(refund', t, charges) \in SUBSET S
    BY <1>3, <1>4 DEF BookedRows, LiveRows
  <2> HIDE DEF S
  <2>3. RowSum(refund, S \cup {r}) = RowSum(refund', S) + refund[r].amount
        /\ RowSum(refund', S) \in Nat
    BY <1>2, <2>1, RowAdded
  <2>4. refund[r].amount \in Nat /\ tx[t].amount \in Nat
    BY <1>2, <1>3 DEF RefundRow, IInv, TypeOK, PaymentTransaction
  <2>5. RowSum(refund, LiveRows(refund, t)) <= tx[t].amount
    BY <1>3, <1>5 DEF Accounted
  <2>6. RowSum(refund', S) <= tx[t].amount
    BY <2>1, <2>3, <2>4, <2>5
  <2>7. ASSUME NEW charges
        PROVE  RowSum(refund', BookedRows(refund', t, charges))
                 = RowSum(refund, BookedRows(refund, t, charges))
    <3> DEFINE B == BookedRows(refund, t, charges)
    <3>1. B \in SUBSET Refunds /\ \A q \in B : refund'[q].amount = refund[q].amount
      BY <2>1, <2>2
    <3> HIDE DEF B
    <3>2. RowSum(refund', B) = RowSum(refund, B)
      BY <1>2, <3>1, RowsAgree
    <3> QED BY <2>2, <3>2 DEF B
  <2> QED BY <1>3, <1>5, <2>6, <2>7 DEF Accounted, S
<1>7. ASSUME NEW q \in Attempts, q # t PROVE Accounted(refund', tx[q], q)
  <2>1. \A s \in Refunds : \/ refund'[s] = refund[s]
                           \/ ~Counts(refund[s], q) /\ ~Counts(refund'[s], q)
    BY <1>4, <1>7 DEF Counts
  <2> QED BY <1>2, <1>5, <2>1, OtherRows
<1>8. AllAccounted'
  BY <1>1, <1>6, <1>7 DEF AllAccounted
<1>9. RefundsAddUp'
  BY <1>1, RefundedSame DEF Accounts
<1> QED BY <1>1, <1>8, <1>9 DEF SameCaptures

\* What a reversal takes off the allocations of the payment, in total.
LEMMA ReversalTotals ==
  ASSUME NEW before \in [Numbers -> Nat], NEW after \in [Numbers -> Nat],
         NEW taken \in [Numbers -> Nat], NEW amount \in Nat, Total(taken) = amount,
         \A i \in Numbers : after[i] = before[i] - taken[i]
  PROVE  /\ Total(before) = Total(after) + amount
         /\ Total(before) \in Nat /\ Total(after) \in Nat
<1>1. /\ before \in [Numbers -> Int] /\ after \in [Numbers -> Int]
      /\ taken \in [Numbers -> Int]
      /\ \A i \in Numbers : before[i] = after[i] + taken[i]
  OBVIOUS
<1>2. Total(before) = Total(after) + Total(taken)
  BY <1>1, TotalPlus
<1> QED BY <1>2, TotalType

\* Booking a refund (payment.service.ts:474): what is taken off the allocations
\* is what is added to the booked refunds.
LEMMA BookAccounts ==
  ASSUME IInv, IInv', Accounts, NEW r \in Refunds, BookRefund(r)
  PROVE  /\ AllAccounted' /\ RefundsAddUp' /\ SameCaptures
         /\ refund[r].tx \in Attempts /\ refund[r].amount \in Nat
         /\ refund[r].amount > 0 /\ Done(refund[r].tx)
         /\ tx'[refund[r].tx].amount = tx[refund[r].tx].amount
         /\ tx'[refund[r].tx].excess = tx[refund[r].tx].excess
         /\ tx'[refund[r].tx].refunded = tx[refund[r].tx].refunded + refund[r].amount
         /\ tx'[refund[r].tx].status \in {"SUCCESS", "REFUNDED"}
         /\ Total(tx[refund[r].tx].alloc) = Total(tx'[refund[r].tx].alloc)
              + IF refund[r].reverseCharge THEN refund[r].amount ELSE 0
         /\ \A i \in Numbers : tx'[refund[r].tx].alloc[i] <= tx[refund[r].tx].alloc[i]
         /\ \A q \in Attempts \ {refund[r].tx} : tx'[q] = tx[q]
         /\ gateway' = gateway
<1> DEFINE t == refund[r].tx
           amount == refund[r].amount
           charge == IF refund[r].reverseCharge THEN amount ELSE 0
<1>1. /\ refunding[r] = "booking" /\ CanBook(r) /\ WriteRefund(r, Reversal(r))
      /\ gateway' = gateway
  BY DEF BookRefund, RefundMove, gatewayVars
<1>2. /\ refund \in [Refunds -> RefundRow] /\ refund' \in [Refunds -> RefundRow]
      /\ tx \in [Attempts -> PaymentTransaction] /\ tx' \in [Attempts -> PaymentTransaction]
      /\ invoice \in FeeInvoice /\ TypeOK
  BY DEF IInv, TypeOK
<1>3. t \in Attempts /\ Done(t) /\ refund[r].status = "PENDING" /\ amount > 0
  BY <1>1 DEF IInv, RefundsSound, RefundSound
<1>4. /\ refund'[r] = [refund[r] EXCEPT !.status = "SUCCESS"]
      /\ \A q \in Refunds \ {r} : refund'[q] = refund[q]
      /\ \A q \in Attempts \ {t} : tx'[q] = tx[q]
      /\ tx'[t].status = IF tx[t].refunded + refund[r].amount >= tx[t].amount
                           THEN "REFUNDED" ELSE "SUCCESS"
      /\ tx'[t].amount = tx[t].amount /\ tx'[t].excess = tx[t].excess
      /\ tx'[t].refunded = tx[t].refunded + amount
      /\ \A i \in Numbers : tx'[t].alloc[i] = tx[t].alloc[i] - Reversal(r)[i]
      /\ invoice' = [Recomputed(schedule', adjustment, invoice) EXCEPT
                       !.refunded = @ + refund[r].amount]
  BY <1>1, <1>3, RefundWrites
<1>5. /\ refund'[r].tx = t /\ refund'[r].status = "SUCCESS" /\ refund'[r].amount = amount
      /\ refund'[r].reverseCharge = refund[r].reverseCharge
      /\ amount \in Nat /\ refund[r].reverseCharge \in BOOLEAN
  BY <1>2, <1>4 DEF RefundRow
<1>6. /\ Reversal(r) \in [Numbers -> Nat]
      /\ \A i \in Numbers : Reversal(r)[i] <= tx[t].alloc[i]
      /\ Total(Reversal(r)) = charge
  BY <1>1, <1>3, ReversalBounds
<1>7. /\ tx[t].alloc \in [Numbers -> Nat] /\ tx'[t].alloc \in [Numbers -> Nat]
      /\ tx[t].excess \in Nat /\ tx[t].amount \in Nat /\ tx[t].refunded \in Nat
  BY <1>2, <1>3 DEF PaymentTransaction
<1>8. charge \in Nat
  BY <1>5
<1>9. /\ Total(tx[t].alloc) = Total(tx'[t].alloc) + charge
      /\ Total(tx[t].alloc) \in Nat /\ Total(tx'[t].alloc) \in Nat
  <2> HIDE DEF charge, t
  <2> QED BY <1>4, <1>6, <1>7, <1>8, ReversalTotals
<1>10. ASSUME NEW q \in Attempts PROVE Accounted(refund, tx[q], q)
  BY DEF Accounts, AllAccounted
<1>11. LiveRows(refund', t) = LiveRows(refund, t)
       /\ \A q \in Refunds : refund'[q].amount = refund[q].amount
  BY <1>3, <1>4, <1>5 DEF LiveRows
<1>12. ASSUME NEW charges
       PROVE  /\ RowSum(refund, BookedRows(refund, t, charges)) \in Nat
              /\ RowSum(refund', BookedRows(refund', t, charges))
                   = RowSum(refund, BookedRows(refund, t, charges))
                       + IF refund[r].reverseCharge \in charges THEN amount ELSE 0
  <2> DEFINE B == BookedRows(refund, t, charges)
             C == BookedRows(refund', t, charges)
  <2>1. B \in SUBSET Refunds /\ r \notin B
    BY <1>3 DEF BookedRows
  <2>2. C \subseteq Refunds /\ \A q \in Refunds \ {r} : q \in C <=> q \in B
    BY <1>4 DEF BookedRows
  <2>3. r \in C <=> refund[r].reverseCharge \in charges
    BY <1>5 DEF BookedRows
  <2> HIDE DEF B, C
  <2>4. C = IF refund[r].reverseCharge \in charges THEN B \cup {r} ELSE B
    BY <2>1, <2>2, <2>3
  <2>5. RowSum(refund', B) = RowSum(refund, B) /\ RowSum(refund, B) \in Nat
    BY <1>2, <1>11, <2>1, RowsAgree
  <2>6. RowSum(refund', B \cup {r}) = RowSum(refund, B) + amount
    BY <1>2, <1>5, <1>11, <2>1, RowAdded
  <2>7. RowSum(refund', C)
          = RowSum(refund, B) + IF refund[r].reverseCharge \in charges THEN amount ELSE 0
    BY <2>4, <2>5, <2>6
  <2> QED BY <2>5, <2>7 DEF B, C
<1>13. Accounted(refund', tx'[t], t)
  <2>1. RowSum(refund', LiveRows(refund', t)) = RowSum(refund, LiveRows(refund, t))
    <3> DEFINE S == LiveRows(refund, t)
    <3>1. S \in SUBSET Refunds
      BY DEF LiveRows
    <3> HIDE DEF S
    <3>2. RowSum(refund', S) = RowSum(refund, S)
      BY <1>2, <1>11, <3>1, RowsAgree
    <3> QED BY <1>11, <3>2 DEF S
  <2>2. RowSum(refund', BookedRows(refund', t, BOOLEAN))
          = RowSum(refund, BookedRows(refund, t, BOOLEAN)) + amount
    BY <1>5, <1>12
  <2>3. /\ RowSum(refund', BookedRows(refund', t, {TRUE}))
             = RowSum(refund, BookedRows(refund, t, {TRUE})) + charge
        /\ RowSum(refund, BookedRows(refund, t, {TRUE})) \in Nat
    <3>1. (refund[r].reverseCharge \in {TRUE}) <=> refund[r].reverseCharge
      BY <1>5, Zenon
    <3> QED BY <1>12, <3>1
  <2>4. /\ RowSum(refund, LiveRows(refund, t)) <= tx[t].amount
        /\ tx[t].refunded = RowSum(refund, BookedRows(refund, t, BOOLEAN))
        /\ Total(tx[t].alloc) + tx[t].excess + RowSum(refund, BookedRows(refund, t, {TRUE}))
             = tx[t].amount
    BY <1>3, <1>10 DEF Accounted, Done
  <2>5. Total(tx'[t].alloc) + tx'[t].excess + RowSum(refund', BookedRows(refund', t, {TRUE}))
          = tx'[t].amount
    <3> HIDE DEF charge
    <3> QED BY <1>4, <1>7, <1>8, <1>9, <2>3, <2>4
  <2>6. /\ RowSum(refund', LiveRows(refund', t)) <= tx'[t].amount
        /\ tx'[t].refunded = RowSum(refund', BookedRows(refund', t, BOOLEAN))
    BY <1>4, <2>1, <2>2, <2>4
  <2>7. /\ tx'[t].status \in {"SUCCESS", "REFUNDED"}
        /\ tx'[t].status = "REFUNDED" <=> tx'[t].refunded >= tx'[t].amount
    BY <1>4
  <2> QED BY <2>5, <2>6, <2>7 DEF Accounted
<1>14. ASSUME NEW q \in Attempts, q # t PROVE Accounted(refund', tx'[q], q)
  <2>1. \A s \in Refunds : \/ refund'[s] = refund[s]
                           \/ ~Counts(refund[s], q) /\ ~Counts(refund'[s], q)
    BY <1>4, <1>5, <1>14 DEF Counts
  <2>2. tx'[q] = tx[q]
    BY <1>4, <1>14
  <2> QED BY <1>2, <1>10, <2>1, <2>2, OtherRows
<1>15. AllAccounted'
  BY <1>13, <1>14 DEF AllAccounted
<1>16. RefundsAddUp'
  <2> DEFINE again == Recomputed(schedule', adjustment, invoice)
  <2>1. again \in FeeInvoice /\ again.refunded = invoice.refunded
    <3>1. schedule' \in Schedules /\ adjustment \in Int
      BY <1>2 DEF IInv, TypeOK
    <3> QED BY <1>2, <3>1, RecomputedTypes
  <2>2. invoice' = [again EXCEPT !.refunded = @ + refund[r].amount]
    BY <1>4
  <2> HIDE DEF again
  <2>3. invoice'.refunded = invoice.refunded + amount
    BY <2>1, <2>2 DEF FeeInvoice
  <2>4. \A q \in Attempts \ {t} : tx'[q].refunded = tx[q].refunded
    BY <1>4
  <2>5. RefundsAddUp /\ amount \in Int
    BY <1>5 DEF Accounts
  <2> HIDE DEF t, amount
  <2> QED BY <1>2, <1>3, <1>4, <2>3, <2>4, <2>5, RefundedChange
<1>17. \A i \in Numbers : tx'[t].alloc[i] <= tx[t].alloc[i]
  BY <1>4, <1>6, <1>7
<1>18. tx'[t].status \in {"SUCCESS", "REFUNDED"}
  BY <1>4
<1> QED BY <1>1, <1>3, <1>4, <1>5, <1>9, <1>15, <1>16, <1>17, <1>18 DEF SameCaptures

\* Every step keeps the accounts.
LEMMA AccountsInductive == IInv /\ IInv' /\ Accounts /\ [Next]_vars => Accounts'
<1> SUFFICES ASSUME IInv, IInv', Accounts, [Next]_vars PROVE Accounts'
  OBVIOUS
<1>1. TypeOK /\ CapturesClear
  BY DEF IInv, Accounts
<1>2. ASSUME Quiet, SameCaptures \/ \E t \in Attempts : Capture(t)
      PROVE  Accounts'
  BY <1>1, <1>2, QuietKeeps, CapturesStayClear DEF Accounts
<1>3. ASSUME NEW h \in Handlers, Settle(h) PROVE Accounts'
  BY <1>1, <1>3, SettleAccounts, CapturesStayClear DEF Accounts
<1>4. ASSUME NEW r \in Refunds, NEW t \in Attempts, NEW reverseCharge \in BOOLEAN,
             ReserveRefund(r, t, reverseCharge)
      PROVE  Accounts'
  BY <1>1, <1>4, ReserveAccounts, CapturesStayClear DEF Accounts
<1>5. ASSUME NEW r \in Refunds, RefundFails(r) PROVE Accounts'
  BY <1>1, <1>5, FailAccounts, CapturesStayClear DEF Accounts
<1>6. ASSUME NEW r \in Refunds, BookRefund(r) PROVE Accounts'
  BY <1>1, <1>6, BookAccounts, CapturesStayClear DEF Accounts
<1> QED BY <1>2, <1>3, <1>4, <1>5, <1>6, StepKinds

\* The accounts hold in every reachable state.
LEMMA AccountsInvariant == Spec => []Accounts
<1>1. Spec => []IInv
  BY Invariant
<1> QED BY <1>1, AccountsInitially, AccountsInductive, PTL DEF Spec

-----------------------------------------------------------------------------
(***************************************************************************)
(* The theorems.                                                           *)
(***************************************************************************)

\* Every unit of a settled payment is allocated, excess or taken back by a
\* booked refund (payment.service.ts:170); nothing is allocated of any other.
THEOREM NothingDisappears == Spec => []CapturedIsAccounted
<1>1. Accounts => CapturedIsAccounted
  BY AccountsImply
<1> QED BY <1>1, AccountsInvariant, PTL

\* Refunds booked or under way never exceed their payment (payment.service.ts:406),
\* however many administrators refund it at once.
THEOREM NeverRefundedBeyondPayment == Spec => []RefundsWithinPayment
<1>1. Accounts => RefundsWithinPayment
  BY AccountsImply
<1> QED BY <1>1, AccountsInvariant, PTL

\* What a step does to a settled payment: nothing, or the booking of a refund.
LEMMA SettledKept ==
  ASSUME IInv, IInv', Accounts, Accounts', [Next]_vars, NEW t \in Attempts, Done(t)
  PROVE  /\ tx'[t].status \in {"SUCCESS", "REFUNDED"}
         /\ tx[t].status = "REFUNDED" => tx'[t].status = "REFUNDED"
         /\ tx'[t].amount = tx[t].amount /\ tx'[t].excess = tx[t].excess
         /\ \A i \in Numbers : tx'[t].alloc[i] <= tx[t].alloc[i]
         /\ tx'[t].alloc # tx[t].alloc => tx'[t].refunded > tx[t].refunded
<1>1. tx[t] \in PaymentTransaction /\ tx'[t] \in PaymentTransaction
  BY DEF IInv, TypeOK
<1>2. Accounted(refund, tx[t], t) /\ Accounted(refund', tx'[t], t)
  BY DEF Accounts, AllAccounted
<1>3. tx[t].status \in {"SUCCESS", "REFUNDED"}
  BY DEF Done
<1>4. ASSUME tx'[t] = tx[t]
      PROVE  /\ tx'[t].amount = tx[t].amount /\ tx'[t].excess = tx[t].excess
             /\ \A i \in Numbers : tx'[t].alloc[i] <= tx[t].alloc[i]
             /\ tx'[t].alloc # tx[t].alloc => tx'[t].refunded > tx[t].refunded
  BY <1>1, <1>4 DEF PaymentTransaction
<1>5. CASE tx'[t] = tx[t]
  BY <1>3, <1>4, <1>5
<1>6. CASE tx'[t] # tx[t]
  <2>1. PICK r \in Refunds : BookRefund(r) /\ refund[r].tx = t
    <3>1. ~Quiet
      BY <1>3, <1>6 DEF Quiet
    <3>2. ASSUME NEW h \in Handlers, Settle(h) PROVE FALSE
      <4> DEFINE p == handler[h].tx
      <4>1. /\ TypeOK /\ HandlerSound(h) /\ handler[h] \in HandlerRecord
            /\ handler[h].step = "settling" /\ ~Done(p) /\ BookPayment(p, handler[h].amount)
        BY <3>2 DEF IInv, HandlersSound, TypeOK, Settle
      <4>2. p \in Attempts /\ handler[h].amount \in Nat
        BY <4>1 DEF HandlerSound, HandlerRecord
      <4>3. \A q \in Attempts \ {p} : tx'[q] = tx[q]
        BY <4>1, <4>2, SettleWrites
      <4> QED BY <1>6, <4>1, <4>3
    <3>3. ASSUME NEW r \in Refunds, NEW q \in Attempts, NEW reverseCharge \in BOOLEAN,
                 ReserveRefund(r, q, reverseCharge)
          PROVE  FALSE
      BY <1>6, <3>3, ReserveAccounts
    <3>4. ASSUME NEW r \in Refunds, RefundFails(r) PROVE FALSE
      BY <1>6, <3>4, FailAccounts
    <3>5. ASSUME NEW r \in Refunds, BookRefund(r), refund[r].tx # t PROVE FALSE
      BY <1>6, <3>5, BookAccounts
    <3> QED BY <3>1, <3>2, <3>3, <3>4, <3>5, StepKinds
  <2>2. /\ refund[r].amount \in Nat /\ refund[r].amount > 0
        /\ tx'[t].amount = tx[t].amount /\ tx'[t].excess = tx[t].excess
        /\ tx'[t].refunded = tx[t].refunded + refund[r].amount
        /\ tx'[t].status \in {"SUCCESS", "REFUNDED"}
        /\ \A i \in Numbers : tx'[t].alloc[i] <= tx[t].alloc[i]
    BY <2>1, BookAccounts
  <2>3. tx[t].refunded \in Nat /\ tx[t].amount \in Nat
    BY <1>1 DEF PaymentTransaction
  <2>4. tx[t].status = "REFUNDED" => tx'[t].status = "REFUNDED"
    BY <1>2, <2>2, <2>3 DEF Accounted
  <2> QED BY <2>2, <2>3, <2>4
<1> QED BY <1>5, <1>6

\* A settled payment is never settled, failed or cancelled again, and only booked
\* refunds take its allocations back (payment.service.ts:168, 339, 358, 651).
THEOREM SettledIsFinal == Spec => SettledForGood
<1> DEFINE Kept ==
      \A t \in Attempts :
        Done(t) =>
          /\ Done(t)'
          /\ tx[t].status = "REFUNDED" => tx'[t].status = "REFUNDED"
          /\ tx'[t].amount = tx[t].amount /\ tx'[t].excess = tx[t].excess
          /\ \A i \in Numbers : tx'[t].alloc[i] <= tx[t].alloc[i]
          /\ tx'[t].alloc # tx[t].alloc => tx'[t].refunded > tx[t].refunded
<1>1. IInv /\ IInv' /\ Accounts /\ Accounts' /\ [Next]_vars => [Kept]_vars
  <2> SUFFICES ASSUME IInv, IInv', Accounts, Accounts', [Next]_vars,
                      NEW t \in Attempts, Done(t)
               PROVE  /\ tx'[t].status \in {"SUCCESS", "REFUNDED"}
                      /\ tx[t].status = "REFUNDED" => tx'[t].status = "REFUNDED"
                      /\ tx'[t].amount = tx[t].amount /\ tx'[t].excess = tx[t].excess
                      /\ \A i \in Numbers : tx'[t].alloc[i] <= tx[t].alloc[i]
                      /\ tx'[t].alloc # tx[t].alloc => tx'[t].refunded > tx[t].refunded
    BY DEF Done
  <2> QED BY SettledKept
<1> QED BY <1>1, Invariant, AccountsInvariant, PTL DEF Spec, SettledForGood

-----------------------------------------------------------------------------
(***************************************************************************)
(* The refinement: payment by payment, a step of the server or of bKash    *)
(* captures, settles or returns once, or changes nothing the book shows.   *)
(***************************************************************************)

\* A new invoice is a new book.
LEMMA BookInitially == Init => Book!Init
<1> SUFFICES ASSUME Init PROVE Book!Init
  OBVIOUS
<1>1. ASSUME NEW t \in Attempts
      PROVE  /\ gateway[t].captured = 0 /\ ~Done(t)
             /\ Total(tx[t].alloc) = 0 /\ tx[t].refunded = 0
  BY NobodyTotal DEF Init, Done
<1> QED BY <1>1 DEF Book!Init

\* Steps that change nothing the book shows.
LEMMA BookStutters ==
  ASSUME \A t \in Attempts : /\ gateway'[t].captured = gateway[t].captured
                             /\ tx'[t].status \in {"SUCCESS", "REFUNDED"}
                                  <=> tx[t].status \in {"SUCCESS", "REFUNDED"}
                             /\ tx'[t].alloc = tx[t].alloc
                             /\ tx'[t].refunded = tx[t].refunded
  PROVE  UNCHANGED Book!vars
BY DEF Book!vars, Done

\* In a quiet step no payment is settled, credited or refunded.
LEMMA QuietRows ==
  ASSUME IInv, IInv', Quiet, NEW t \in Attempts
  PROVE  /\ tx'[t].status \in {"SUCCESS", "REFUNDED"}
              <=> tx[t].status \in {"SUCCESS", "REFUNDED"}
         /\ tx'[t].alloc = tx[t].alloc
         /\ tx'[t].refunded = tx[t].refunded
<1>1. CASE Done(t)
  BY <1>1 DEF Quiet, Done
<1>2. CASE ~Done(t)
  BY <1>2 DEF Quiet, Done, IInv, UnsettledIsEmpty
<1> QED BY <1>1, <1>2

\* A capture at bKash is a capture of the book.
LEMMA CaptureIsBooked ==
  ASSUME IInv, IInv', Accounts, Quiet, NEW t \in Attempts, Capture(t)
  PROVE  Book!Next
<1>1. /\ gateway[t].state = "approved" /\ gateway'[t].captured \in Nat
      /\ gateway'[t].captured > 0
      /\ \A q \in Attempts \ {t} : gateway'[q] = gateway[q]
  BY CaptureTakes DEF IInv
<1>2. gateway[t].captured = 0
  BY <1>1 DEF Accounts, CapturesClear
<1>3. \A q \in Attempts : /\ tx'[q].status \in {"SUCCESS", "REFUNDED"}
                               <=> tx[q].status \in {"SUCCESS", "REFUNDED"}
                          /\ tx'[q].alloc = tx[q].alloc
                          /\ tx'[q].refunded = tx[q].refunded
  BY QuietRows
<1>4. [q \in Attempts |-> gateway'[q].captured]
        = [[q \in Attempts |-> gateway[q].captured] EXCEPT ![t] = gateway'[t].captured]
  BY <1>1
<1> QED BY <1>1, <1>2, <1>3, <1>4 DEF Book!Next, Book!Capture, Done

\* A first settlement settles the payment in the book, and credits what it
\* allocates.
LEMMA SettleIsBooked ==
  ASSUME IInv, IInv', Accounts, NEW h \in Handlers, Settle(h)
  PROVE  Book!Next
<1> DEFINE p == handler[h].tx
           amount == handler[h].amount
<1>1. /\ TypeOK /\ HandlerSound(h) /\ handler[h] \in HandlerRecord /\ schedule \in Schedules
  BY DEF IInv, HandlersSound, TypeOK
<1>2. /\ handler[h].step = "settling" /\ ~Done(p) /\ BookPayment(p, amount)
      /\ gateway' = gateway
  BY DEF Settle, gatewayVars
<1>3. /\ p \in Attempts /\ amount \in Nat /\ amount = gateway[p].captured
      /\ gateway[p].captured > 0
  BY <1>1, <1>2 DEF HandlerSound, HandlerRecord, Accounts, CapturesClear
<1>4. /\ tx'[p] = [status |-> "SUCCESS", amount |-> amount,
                   excess |-> Settlement(p, amount).excess,
                   refunded |-> tx[p].refunded,
                   alloc |-> Settlement(p, amount).allocations]
      /\ \A q \in Attempts \ {p} : tx'[q] = tx[q]
  BY <1>1, <1>2, <1>3, SettleWrites
<1>5. /\ Total(Settlement(p, amount).allocations) + Settlement(p, amount).excess = amount
      /\ Settlement(p, amount).allocations \in [Numbers -> Nat]
      /\ Settlement(p, amount).excess \in Nat
  BY <1>1, <1>3, SettlementBounds
<1>6. Total(Settlement(p, amount).allocations) \in Nat
  BY <1>5, TotalType
<1>7. /\ tx'[p].status = "SUCCESS" /\ tx'[p].refunded = tx[p].refunded
      /\ Total(tx'[p].alloc) \in 0..gateway[p].captured
  BY <1>3, <1>4, <1>5, <1>6
<1> HIDE DEF p
<1>8. Book!Settle(p, Total(tx'[p].alloc))
  BY <1>2, <1>3, <1>4, <1>7 DEF Book!Settle, Done
<1> QED BY <1>3, <1>8 DEF Book!Next

\* The booking of a refund is a return of the book, which takes back the credit
\* of a refund that reverses the charge.
LEMMA RefundIsBooked ==
  ASSUME IInv, IInv', Accounts, Accounts', NEW r \in Refunds, BookRefund(r)
  PROVE  Book!Next
<1> DEFINE t == refund[r].tx
           amount == refund[r].amount
           credit == IF refund[r].reverseCharge THEN amount ELSE 0
<1>1. /\ t \in Attempts /\ amount \in Nat /\ amount > 0 /\ Done(t)
      /\ tx'[t].amount = tx[t].amount
      /\ tx'[t].refunded = tx[t].refunded + amount
      /\ tx'[t].status \in {"SUCCESS", "REFUNDED"}
      /\ Total(tx[t].alloc) = Total(tx'[t].alloc) + credit
      /\ \A q \in Attempts \ {t} : tx'[q] = tx[q]
      /\ gateway' = gateway
  BY BookAccounts
<1>2. tx[t].amount = gateway[t].captured
  BY <1>1 DEF IInv, SettledWasCaptured
<1>3. credit \in {0, amount} /\ credit \in Nat
  BY <1>1
<1> HIDE DEF credit
<1>4. tx[t].refunded \in Nat /\ Total(tx[t].alloc) \in Nat /\ Total(tx'[t].alloc) \in Nat
  BY <1>1, TotalType DEF IInv, TypeOK, PaymentTransaction
<1>5. tx'[t].refunded <= tx'[t].amount
  <2> DEFINE booked == BookedRows(refund', t, BOOLEAN)
             live   == LiveRows(refund', t)
  <2>1. /\ RowSum(refund', live) <= tx'[t].amount
        /\ tx'[t].refunded = RowSum(refund', booked)
    BY <1>1 DEF Accounts, AllAccounted, Accounted
  <2>2. booked \in SUBSET live /\ live \in SUBSET Refunds
    BY DEF BookedRows, LiveRows
  <2> HIDE DEF booked, live
  <2>3. RowSum(refund', booked) <= RowSum(refund', live)
    BY <2>2, RowsMonotone DEF IInv, TypeOK
  <2>4. /\ RowSum(refund', booked) \in Nat /\ RowSum(refund', live) \in Nat
        /\ tx'[t].amount \in Nat
    BY <1>1, <2>2, RowsAgree DEF IInv, TypeOK, PaymentTransaction
  <2> QED BY <2>1, <2>3, <2>4
<1>6. gateway[t].captured \in Nat
  BY <1>1 DEF IInv, TypeOK, GatewayRecord
<1> HIDE DEF t, amount
<1>7. /\ tx[t].refunded + amount <= gateway[t].captured /\ credit <= Total(tx[t].alloc)
      /\ Total(tx'[t].alloc) = Total(tx[t].alloc) - credit
  BY <1>1, <1>2, <1>3, <1>4, <1>5, <1>6
<1>8. amount = tx'[t].refunded - tx[t].refunded
      /\ credit = Total(tx[t].alloc) - Total(tx'[t].alloc)
  BY <1>1, <1>3, <1>4
<1>9. /\ [q \in Attempts |-> tx'[q].refunded]
           = [[q \in Attempts |-> tx[q].refunded] EXCEPT ![t] = @ + amount]
      /\ [q \in Attempts |-> Total(tx'[q].alloc)]
           = [[q \in Attempts |-> Total(tx[q].alloc)] EXCEPT ![t] = @ - credit]
  BY <1>1, <1>7
<1>10. \A q \in Attempts : tx'[q].status \in {"SUCCESS", "REFUNDED"}
                            <=> tx[q].status \in {"SUCCESS", "REFUNDED"}
  BY <1>1 DEF Done
<1> QED BY <1>1, <1>3, <1>7, <1>8, <1>9, <1>10 DEF Book!Next, Book!Return, Done

\* Every step of the ledger is a step of the book, or changes nothing it shows.
LEMMA StepIsBooked ==
  IInv /\ IInv' /\ Accounts /\ Accounts' /\ [Next]_vars => [Book!Next]_(Book!vars)
<1> SUFFICES ASSUME IInv, IInv', Accounts, Accounts', [Next]_vars
             PROVE  Book!Next \/ UNCHANGED Book!vars
  OBVIOUS
<1>1. ASSUME Quiet, SameCaptures PROVE UNCHANGED Book!vars
  BY <1>1, QuietRows, BookStutters DEF SameCaptures
<1>2. ASSUME UNCHANGED <<tx, gateway>> PROVE UNCHANGED Book!vars
  BY <1>2, BookStutters
<1>3. ASSUME NEW r \in Refunds, NEW t \in Attempts, NEW reverseCharge \in BOOLEAN,
             ReserveRefund(r, t, reverseCharge)
      PROVE  UNCHANGED Book!vars
  BY <1>2, <1>3, ReserveAccounts
<1>4. ASSUME NEW r \in Refunds, RefundFails(r) PROVE UNCHANGED Book!vars
  BY <1>2, <1>4, FailAccounts
<1> QED BY <1>1, <1>3, <1>4, CaptureIsBooked, SettleIsBooked, RefundIsBooked, StepKinds

\* The handlers, with all their interleavings, deaths and lost answers, treat
\* each payment as PaymentBook promises (payment.service.ts:164-173): captured
\* and settled once, refunded within the capture.
THEOREM LedgerImplementsBook == Spec => PaymentsAreBooked
BY BookInitially, StepIsBooked, Invariant, AccountsInvariant, PTL
   DEF Spec, PaymentsAreBooked, Book!Spec

-----------------------------------------------------------------------------
(***************************************************************************)
(* The ledger implements InvoiceBook.                                      *)
(***************************************************************************)

\* An invoice is issued owed, or paid when there is nothing to pay.
LEMMA SeenInitially == Init => Seen!Init
<1> SUFFICES ASSUME Init PROVE Seen!Init
  OBVIOUS
<1>1. invoice = [status |-> IF subtotal = 0 THEN "PAID" ELSE "UNPAID",
                 payable |-> subtotal, paid |-> 0, refunded |-> 0]
  BY Zenon DEF Init
<1>2. confirmed = FALSE
  BY Zenon DEF Init
<1>3. invoice.status \in {"UNPAID", "PAID"}
  BY <1>1
<1> QED BY <1>2, <1>3 DEF Seen!Init

\* Only a settlement confirms an admission.
LEMMA ConfirmedWriters ==
  ASSUME [Next]_vars
  PROVE  UNCHANGED confirmed \/ \E h \in Handlers : Settle(h)
<1> USE DEF ledgerVars
<1>1. ASSUME PaymentStep
      PROVE  UNCHANGED confirmed \/ \E h \in Handlers : Settle(h)
  BY <1>1 DEF PaymentStep, InitPaymentRead, InitPaymentInsert, CallbackRead,
       CallbackAbandonRead, VerifyRead, CallbackMarkPending, CallbackAbandon,
       ExecuteConfirmed, ExecuteAnswerLost, ExecuteFailed, QueryCompleted,
       CallbackUnconfirmed, VerifyUnanswered, SettleAlreadyDone, HandlerDies
<1>2. ASSUME RefundStepOf PROVE UNCHANGED confirmed
  BY <1>2, Zenon DEF RefundStepOf, ReserveRefund, RefundConfirmed, RefundAnswerLost,
       RefundRefused, RefundFails, BookRefund, WriteRefund, BookRefundAborts, RefundDies
<1>3. ASSUME LateFeeStep PROVE UNCHANGED confirmed
  BY <1>3 DEF LateFeeStep, LateFeesScan, LateFeesCharge, LateFeesSkip, LateRunDies
<1>4. ASSUME NEW delta \in Deltas, AddAdjustment(delta) PROVE UNCHANGED confirmed
  BY <1>4 DEF AddAdjustment
<1>5. ASSUME CancelInvoice PROVE UNCHANGED confirmed
  BY <1>5 DEF CancelInvoice
<1>6. ASSUME NEW t \in Attempts, CustomerApproves(t) PROVE UNCHANGED confirmed
  BY <1>6 DEF CustomerApproves
<1>7. ASSUME NEW i \in Numbers, DueDatePasses(i) PROVE UNCHANGED confirmed
  BY <1>7 DEF DueDatePasses
<1>8. ASSUME UNCHANGED vars PROVE UNCHANGED confirmed
  BY <1>8 DEF vars
<1> QED BY <1>1, <1>2, <1>3, <1>4, <1>5, <1>6, <1>7, <1>8 DEF Next

\* A settlement that confirms leaves the invoice paid (payment.service.ts:257).
LEMMA ConfirmedByPaid ==
  ASSUME NEW h \in Handlers, Settle(h), confirmed \in BOOLEAN, confirmed' # confirmed
  PROVE  confirmed' = TRUE /\ invoice'.status = "PAID"
<1>1. confirmed' = (confirmed \/ (InvoiceType = "ADMISSION" /\ invoice'.status = "PAID"))
  BY Zenon DEF Settle, BookPayment
<1> QED BY <1>1, Zenon

\* Every step of the ledger is one of InvoiceBook or leaves the invoice as it
\* is seen.
LEMMA StepIsSeen ==
  IInv /\ TypeOK' /\ Balance /\ [Next]_vars => [Seen!Next]_(Seen!vars)
<1> SUFFICES ASSUME IInv, TypeOK', Balance, [Next]_vars PROVE [Seen!Next]_(Seen!vars)
  OBVIOUS
<1>1. /\ invoice.status \in InvoiceStatus /\ invoice'.status \in InvoiceStatus
      /\ confirmed \in BOOLEAN
  BY DEF IInv, TypeOK, FeeInvoice
<1>2. CancelledForGood
  BY BalanceInductive
<1> DEFINE seen(inv) == IF inv.status = "PARTIALLY_PAID" THEN "UNPAID" ELSE inv.status
<1>3. CASE confirmed' = confirmed
  <2>1. CASE seen(invoice') = seen(invoice)
    BY <1>3, <2>1 DEF Seen!vars
  <2>2. CASE seen(invoice') # seen(invoice)
    <3>1. seen(invoice) # "CANCELLED"
      BY <1>2, <2>2 DEF CancelledForGood
    <3>2. seen(invoice') \in {"UNPAID", "PAID", "CANCELLED"} \ {seen(invoice)}
      BY <1>1, <2>2 DEF InvoiceStatus
    <3>3. Seen!Moves
      BY <1>3, <3>1, <3>2 DEF Seen!Moves
    <3> QED BY <3>3 DEF Seen!Next
  <2> QED BY <2>1, <2>2
<1>4. CASE confirmed' # confirmed
  <2>1. confirmed' = TRUE /\ invoice'.status = "PAID"
    BY <1>1, <1>4, ConfirmedWriters, ConfirmedByPaid, Zenon
  <2>2. invoice.status # "CANCELLED"
    BY <1>2, <2>1 DEF CancelledForGood
  <2>3. seen(invoice) # "CANCELLED" /\ seen(invoice') = "PAID"
    BY <2>1, <2>2
  <2>4. Seen!Settles
    BY <2>1, <2>3 DEF Seen!Settles
  <2> QED BY <2>4 DEF Seen!Next
<1> QED BY <1>3, <1>4

\* Whatever is settled late, refunded, corrected or charged, a cancelled invoice
\* stays cancelled and confirms nobody (invoiceCore.ts:254, payment.service.ts:257):
\* the ledger of any schedule, with any number of payments, handlers, refunds
\* and late-fee runs, shows its invoice as InvoiceBook does.
THEOREM LedgerImplementsInvoiceBook == Spec => InvoiceIsBooked
<1>1. IInv => TypeOK
  BY DEF IInv
<1> QED BY <1>1, SeenInitially, StepIsSeen, Invariant, BalanceInvariant, PTL
        DEF Spec, InvoiceIsBooked, Seen!Spec

-----------------------------------------------------------------------------
(***************************************************************************)
(* What is reported of the ledger (LedgerReports).                         *)
(***************************************************************************)

\* The debt of an invoice is what its installments leave to pay, and there is
\* one exactly when some installment has a balance.
LEMMA DebtIsOwed ==
  ASSUME TypeOK, Balance
  PROVE  LET owed == Total(Balances(schedule))
         IN  /\ owed \in Nat /\ invoice.payable - invoice.paid = owed
             /\ owed > 0 <=> \E i \in Numbers : Balances(schedule)[i] > 0
             /\ Balances(schedule) \in [Numbers -> Nat]
             /\ IsOpen <=> IsLive /\ owed > 0
<1> DEFINE owed == Total(Balances(schedule))
           room == Balances(schedule)
<1>1. /\ room \in [Numbers -> Nat]
      /\ Amounts(schedule) \in [Numbers -> Int] /\ Paids(schedule) \in [Numbers -> Int]
      /\ \A i \in Numbers : Amounts(schedule)[i] = Paids(schedule)[i] + room[i]
  BY DEF TypeOK, Balance, PaidWithinAmount, Schedules, Amounts, Paids, Balances
<1>2. Total(Amounts(schedule)) = Total(Paids(schedule)) + Total(room)
  <2>1. room \in [Numbers -> Int]
    BY <1>1
  <2> HIDE DEF room
  <2> QED BY <1>1, <2>1, TotalPlus
<1>3. Total(room) \in Nat /\ \A i \in Numbers : room[i] <= Total(room)
  <2> HIDE DEF room
  <2> QED BY <1>1, TotalType
<1>4. Total(Paids(schedule)) \in Int
  BY <1>1, TotalType
<1>5. invoice.payable - invoice.paid = Total(room)
  <2>1. invoice.payable = Total(Amounts(schedule)) /\ invoice.paid = Total(Paids(schedule))
    BY DEF Balance, LedgerAddsUp
  <2> HIDE DEF room
  <2> QED BY <1>2, <1>3, <1>4, <2>1
<1>6. Total(room) > 0 <=> \E i \in Numbers : room[i] > 0
  <2> HIDE DEF room
  <2>1. (\A i \in Numbers : ~(room[i] > 0)) => Total(room) = 0
    <3>1. SUFFICES ASSUME \A i \in Numbers : ~(room[i] > 0) PROVE Total(room) = 0
      OBVIOUS
    <3>2. \A i \in Numbers : room[i] \in Int /\ room[i] = 0
      BY <1>1, <3>1
    <3> QED BY <3>2, NumbersFinite, SumZero DEF Total
  <2>2. \A i \in Numbers : room[i] \in Nat /\ (room[i] > 0 => Total(room) > 0)
    BY <1>1, <1>3
  <2> QED BY <1>3, <2>1, <2>2
<1>7. IsOpen <=> IsLive /\ Total(room) > 0
  <2>1. /\ invoice.status = deriveInvoiceStatus(invoice.payable, invoice.paid,
                                                invoice.status = "CANCELLED")
        /\ invoice.payable \in Int /\ invoice.paid \in Int /\ invoice.status \in InvoiceStatus
    BY DEF TypeOK, FeeInvoice, Balance, LedgerAddsUp
  <2>2. Total(room) > 0 <=> ~(invoice.paid >= invoice.payable)
    <3> HIDE DEF room
    <3> QED BY <1>3, <1>5, <2>1
  <2> HIDE DEF room
  <2> QED BY <2>1, <2>2 DEF deriveInvoiceStatus, IsOpen, IsLive, InvoiceStatus
<1> QED BY <1>1, <1>3, <1>5, <1>6, <1>7

\* What is late has a balance, and a stored status the reports look for.
LEMMA LateIsOwed ==
  ASSUME TypeOK
  PROVE  /\ Late = {i \in Numbers : Balances(schedule)[i] > 0 /\ i \in overdue}
         /\ \A i \in Late :
              storedInstallmentStatus(schedule[i]) \in {"PENDING", "PARTIALLY_PAID"}
<1>1. \A i \in Numbers : /\ schedule[i].amount \in Nat /\ schedule[i].paid \in Nat
                         /\ Balances(schedule)[i] = schedule[i].amount - schedule[i].paid
  BY DEF TypeOK, Schedules, Balances
<1>2. \A i \in Numbers :
        isInstallmentOverdue(schedule[i], i \in overdue)
          <=> Balances(schedule)[i] > 0 /\ i \in overdue
  BY <1>1 DEF isInstallmentOverdue
<1>3. \A i \in Numbers :
        Balances(schedule)[i] > 0
          => storedInstallmentStatus(schedule[i]) \in {"PENDING", "PARTIALLY_PAID"}
  BY <1>1 DEF storedInstallmentStatus
<1> QED BY <1>2, <1>3 DEF Late

\* Some number among the installments is the smallest of its kind.
LEMMA FirstExists ==
  ASSUME NEW S \in SUBSET Numbers, S # {}
  PROVE  \E i \in S : \A j \in S : i <= j
<1> DEFINE T == {N - i : i \in S}
<1>1. \A i \in S : i \in Int /\ 1 <= i /\ i <= N /\ N - i \in Nat
  BY NAssumption DEF Numbers
<1>2. T \in SUBSET Nat /\ T # {}
  BY <1>1
<1>3. IsFiniteSet(T)
  <2>1. IsFiniteSet(S)
    BY NumbersFinite, FS_Subset
  <2>2. [i \in S |-> N - i] \in Surjection(S, T)
    BY DEF Surjection
  <2> QED BY <2>1, <2>2, FS_Surjection DEF ExistsSurjection
<1>4. PICK x \in T : \A y \in T : x >= y
  <2> HIDE DEF T
  <2> QED BY <1>2, <1>3, GreatestExists
<1>5. PICK i \in S : x = N - i
  BY <1>4
<1>6. \A j \in S : N - i >= N - j
  BY <1>4, <1>5
<1> QED BY <1>1, <1>6, NAssumption

\* The student's summary, the gate on dues, the report of the office and the
\* invoice hold the same installments against the student.
DuesTold ==
  LET shown == serializeInvoice
      mine  == getMySummary
      dues  == getOutstandingDues
      late  == getOverdueReport
      owed  == Total([i \in Numbers |-> shown.installments[i].remaining])
  IN  /\ dues = mine.outstanding /\ dues = getDashboardSummary.totalPending
      /\ IsLive => dues = owed /\ dues = shown.outstandingBalance
      /\ mine.overdue = getOverdueInstallments /\ mine.overdue = DOMAIN late
      /\ SumFunction(late) <= dues
      /\ IsLive => mine.overdue = {i \in Numbers : shown.installments[i].status = "OVERDUE"}
      /\ ~assertNoOverdueDues(TRUE) => dues > 0
      /\ mine.outstanding > 0 => mine.overdue \cup mine.next # {}

LEMMA DuesAgree ==
  ASSUME TypeOK, Balance
  PROVE  DuesTold
<1> DEFINE room == Balances(schedule)
           debt == Total(room)
           held == IF IsLive THEN Late ELSE {}
           dues == IF IsLive THEN debt ELSE 0
<1>1. /\ debt \in Nat /\ invoice.payable - invoice.paid = debt
      /\ debt > 0 <=> \E i \in Numbers : room[i] > 0
      /\ room \in [Numbers -> Nat]
      /\ IsOpen <=> IsLive /\ debt > 0
  BY DebtIsOwed
<1>2. /\ Late = {i \in Numbers : room[i] > 0 /\ i \in overdue}
      /\ \A i \in Late :
           storedInstallmentStatus(schedule[i]) \in {"PENDING", "PARTIALLY_PAID"}
  BY LateIsOwed
<1>3. outstandingBalance = debt
  <2> HIDE DEF debt
  <2> QED BY <1>1 DEF outstandingBalance, Positive
<1>4. getOutstandingDues = dues
  <2> HIDE DEF debt
  <2> QED BY <1>1 DEF getOutstandingDues
<1>5. getDashboardSummary.totalPending = dues
  <2>1. getDashboardSummary.totalPending = IF IsOpen THEN outstandingBalance ELSE 0
    BY DEF getDashboardSummary
  <2> HIDE DEF debt
  <2> QED BY <1>1, <1>3, <2>1
<1>6. /\ getMySummary.outstanding = dues
      /\ getMySummary.overdue = held
      /\ IsLive => getMySummary.next = {i \in {k \in Numbers : room[k] > 0} \ Late :
                                          \A j \in {k \in Numbers : room[k] > 0} \ Late : i <= j}
  <2> HIDE DEF debt
  <2> QED BY <1>3 DEF getMySummary
<1>7. getOverdueInstallments = held
  BY <1>2 DEF getOverdueInstallments
<1>8. getOverdueReport = [i \in held |-> room[i]]
  <2>1. {j \in Late : /\ IsLive
                      /\ storedInstallmentStatus(schedule[j]) \in {"PENDING", "PARTIALLY_PAID"}}
          = held
    BY <1>2
  <2> HIDE DEF held, room
  <2> QED BY <2>1 DEF getOverdueReport, room
<1>9. SumFunction(getOverdueReport) <= dues
  <2>1. CASE IsLive
    <3>1. held \in SUBSET Numbers
      BY <1>2
    <3> DEFINE late == [i \in held |-> room[i]]
    <3>2. \A i \in held : late[i] = room[i] /\ late[i] \in Int
      BY <1>1, <3>1
    <3>3. DOMAIN late = held /\ \A i \in Numbers : room[i] \in Nat
      BY <1>1
    <3> HIDE DEF held, late, room
    <3>4. IsFiniteSet(held)
      BY <3>1, NumbersFinite, FS_Subset
    <3>5. SumFunctionOnSet(late, held) = SumFunctionOnSet(room, held)
      BY <3>2, <3>4, SumAgree
    <3>6. SumFunctionOnSet(room, held) <= SumFunctionOnSet(room, Numbers)
      BY <3>1, <3>3, NumbersFinite, SumSubset
    <3>7. SumFunction(late) = SumFunctionOnSet(late, held)
      BY <3>3 DEF SumFunction
    <3> QED BY <2>1, <1>8, <3>5, <3>6, <3>7 DEF Total, late
  <2>2. CASE ~IsLive
    <3>1. DOMAIN getOverdueReport = {}
      BY <1>8, <2>2
    <3>2. SumFunction(getOverdueReport) = 0
      BY <3>1, SumEmpty DEF SumFunction
    <3> QED BY <2>2, <3>2
  <2> QED BY <2>1, <2>2
<1>10. /\ serializeInvoice.outstandingBalance = debt
       /\ [i \in Numbers |-> serializeInvoice.installments[i].remaining] = room
       /\ {i \in Numbers : serializeInvoice.installments[i].status = "OVERDUE"} = Late
  <2>1. \A i \in Numbers :
          /\ serializeInvoice.installments[i].remaining = room[i]
          /\ serializeInvoice.installments[i].status
               = IF i \in Late THEN "OVERDUE" ELSE storedInstallmentStatus(schedule[i])
    BY DEF serializeInvoice
  <2>2. \A i \in Numbers : storedInstallmentStatus(schedule[i]) # "OVERDUE"
    BY DEF storedInstallmentStatus
  <2>3. serializeInvoice.outstandingBalance = debt
    <3>1. serializeInvoice.outstandingBalance = outstandingBalance
      BY DEF serializeInvoice
    <3> QED BY <1>3, <3>1
  <2>4. [i \in Numbers |-> serializeInvoice.installments[i].remaining] = room
    <3> HIDE DEF room
    <3> QED BY <1>1, <2>1
  <2>5. {i \in Numbers : serializeInvoice.installments[i].status = "OVERDUE"} = Late
    BY <1>2, <2>1, <2>2
  <2> QED BY <2>3, <2>4, <2>5
<1>11. held # {} => dues > 0
  <2> HIDE DEF debt, room
  <2> QED BY <1>1, <1>2
<1>12. dues > 0 => held \cup getMySummary.next # {}
  <2>1. SUFFICES ASSUME IsLive, debt > 0 PROVE Late \cup getMySummary.next # {}
    <3> HIDE DEF debt
    <3> QED OBVIOUS
  <2> DEFINE owing == {k \in Numbers : room[k] > 0}
  <2>2. PICK k \in Numbers : room[k] > 0
    BY <1>1, <2>1
  <2>3. CASE owing \ Late = {}
    BY <2>2, <2>3
  <2>4. CASE owing \ Late # {}
    <3>1. owing \ Late \in SUBSET Numbers
      OBVIOUS
    <3> DEFINE S == owing \ Late
    <3> HIDE DEF S
    <3>2. \E i \in S : \A j \in S : i <= j
      BY <2>4, <3>1, FirstExists DEF S
    <3> QED BY <1>6, <2>1, <3>2 DEF S
  <2> QED BY <2>3, <2>4
<1> HIDE DEF dues, held, room
<1>13. DOMAIN getOverdueReport = held
  BY <1>8
<1>14. ~assertNoOverdueDues(TRUE) => held # {}
  BY <1>7 DEF assertNoOverdueDues
<1>15. IsLive => dues = Total(room) /\ held = Late
  BY DEF dues, held
<1> QED BY <1>4, <1>5, <1>6, <1>7, <1>9, <1>10, <1>11, <1>12, <1>13, <1>14, <1>15
     DEF DuesTold

\* Every unit on the installments or held as excess was collected, and not given
\* back but as a gift.
LEMMA KeptIsCollected ==
  ASSUME IInv, Accounts
  PROVE  getCollectionReport.net
           = (Total(Paids(schedule)) + SumFunction([t \in Attempts |-> tx[t].excess]))
               - SumFunction([t \in Attempts |-> RefundSum(Succeeded(t, {FALSE}))])
<1> DEFINE done    == {t \in Attempts : tx[t].status \in {"SUCCESS", "REFUNDED"}}
           amount  == [t \in Attempts |-> tx[t].amount]
           back    == [t \in Attempts |-> tx[t].refunded]
           net     == [t \in Attempts |-> tx[t].amount - tx[t].refunded]
           alloc   == [t \in Attempts |-> tx[t].alloc]
           onto    == [t \in Attempts |-> Total(tx[t].alloc)]
           excess  == [t \in Attempts |-> tx[t].excess]
           gift    == [t \in Attempts |-> RefundSum(Succeeded(t, {FALSE}))]
           kept    == [t \in Attempts |-> onto[t] + excess[t]]
           minus   == [t \in Attempts |-> kept[t] - gift[t]]
<1>1. IsFiniteSet(Attempts) /\ done \in SUBSET Attempts /\ IsFiniteSet(done)
  BY LedgerAssumption, FS_Subset
<1>2. ASSUME NEW t \in Attempts
      PROVE  /\ tx[t].amount \in Nat /\ tx[t].refunded \in Nat /\ tx[t].excess \in Nat
             /\ tx[t].alloc \in [Numbers -> Int] /\ Total(tx[t].alloc) \in Int
             /\ RefundSum(Succeeded(t, {FALSE})) \in Int
             /\ t \in done => Total(tx[t].alloc) + tx[t].excess - RefundSum(Succeeded(t, {FALSE}))
                                = tx[t].amount - tx[t].refunded
             /\ t \notin done => Total(tx[t].alloc) + tx[t].excess
                                   - RefundSum(Succeeded(t, {FALSE})) = 0
  <2> DEFINE amounts == [r \in Refunds |-> refund[r].amount]
             all     == BookedRows(refund, t, BOOLEAN)
             taken   == BookedRows(refund, t, {TRUE})
             given   == BookedRows(refund, t, {FALSE})
  <2>1. /\ tx[t].amount \in Nat /\ tx[t].refunded \in Nat /\ tx[t].excess \in Nat
        /\ tx[t].alloc \in [Numbers -> Nat] /\ tx[t].alloc \in [Numbers -> Int]
    BY DEF IInv, TypeOK, PaymentTransaction
  <2>2. Total(tx[t].alloc) \in Int
    BY <2>1, TotalType
  <2>3. /\ \A r \in Refunds : amounts[r] \in Int
        /\ IsFiniteSet(all) /\ taken \in SUBSET all /\ given = all \ taken /\ IsFiniteSet(given)
        /\ all \in SUBSET Refunds /\ taken \in SUBSET Refunds /\ given \in SUBSET Refunds
    <3>1. \A r \in Refunds : /\ refund[r].amount \in Nat
                             /\ refund[r].reverseCharge \in BOOLEAN
      BY DEF IInv, TypeOK, RefundRow
    <3>2. all \in SUBSET Refunds /\ taken \in SUBSET all /\ given \in SUBSET Refunds
      BY <3>1 DEF BookedRows
    <3>3. IsFiniteSet(all) /\ IsFiniteSet(given)
      BY <3>2, LedgerAssumption, FS_Subset
    <3>4. given = all \ taken
      BY <3>1, Zenon DEF BookedRows
    <3> QED BY <3>1, <3>2, <3>3, <3>4
  <2>4. /\ RowSum(refund, all) = RowSum(refund, taken) + RowSum(refund, given)
        /\ RowSum(refund, taken) \in Int /\ RowSum(refund, given) \in Int
    <3>1. (\A r \in all : amounts[r] \in Int) /\ (\A r \in given : amounts[r] \in Int)
          /\ (\A r \in taken : amounts[r] \in Int) /\ IsFiniteSet(taken)
      BY <2>3, FS_Subset
    <3> HIDE DEF amounts, all, taken, given
    <3>2. SumFunctionOnSet(amounts, all)
            = SumFunctionOnSet(amounts, taken) + SumFunctionOnSet(amounts, given)
      BY <2>3, <3>1, SumParts
    <3>3. SumFunctionOnSet(amounts, taken) \in Int /\ SumFunctionOnSet(amounts, given) \in Int
      BY <2>3, <3>1, SumInt
    <3> QED BY <3>2, <3>3 DEF RowSum, amounts
  <2>5. RefundSum(Succeeded(t, {FALSE})) = RowSum(refund, given)
    BY DEF RefundSum, Succeeded, RowSum, BookedRows
  <2>6. /\ tx[t].refunded = RowSum(refund, all)
        /\ t \in done => Total(tx[t].alloc) + tx[t].excess + RowSum(refund, taken)
                           = tx[t].amount
    BY DEF Accounts, AllAccounted, Accounted
  <2>7. t \notin done =>
          Total(tx[t].alloc) = 0 /\ tx[t].excess = 0 /\ RowSum(refund, given) = 0
    <3>1. SUFFICES ASSUME t \notin done
                   PROVE  Total(tx[t].alloc) = 0 /\ tx[t].excess = 0 /\ RowSum(refund, given) = 0
      OBVIOUS
    <3>2. ~Done(t)
      BY <3>1 DEF Done
    <3>3. tx[t].alloc = Nobody /\ tx[t].excess = 0
      BY <3>2 DEF IInv, UnsettledIsEmpty
    <3>4. Total(Nobody) = 0
      BY NobodyTotal
    <3>5. RowSum(refund, given) = 0
      BY <3>2, UnsettledHasNoRows, NoRows
    <3> QED BY <3>3, <3>4, <3>5
  <2> HIDE DEF all, taken, given, done, amounts
  <2> QED BY <2>1, <2>2, <2>4, <2>5, <2>6, <2>7
<1>3. \A t \in Attempts :
        /\ amount[t] \in Int /\ back[t] \in Int /\ net[t] \in Int /\ onto[t] \in Int
        /\ excess[t] \in Int /\ gift[t] \in Int /\ kept[t] \in Int /\ minus[t] \in Int
        /\ amount[t] = net[t] + back[t] /\ kept[t] = onto[t] + excess[t]
        /\ kept[t] = minus[t] + gift[t]
        /\ t \in done => net[t] = minus[t]
        /\ t \notin done => minus[t] = 0
  <2> TAKE t \in Attempts
  <2> HIDE DEF done
  <2> QED BY <1>2
<1>4. alloc \in [Attempts -> [Numbers -> Int]]
  BY <1>2
<1>5. /\ getCollectionReport.net = SumFunctionOnSet(amount, done) - SumFunctionOnSet(back, done)
      /\ SumFunction(excess) = SumFunctionOnSet(excess, Attempts)
      /\ SumFunction(gift) = SumFunctionOnSet(gift, Attempts)
  BY DEF getCollectionReport, SumFunction
<1>6. Total(Paids(schedule)) = SumFunctionOnSet(onto, Attempts)
  <2>1. ASSUME NEW i \in Numbers
        PROVE  schedule[i].paid = SumFunctionOnSet([t \in Attempts |-> alloc[t][i]], Attempts)
    <3>1. schedule[i].paid = SumFunction([t \in Attempts |-> tx[t].alloc[i]])
      BY DEF IInv, PaidIsAllocated
    <3>2. [t \in Attempts |-> tx[t].alloc[i]] = [t \in Attempts |-> alloc[t][i]]
      OBVIOUS
    <3>3. DOMAIN [t \in Attempts |-> alloc[t][i]] = Attempts
      OBVIOUS
    <3> HIDE DEF alloc
    <3> QED BY <3>1, <3>2, <3>3 DEF SumFunction
  <2>2. Paids(schedule)
          = [i \in Numbers |-> SumFunctionOnSet([t \in Attempts |-> alloc[t][i]], Attempts)]
    <3> HIDE DEF alloc
    <3> QED BY <2>1 DEF Paids
  <2>3. onto = [t \in Attempts |-> Total(alloc[t])]
    OBVIOUS
  <2> HIDE DEF alloc, onto
  <2>4. Total([i \in Numbers |-> SumFunctionOnSet([t \in Attempts |-> alloc[t][i]], Attempts)])
          = SumFunctionOnSet([t \in Attempts |-> Total(alloc[t])], Attempts)
    BY <1>1, <1>4, SumExchange
  <2> QED BY <2>2, <2>3, <2>4
<1> HIDE DEF done, amount, back, net, alloc, onto, excess, gift, kept, minus
<1>7. SumFunctionOnSet(amount, done) = SumFunctionOnSet(net, done) + SumFunctionOnSet(back, done)
  <2>1. \A t \in done : net[t] \in Int /\ back[t] \in Int /\ amount[t] = net[t] + back[t]
    BY <1>1, <1>3
  <2> QED BY <1>1, <2>1, SumPlus
<1>8. SumFunctionOnSet(net, done) = SumFunctionOnSet(minus, done)
  <2>1. \A t \in done : net[t] \in Int /\ net[t] = minus[t]
    BY <1>1, <1>3
  <2> QED BY <1>1, <2>1, SumAgree
<1>9. SumFunctionOnSet(minus, Attempts) = SumFunctionOnSet(minus, done)
  <2>1. (\A t \in Attempts : minus[t] \in Int) /\ \A t \in Attempts \ done : minus[t] = 0
    BY <1>3
  <2> QED BY <1>1, <2>1, SumRestrict
<1>10. SumFunctionOnSet(kept, Attempts)
         = SumFunctionOnSet(minus, Attempts) + SumFunctionOnSet(gift, Attempts)
  BY <1>1, <1>3, SumPlus
<1>11. SumFunctionOnSet(kept, Attempts)
         = SumFunctionOnSet(onto, Attempts) + SumFunctionOnSet(excess, Attempts)
  BY <1>1, <1>3, SumPlus
<1>12. /\ SumFunctionOnSet(minus, done) \in Int /\ SumFunctionOnSet(back, done) \in Int
       /\ SumFunctionOnSet(gift, Attempts) \in Int /\ SumFunctionOnSet(onto, Attempts) \in Int
       /\ SumFunctionOnSet(excess, Attempts) \in Int
  <2>1. \A t \in done : minus[t] \in Int /\ back[t] \in Int
    BY <1>1, <1>3
  <2>2. SumFunctionOnSet(minus, done) \in Int
    BY <1>1, <2>1, SumInt
  <2>3. SumFunctionOnSet(back, done) \in Int
    BY <1>1, <2>1, SumInt
  <2>4. SumFunctionOnSet(gift, Attempts) \in Int
    BY <1>1, <1>3, SumInt
  <2>5. SumFunctionOnSet(onto, Attempts) \in Int
    BY <1>1, <1>3, SumInt
  <2>6. SumFunctionOnSet(excess, Attempts) \in Int
    BY <1>1, <1>3, SumInt
  <2> QED BY <2>2, <2>3, <2>4, <2>5, <2>6
<1>13. getCollectionReport.net
         = (SumFunctionOnSet(onto, Attempts) + SumFunctionOnSet(excess, Attempts))
             - SumFunctionOnSet(gift, Attempts)
  BY <1>5, <1>7, <1>8, <1>9, <1>10, <1>11, <1>12
<1> QED BY <1>5, <1>6, <1>13 DEF excess, gift

\* Whatever payments, refunds, corrections, late fees and cancellations there
\* were, the student, the office and the gate are told the same of an invoice,
\* and the money kept is what it counts as paid or holds as excess, less the
\* refunds that left the charge (invoice.service.ts, payment.service.ts:687):
\* for any number of installments, payments and refunds.
THEOREM NobodyIsToldOtherwise == Spec => []ReportsAgree
<1>1. IInv /\ Balance /\ Accounts => ReportsAgree
  <2> SUFFICES ASSUME IInv, Balance, Accounts PROVE ReportsAgree
    OBVIOUS
  <2>1. TypeOK
    BY DEF IInv
  <2>2. getDashboardSummary.totalCollected
          = (Total(Paids(schedule)) + SumFunction([t \in Attempts |-> tx[t].excess]))
              - SumFunction([t \in Attempts |-> RefundSum(Succeeded(t, {FALSE}))])
    <3>1. getDashboardSummary.totalCollected = getCollectionReport.net
      BY DEF getDashboardSummary
    <3> QED BY <3>1, KeptIsCollected
  <2>3. \A t \in Attempts : ~HasReceipt(t) => tx[t].alloc = Nobody
    BY DEF IInv, UnsettledIsEmpty, HasReceipt, Done
  <2>4. DuesTold
    BY <2>1, DuesAgree
  <2> QED BY <2>2, <2>3, <2>4 DEF ReportsAgree, DuesTold
<1> QED BY <1>1, Invariant, BalanceInvariant, AccountsInvariant, PTL
=============================================================================
