------------------------- MODULE PaymentLedgerProofs -------------------------
(***************************************************************************)
(* The inductive invariant of PaymentLedger, for any schedule and any      *)
(* number of payments, handlers, refunds and late-fee runs: types, what    *)
(* the handlers and refunds under way may rely on, that only captured      *)
(* money is settled, and that what is paid is what was allocated.          *)
(*                                                                         *)
(* The types need the rest: a booked refund subtracts from an allocation   *)
(* and from an installment, and stays a natural number only because what   *)
(* is taken back was allocated (RefundsSound, PaidIsAllocated), by a       *)
(* payment that is settled and by no other (UnsettledIsEmpty).             *)
(***************************************************************************)
EXTENDS PaymentLedger, BillingProofs

-----------------------------------------------------------------------------
(***************************************************************************)
(* The invariant.                                                          *)
(***************************************************************************)

\* What a handler remembers of its payment is still so: a row to be inserted
\* is not there yet, a capture to be settled is the one bKash recorded.
HandlerSound(h) ==
  LET t == handler[h].tx
  IN  /\ handler[h].step # "idle" => t \in Attempts
      /\ handler[h].step = "creating" => tx[t].status = "NONE"
      /\ handler[h].step \notin {"idle", "creating"} => Exists(t)
      /\ handler[h].step = "settling" =>
           /\ gateway[t].state = "completed"
           /\ handler[h].amount = gateway[t].captured

\* No two requests are about to insert the same row: bKash names each payment.
HandlersSound ==
  /\ \A h \in Handlers : HandlerSound(h)
  /\ \A g, h \in Handlers :
       g # h /\ handler[g].step = "creating" /\ handler[h].step = "creating" =>
         handler[g].tx # handler[h].tx

\* A refund under way is a PENDING row of a settled payment.
RefundSound(r) ==
  /\ refunding[r] = "new" => refund[r].status = "NONE"
  /\ refunding[r] \in {"calling", "failing", "booking"} => refund[r].status = "PENDING"
  /\ refunding[r] # "new" =>
       refund[r].tx \in Attempts /\ Done(refund[r].tx) /\ refund[r].amount > 0

RefundsSound == \A r \in Refunds : RefundSound(r)

\* A payment that is not settled holds nothing.
UnsettledIsEmpty ==
  \A t \in Attempts :
    ~Done(t) => tx[t].alloc = Nobody /\ tx[t].excess = 0 /\ tx[t].refunded = 0

IInv ==
  /\ TypeOK
  /\ HandlersSound
  /\ RefundsSound
  /\ UnsettledIsEmpty
  /\ SettledWasCaptured
  /\ PaidIsAllocated

-----------------------------------------------------------------------------
(***************************************************************************)
(* Helpers of the actions.                                                 *)
(***************************************************************************)

\* What is outstanding on a schedule is an amount of money.
LEMMA OutstandingType ==
  ASSUME NEW s \in Schedules
  PROVE  Outstanding(s) \in Nat
<1> DEFINE owed == [i \in Numbers |-> Positive(Balances(s)[i])]
<1>1. \A i \in Numbers : Balances(s)[i] \in Int
  BY ScheduleTypes
<1>2. owed \in [Numbers -> Nat]
  BY <1>1 DEF Positive
<1> HIDE DEF owed
<1>3. Total(owed) \in Nat
  BY <1>2, TotalType
<1> QED BY <1>3 DEF Outstanding, owed

\* recomputeInvoice (invoiceCore.ts:254): the columns it writes and their types.
LEMMA RecomputedTypes ==
  ASSUME NEW s \in Schedules, NEW adj \in Int,
         NEW inv \in FeeInvoice
  PROVE  /\ Recomputed(s, adj, inv)
              \in FeeInvoice
         /\ Recomputed(s, adj, inv).refunded = inv.refunded
         /\ Recomputed(s, adj, inv).payable = subtotal + adj
         /\ Recomputed(s, adj, inv).paid = Total(Paids(s))
         /\ Recomputed(s, adj, inv).status
              = deriveInvoiceStatus(subtotal + adj, Total(Paids(s)), inv.status = "CANCELLED")
<1>1. Total(Paids(s)) \in Int
  <2>1. Paids(s) \in [Numbers -> Int]
    BY ScheduleTypes
  <2> QED BY <2>1, TotalType
<1>2. subtotal \in Int
  <2>1. InitialAmounts \in [Numbers -> Int]
    BY LedgerAssumption
  <2> QED BY <2>1, TotalType DEF subtotal
<1>3. computePayable(subtotal, 0, adj) = subtotal + adj
  BY <1>2 DEF computePayable
<1>4. deriveInvoiceStatus(subtotal + adj, Total(Paids(s)), inv.status = "CANCELLED")
        \in InvoiceStatus
  BY DEF deriveInvoiceStatus, InvoiceStatus
<1> DEFINE paid == Total(Paids(s))
           status == deriveInvoiceStatus(subtotal + adj, paid, inv.status = "CANCELLED")
<1>5. Recomputed(s, adj, inv) =
        [inv EXCEPT !.payable = subtotal + adj, !.paid = paid, !.status = status]
  BY <1>3, Zenon DEF Recomputed
<1> HIDE DEF paid, status
<1>6. Recomputed(s, adj, inv) = [status   |-> status, payable  |-> subtotal + adj,
                                 paid     |-> paid,   refunded |-> inv.refunded]
  BY <1>5 DEF FeeInvoice
<1>7. paid \in Int /\ subtotal + adj \in Int /\ status \in InvoiceStatus
  BY <1>1, <1>2, <1>4 DEF paid, status
<1>8. Recomputed(s, adj, inv)
        \in FeeInvoice
  BY <1>6, <1>7 DEF FeeInvoice
<1> QED BY <1>6, <1>8 DEF paid, status

\* A step that changes neither the schedule nor an allocation row keeps the two
\* in agreement.
LEMMA AllocationsKept ==
  ASSUME PaidIsAllocated, schedule' = schedule,
         \A t \in Attempts : tx'[t].alloc = tx[t].alloc
  PROVE  PaidIsAllocated'
<1>1. ASSUME NEW i \in Numbers
      PROVE  [t \in Attempts |-> tx'[t].alloc[i]] = [t \in Attempts |-> tx[t].alloc[i]]
  OBVIOUS
<1> QED BY <1>1 DEF PaidIsAllocated

\* A newly issued invoice, without any payment, satisfies the invariant.
LEMMA Initially == Init => IInv
<1> SUFFICES ASSUME Init PROVE IInv
  OBVIOUS
<1>1. TypeOK
  <2>1. subtotal \in Int
    <3>1. InitialAmounts \in [Numbers -> Int]
      BY LedgerAssumption
    <3> QED BY <3>1, TotalType DEF subtotal
  <2>2. Nobody \in [Numbers -> Nat]
    BY DEF Nobody
  <2>3. schedule \in Schedules
    BY LedgerAssumption DEF Init, Schedules
  <2>4. invoice \in FeeInvoice
    BY <2>1 DEF Init, FeeInvoice, InvoiceStatus
  <2>5. tx \in [Attempts -> PaymentTransaction]
    BY <2>2 DEF Init, PaymentTransaction, TransactionStatus
  <2>6. refund \in [Refunds -> RefundRow]
    BY DEF Init, RefundRow, RefundStatus
  <2>7. handler \in [Handlers -> HandlerRecord]
    BY DEF Init, HandlerRecord, HandlerStep, Idle
  <2>8. /\ refunding \in [Refunds -> RefundStep]
        /\ charging \in [LateRuns -> [Numbers -> Nat]]
        /\ gateway \in [Attempts -> GatewayRecord]
    BY <2>2 DEF Init, RefundStep, GatewayRecord
  <2>9. /\ adjustment \in Int /\ confirmed \in BOOLEAN
        /\ lateFees \subseteq Numbers /\ overdue \subseteq Numbers
        /\ gatewayRefunds \subseteq Refunds
    <3>1. /\ adjustment = 0 /\ confirmed = FALSE
          /\ lateFees = {} /\ overdue = {} /\ gatewayRefunds = {}
      BY Zenon DEF Init
    <3>2. confirmed \in BOOLEAN
      BY <3>1, Zenon
    <3>3. adjustment \in Int /\ lateFees \subseteq Numbers /\ overdue \subseteq Numbers
          /\ gatewayRefunds \subseteq Refunds
      BY <3>1
    <3> QED BY <3>2, <3>3
  <2> QED BY <2>3, <2>4, <2>5, <2>6, <2>7, <2>8, <2>9 DEF TypeOK
<1>2. HandlersSound
  <2>1. \A h \in Handlers : handler[h].step = "idle"
    BY DEF Init, Idle
  <2>2. ASSUME NEW h \in Handlers PROVE HandlerSound(h)
    BY <2>1 DEF HandlerSound, Exists
  <2> QED BY <2>1, <2>2 DEF HandlersSound
<1>3. RefundsSound
  BY DEF Init, RefundsSound, RefundSound
<1>4. UnsettledIsEmpty
  BY DEF Init, UnsettledIsEmpty
<1>5. SettledWasCaptured
  BY DEF Init, SettledWasCaptured, Done
<1>6. PaidIsAllocated
  <2>1. ASSUME NEW i \in Numbers
        PROVE  schedule[i].paid = SumFunction([t \in Attempts |-> tx[t].alloc[i]])
    <3> DEFINE f == [t \in Attempts |-> tx[t].alloc[i]]
    <3>1. \A t \in Attempts : f[t] \in Int /\ f[t] = 0
      BY DEF Init, Nobody
    <3>2. DOMAIN f = Attempts
      OBVIOUS
    <3> HIDE DEF f
    <3>3. SumFunctionOnSet(f, Attempts) = 0
      BY <3>1, LedgerAssumption, SumZero
    <3>4. SumFunction(f) = 0
      BY <3>2, <3>3 DEF SumFunction
    <3>5. schedule[i].paid = 0
      BY DEF Init
    <3> QED BY <3>4, <3>5 DEF f
  <2> QED BY <2>1 DEF PaidIsAllocated
<1> QED BY <1>1, <1>2, <1>3, <1>4, <1>5, <1>6 DEF IInv

-----------------------------------------------------------------------------
(***************************************************************************)
(* The handlers of payments.                                               *)
(***************************************************************************)

\* A step that moves one handler keeps the invariant of all handlers, if what it
\* does to the payments and to the gateway is what the other handlers allow for.
LEMMA HandlerMoves ==
  ASSUME IInv, NEW h \in Handlers, NEW new \in HandlerRecord,
         handler' = [handler EXCEPT ![h] = new],
         \A q \in Attempts : Exists(q) => Exists(q)',
         \A q \in Attempts : gateway[q].state = "completed" => gateway'[q] = gateway[q],
         \A g \in Handlers \ {h} :
           handler[g].step = "creating" =>
             /\ tx'[handler[g].tx].status = "NONE"
             /\ new.step = "creating" => handler[g].tx # new.tx,
         HandlerSound(h)'
  PROVE  HandlersSound' /\ handler' \in [Handlers -> HandlerRecord]
<1>1. handler \in [Handlers -> HandlerRecord]
  BY DEF IInv, TypeOK
<1>2. /\ handler' \in [Handlers -> HandlerRecord]
      /\ handler'[h] = new
      /\ \A g \in Handlers \ {h} : handler'[g] = handler[g]
  BY <1>1
<1>3. ASSUME NEW g \in Handlers \ {h} PROVE HandlerSound(g)'
  <2>1. HandlerSound(g) /\ handler'[g] = handler[g]
    BY <1>2 DEF IInv, HandlersSound
  <2> QED BY <2>1 DEF HandlerSound, Exists
<1>4. \A g, k \in Handlers :
        g # k /\ handler'[g].step = "creating" /\ handler'[k].step = "creating" =>
          handler'[g].tx # handler'[k].tx
  <2>1. SUFFICES ASSUME NEW g \in Handlers, NEW k \in Handlers, g # k,
                        handler'[g].step = "creating", handler'[k].step = "creating"
                 PROVE  handler'[g].tx # handler'[k].tx
    OBVIOUS
  <2>2. CASE g = h
    BY <1>2, <2>1, <2>2
  <2>3. CASE k = h
    BY <1>2, <2>1, <2>3
  <2>4. CASE g # h /\ k # h
    BY <1>2, <2>1, <2>4 DEF IInv, HandlersSound
  <2> QED BY <2>2, <2>3, <2>4
<1>5. HandlerSound(h)'
  OBVIOUS
<1> QED BY <1>2, <1>3, <1>4, <1>5 DEF HandlersSound

\* A step that moves payments between statuses that are not final, and leaves
\* their money alone, keeps the invariants of payments and refunds.
LEMMA StatusMoves ==
  ASSUME IInv, tx' \in [Attempts -> PaymentTransaction],
         UNCHANGED <<schedule, refund, refunding>>,
         \A q \in Attempts : gateway[q].state = "completed" => gateway'[q] = gateway[q],
         \A q \in Attempts : /\ tx'[q].alloc = tx[q].alloc
                             /\ tx'[q].excess = tx[q].excess
                             /\ tx'[q].refunded = tx[q].refunded
                             /\ Done(q)' <=> Done(q)
                             /\ Done(q) => tx'[q].amount = tx[q].amount
  PROVE  RefundsSound' /\ UnsettledIsEmpty' /\ SettledWasCaptured' /\ PaidIsAllocated'
<1>1. RefundsSound'
  BY DEF IInv, RefundsSound, RefundSound
<1>2. UnsettledIsEmpty'
  BY DEF IInv, UnsettledIsEmpty
<1>3. SettledWasCaptured'
  BY DEF IInv, SettledWasCaptured
<1>4. PaidIsAllocated'
  BY AllocationsKept DEF IInv
<1> QED BY <1>1, <1>2, <1>3, <1>4

\* Setting the status of one payment, as updateMany does, changes nothing else.
LEMMA StatusSet ==
  ASSUME TypeOK, NEW p \in Attempts, NEW status \in TransactionStatus,
         tx' = [tx EXCEPT ![p].status = status],
         status \in {"SUCCESS", "REFUNDED"} <=> Done(p)
  PROVE  /\ tx' \in [Attempts -> PaymentTransaction]
         /\ tx'[p].status = status
         /\ \A q \in Attempts : /\ q # p => tx'[q] = tx[q]
                                /\ tx'[q].alloc = tx[q].alloc
                                /\ tx'[q].excess = tx[q].excess
                                /\ tx'[q].refunded = tx[q].refunded
                                /\ Done(q)' <=> Done(q)
                                /\ tx'[q].amount = tx[q].amount
<1>1. tx \in [Attempts -> PaymentTransaction]
  BY DEF TypeOK
<1>2. tx'[p] = [tx[p] EXCEPT !.status = status]
  BY <1>1
<1>3. /\ tx'[p] \in PaymentTransaction
      /\ tx'[p].status = status /\ tx'[p].alloc = tx[p].alloc
      /\ tx'[p].excess = tx[p].excess /\ tx'[p].refunded = tx[p].refunded
      /\ tx'[p].amount = tx[p].amount
  BY <1>1, <1>2 DEF PaymentTransaction
<1>4. ASSUME NEW q \in Attempts, q # p PROVE tx'[q] = tx[q]
  BY <1>1, <1>4
<1>5. tx' \in [Attempts -> PaymentTransaction]
  BY <1>1, <1>3, <1>4
<1> QED BY <1>3, <1>4, <1>5 DEF Done

\* Moving a handler on changes only where it is.
LEMMA StepMoves ==
  ASSUME TypeOK, NEW h \in Handlers, NEW from, NEW to \in HandlerStep, Move(h, from, to)
  PROVE  LET new == [step |-> to, tx |-> handler[h].tx, amount |-> handler[h].amount]
         IN  /\ new \in HandlerRecord
             /\ handler' = [handler EXCEPT ![h] = new]
             /\ handler'[h] = new
             /\ handler[h].step = from
<1> DEFINE new == [step |-> to, tx |-> handler[h].tx, amount |-> handler[h].amount]
<1>1. handler \in [Handlers -> HandlerRecord]
  BY DEF TypeOK
<1>2. [handler[h] EXCEPT !.step = to] = new /\ new \in HandlerRecord
  BY <1>1 DEF HandlerRecord
<1>3. handler' = [handler EXCEPT ![h] = [handler[h] EXCEPT !.step = to]]
  BY DEF Move
<1>4. handler[h].step = from
  BY DEF Move
<1> HIDE DEF new
<1>5. handler' = [handler EXCEPT ![h] = new]
  BY <1>2, <1>3
<1>6. handler'[h] = new
  BY <1>1, <1>5
<1> QED BY <1>2, <1>4, <1>5, <1>6 DEF new

\* initPayment (payment.service.ts:75): deciding on the amount, and inserting
\* the row later, keep the invariant; two requests never hold the same row.
LEMMA InitPaymentKeeps ==
  ASSUME IInv, NEW h \in Handlers,
         (\E t \in Attempts : InitPaymentRead(h, t)) \/ InitPaymentInsert(h)
  PROVE  IInv'
<1> USE DEF ledgerVars, gatewayVars
<1>0. TypeOK /\ HandlersSound
  BY DEF IInv
<1>1. ASSUME NEW t \in Attempts, InitPaymentRead(h, t) PROVE IInv'
  <2> DEFINE new(amount) == [step |-> "creating", tx |-> t, amount |-> amount]
  <2> USE <1>1 DEF InitPaymentRead
  <2>1. PICK amount \in 1..Outstanding(schedule) : handler' = [handler EXCEPT ![h] = new(amount)]
    BY DEF Become
  <2>2. new(amount) \in HandlerRecord
    BY <1>0, OutstandingType DEF TypeOK, HandlerRecord, HandlerStep
  <2>3. handler'[h] = new(amount)
    BY <1>0, <2>1 DEF TypeOK
  <2>4. \A g \in Handlers \ {h} : handler[g].step = "creating" =>
          tx[handler[g].tx].status = "NONE" /\ handler[g].tx # t
    BY <1>0 DEF BeingCreated, HandlersSound, HandlerSound, Exists
  <2>5. HandlerSound(h)'
    BY <2>3 DEF HandlerSound, Exists
  <2> HIDE DEF InitPaymentRead
  <2>6. UNCHANGED <<ledgerVars, overdue, tx, refund, refunding, charging, gatewayVars>>
    BY DEF InitPaymentRead
  <2>7. HandlersSound' /\ handler' \in [Handlers -> HandlerRecord]
    BY <2>1, <2>2, <2>4, <2>5, <2>6, HandlerMoves DEF Exists
  <2>8. TypeOK'
    BY <1>0, <2>6, <2>7 DEF TypeOK
  <2>9. RefundsSound' /\ UnsettledIsEmpty' /\ SettledWasCaptured' /\ PaidIsAllocated'
    BY <1>0, <2>6, StatusMoves DEF TypeOK, Done
  <2> QED BY <2>7, <2>8, <2>9 DEF IInv
<1>2. CASE InitPaymentInsert(h)
  <2> DEFINE p == handler[h].tx
             row == [tx[p] EXCEPT !.status = "INITIATED", !.amount = handler[h].amount]
  <2>1. p \in Attempts /\ tx[p].status = "NONE" /\ handler[h] \in HandlerRecord
    BY <1>0, <1>2 DEF InitPaymentInsert, HandlersSound, HandlerSound, TypeOK
  <2>2. /\ tx' = [tx EXCEPT ![p].status = "INITIATED", ![p].amount = handler[h].amount]
        /\ handler' = [handler EXCEPT ![h] = Idle]
        /\ handler[h].step = "creating"
        /\ UNCHANGED <<ledgerVars, overdue, refund, refunding, charging, gatewayVars>>
    BY <1>2 DEF InitPaymentInsert, Finish
  <2>3. tx \in [Attempts -> PaymentTransaction]
    BY <1>0 DEF TypeOK
  <2>4. tx' = [tx EXCEPT ![p] = row]
    BY <2>1, <2>2, <2>3
  <2>5. /\ row \in PaymentTransaction /\ row.status = "INITIATED"
        /\ row.alloc = tx[p].alloc /\ row.excess = tx[p].excess
        /\ row.refunded = tx[p].refunded
    BY <2>1, <2>3 DEF PaymentTransaction, TransactionStatus, HandlerRecord
  <2> HIDE DEF row
  <2>6. tx' \in [Attempts -> PaymentTransaction] /\ tx'[p] = row
        /\ \A q \in Attempts \ {p} : tx'[q] = tx[q]
    BY <2>1, <2>3, <2>4, <2>5
  <2>7. RefundsSound' /\ UnsettledIsEmpty' /\ SettledWasCaptured' /\ PaidIsAllocated'
    BY <2>1, <2>2, <2>5, <2>6, StatusMoves DEF Done
  <2>8. HandlerSound(h)' /\ Idle \in HandlerRecord
    BY <1>0, <2>2 DEF HandlerSound, TypeOK, Idle, HandlerRecord, HandlerStep, Exists
  <2>9. ASSUME NEW g \in Handlers \ {h}, handler[g].step = "creating"
        PROVE  tx'[handler[g].tx].status = "NONE" /\ Idle.step # "creating"
    BY <1>0, <2>2, <2>6, <2>9 DEF HandlersSound, HandlerSound, Idle
  <2>10. HandlersSound' /\ handler' \in [Handlers -> HandlerRecord]
    <3>1. \A q \in Attempts : Exists(q) => Exists(q)'
      BY <2>5, <2>6 DEF Exists
    <3> QED BY <2>2, <2>8, <2>9, <3>1, HandlerMoves
  <2>11. TypeOK'
    BY <1>0, <2>2, <2>6, <2>10 DEF TypeOK
  <2> QED BY <2>7, <2>10, <2>11 DEF IInv
<1> QED BY <1>1, <1>2

\* A step that changes only what one handler holds keeps the invariant.
LEMMA HandlerOnly ==
  ASSUME IInv, NEW h \in Handlers, NEW new \in HandlerRecord,
         handler' = [handler EXCEPT ![h] = new],
         UNCHANGED <<ledgerVars, overdue, tx, refund, refunding, charging, gatewayVars>>,
         new.step # "creating",
         new.step # "idle" => new.tx \in Attempts /\ Exists(new.tx),
         new.step = "settling" => /\ gateway[new.tx].state = "completed"
                                  /\ new.amount = gateway[new.tx].captured
  PROVE  IInv'
<1> USE DEF ledgerVars, gatewayVars
<1>1. TypeOK /\ HandlersSound
  BY DEF IInv
<1>2. handler'[h] = new
  BY <1>1 DEF TypeOK
<1>3. HandlerSound(h)'
  BY <1>2 DEF HandlerSound, Exists
<1>4. ASSUME NEW g \in Handlers \ {h}, handler[g].step = "creating"
      PROVE  tx'[handler[g].tx].status = "NONE"
  BY <1>1, <1>4 DEF HandlersSound, HandlerSound
<1>5. \A q \in Attempts : Exists(q) => Exists(q)'
  BY DEF Exists
<1>6. HandlersSound' /\ handler' \in [Handlers -> HandlerRecord]
  BY <1>3, <1>4, <1>5, HandlerMoves
<1>7. TypeOK'
  BY <1>1, <1>6 DEF TypeOK
<1>8. RefundsSound' /\ UnsettledIsEmpty' /\ SettledWasCaptured' /\ PaidIsAllocated'
  BY <1>1, StatusMoves DEF TypeOK, Done
<1> QED BY <1>6, <1>7, <1>8 DEF IInv

\* The reads and answers of a handler that write nothing to the database
\* (payment.service.ts:320, 378) keep the invariant.
LEMMA HandlerStepsKeep ==
  ASSUME IInv, NEW h \in Handlers,
         \/ \E t \in Attempts : \/ CallbackRead(h, t) \/ CallbackAbandonRead(h, t)
                                \/ VerifyRead(h, t)
         \/ ExecuteFailed(h) \/ QueryCompleted(h)
         \/ VerifyUnanswered(h) \/ SettleAlreadyDone(h) \/ HandlerDies(h)
  PROVE  IInv'
<1> DEFINE Rest == <<ledgerVars, overdue, tx, refund, refunding, charging, gatewayVars>>
           p == handler[h].tx
<1>1. TypeOK /\ HandlerSound(h) /\ handler[h] \in HandlerRecord
  BY DEF IInv, HandlersSound, TypeOK
<1>2. ASSUME NEW t \in Attempts,
             CallbackRead(h, t) \/ CallbackAbandonRead(h, t) \/ VerifyRead(h, t)
      PROVE  IInv'
  <2>1. PICK step \in {"marking", "abandoning", "verifying"} :
          handler' = [handler EXCEPT ![h] = [step |-> step, tx |-> t, amount |-> 0]]
    BY <1>2 DEF CallbackRead, CallbackAbandonRead, VerifyRead, Become
  <2>2. Exists(t) /\ UNCHANGED Rest
    BY <1>2 DEF CallbackRead, CallbackAbandonRead, VerifyRead
  <2> DEFINE new == [step |-> step, tx |-> t, amount |-> 0]
  <2>3. new \in HandlerRecord
    BY DEF HandlerRecord, HandlerStep
  <2>4. new.step = step /\ new.tx = t
    OBVIOUS
  <2> HIDE DEF new
  <2>5. handler' = [handler EXCEPT ![h] = new]
    BY <2>1 DEF new
  <2> QED BY <2>2, <2>3, <2>4, <2>5, HandlerOnly
<1>3. CASE ExecuteFailed(h)
  <2> DEFINE new == [step |-> "querying", tx |-> p, amount |-> handler[h].amount]
  <2>1. UNCHANGED Rest /\ Move(h, "executing", "querying") /\ "querying" \in HandlerStep
    BY <1>3 DEF ExecuteFailed, HandlerStep
  <2>2. /\ new \in HandlerRecord /\ handler' = [handler EXCEPT ![h] = new]
        /\ handler[h].step = "executing"
    BY <1>1, <2>1, StepMoves
  <2>3. p \in Attempts /\ Exists(p)
    BY <1>1, <2>2 DEF HandlerSound
  <2>4. new.step = "querying" /\ new.tx = p
    OBVIOUS
  <2> HIDE DEF new
  <2> QED BY <2>1, <2>2, <2>3, <2>4, HandlerOnly
<1>4. CASE QueryCompleted(h)
  <2> DEFINE new == [step |-> "settling", tx |-> p, amount |-> gateway[p].captured]
  <2>1. /\ UNCHANGED Rest /\ handler' = [handler EXCEPT ![h] = new]
        /\ handler[h].step \in {"querying", "verifying"}
        /\ gateway[p].state = "completed"
    BY <1>4 DEF QueryCompleted, Become
  <2>2. p \in Attempts /\ Exists(p)
    BY <1>1, <2>1 DEF HandlerSound
  <2>3. new \in HandlerRecord
    BY <1>1, <2>2 DEF HandlerRecord, HandlerStep, TypeOK, GatewayRecord
  <2>4. new.step = "settling" /\ new.tx = p /\ new.amount = gateway[p].captured
    OBVIOUS
  <2> HIDE DEF new
  <2> QED BY <2>1, <2>2, <2>3, <2>4, HandlerOnly
<1>5. CASE VerifyUnanswered(h) \/ SettleAlreadyDone(h) \/ HandlerDies(h)
  <2>1. UNCHANGED Rest /\ handler' = [handler EXCEPT ![h] = Idle]
    BY <1>5 DEF VerifyUnanswered, SettleAlreadyDone, HandlerDies, Finish
  <2>2. Idle \in HandlerRecord /\ Idle.step = "idle"
    BY DEF Idle, HandlerRecord, HandlerStep
  <2> QED BY <2>1, <2>2, HandlerOnly
<1> QED BY <1>2, <1>3, <1>4, <1>5

\* A capture completes one payment, and leaves those completed before as they are.
LEMMA CaptureKeeps ==
  ASSUME TypeOK, NEW t \in Attempts, Capture(t)
  PROVE  /\ gateway' \in [Attempts -> GatewayRecord]
         /\ gateway'[t].state = "completed" /\ gateway'[t].captured \in Nat
         /\ \A q \in Attempts : gateway[q].state = "completed" => gateway'[q] = gateway[q]
<1>1. gateway \in [Attempts -> GatewayRecord] /\ tx[t].amount \in Nat
  BY DEF TypeOK, PaymentTransaction
<1>2. PICK drift \in CaptureDrift :
        /\ tx[t].amount + drift > 0
        /\ gateway' = [gateway EXCEPT ![t] = [state    |-> "completed",
                                             captured |-> tx[t].amount + drift]]
  BY DEF Capture
<1>3. tx[t].amount + drift \in Nat
  BY <1>1, <1>2, LedgerAssumption
<1>4. [state |-> "completed", captured |-> tx[t].amount + drift] \in GatewayRecord
  BY <1>3 DEF GatewayRecord
<1>5. gateway[t].state = "approved"
  BY DEF Capture
<1> QED BY <1>1, <1>2, <1>3, <1>4, <1>5

\* executePayment (payment.service.ts:151), its answer received or lost, keeps
\* the invariant.
LEMMA ExecuteKeeps ==
  ASSUME IInv, NEW h \in Handlers, ExecuteConfirmed(h) \/ ExecuteAnswerLost(h)
  PROVE  IInv'
<1> DEFINE p == handler[h].tx
           Rest == <<ledgerVars, overdue, tx, refund, refunding, charging, gatewayRefunds>>
<1>1. TypeOK /\ HandlersSound /\ HandlerSound(h) /\ handler[h] \in HandlerRecord
  BY DEF IInv, HandlersSound, TypeOK
<1>2. handler[h].step = "executing" /\ Capture(p) /\ UNCHANGED Rest
  BY DEF ExecuteConfirmed, ExecuteAnswerLost, Move
<1>3. p \in Attempts /\ Exists(p)
  BY <1>1, <1>2 DEF HandlerSound
<1>4. /\ gateway' \in [Attempts -> GatewayRecord]
      /\ gateway'[p].state = "completed" /\ gateway'[p].captured \in Nat
      /\ \A q \in Attempts : gateway[q].state = "completed" => gateway'[q] = gateway[q]
  BY <1>1, <1>2, <1>3, CaptureKeeps
<1>5. PICK new \in HandlerRecord :
        /\ handler' = [handler EXCEPT ![h] = new] /\ new.tx = p
        /\ \/ new.step = "settling" /\ new.amount = gateway'[p].captured
           \/ new.step = "querying"
  <2>1. CASE ExecuteConfirmed(h)
    <3> DEFINE new == [step |-> "settling", tx |-> p, amount |-> gateway'[p].captured]
    <3>1. handler' = [handler EXCEPT ![h] = new]
      BY <2>1 DEF ExecuteConfirmed, Become
    <3>2. new \in HandlerRecord
      BY <1>3, <1>4 DEF HandlerRecord, HandlerStep
    <3> QED BY <3>1, <3>2
  <2>2. CASE ExecuteAnswerLost(h)
    <3> DEFINE new == [step |-> "querying", tx |-> p, amount |-> handler[h].amount]
    <3>1. Move(h, "executing", "querying") /\ "querying" \in HandlerStep
      BY <2>2 DEF ExecuteAnswerLost, HandlerStep
    <3>2. new \in HandlerRecord /\ handler' = [handler EXCEPT ![h] = new]
      BY <1>1, <3>1, StepMoves
    <3> QED BY <3>2
  <2> QED BY <2>1, <2>2
<1> USE DEF ledgerVars
<1>6. handler'[h] = new
  BY <1>1, <1>5 DEF TypeOK
<1>7. HandlerSound(h)'
  BY <1>2, <1>3, <1>4, <1>5, <1>6 DEF HandlerSound, Exists
<1>8. ASSUME NEW g \in Handlers \ {h}, handler[g].step = "creating"
      PROVE  tx'[handler[g].tx].status = "NONE" /\ new.step # "creating"
  BY <1>1, <1>2, <1>5, <1>8 DEF HandlersSound, HandlerSound
<1>9. \A q \in Attempts : Exists(q) => Exists(q)'
  BY <1>2 DEF Exists
<1>10. HandlersSound' /\ handler' \in [Handlers -> HandlerRecord]
  BY <1>4, <1>5, <1>7, <1>8, <1>9, HandlerMoves
<1>11. TypeOK'
  BY <1>1, <1>2, <1>4, <1>10 DEF TypeOK
<1>12. RefundsSound' /\ UnsettledIsEmpty' /\ SettledWasCaptured' /\ PaidIsAllocated'
  BY <1>1, <1>2, <1>4, StatusMoves DEF TypeOK, Done
<1> QED BY <1>10, <1>11, <1>12 DEF IInv
\* The guarded status updates of a callback (payment.service.ts:335, 355) keep
\* the invariant: they never touch a payment that is settled.
LEMMA StatusStepsKeep ==
  ASSUME IInv, NEW h \in Handlers,
         CallbackMarkPending(h) \/ CallbackAbandon(h) \/ CallbackUnconfirmed(h)
  PROVE  IInv'
<1> DEFINE p == handler[h].tx
           Rest == <<ledgerVars, overdue, refund, refunding, charging, gatewayVars>>
<1>1. TypeOK /\ HandlersSound /\ HandlerSound(h) /\ handler[h] \in HandlerRecord
  BY DEF IInv, HandlersSound, TypeOK
<1>2. handler[h].step \in {"marking", "abandoning", "querying"} /\ UNCHANGED Rest
  BY DEF CallbackMarkPending, CallbackAbandon, CallbackUnconfirmed, Move
<1>3. p \in Attempts /\ Exists(p) /\ tx[p].status \in TransactionStatus
  BY <1>1, <1>2 DEF HandlerSound, TypeOK, PaymentTransaction
<1>4. PICK status \in TransactionStatus :
        /\ tx' = [tx EXCEPT ![p].status = status]
        /\ status \in {"SUCCESS", "REFUNDED"} <=> Done(p)
        /\ status # "NONE"
  <2>1. CASE CallbackMarkPending(h)
    <3> DEFINE status == IF tx[p].status = "INITIATED" THEN "PENDING" ELSE tx[p].status
    <3>1. tx' = [tx EXCEPT ![p].status = status]
      BY <2>1, <1>1 DEF CallbackMarkPending, TypeOK
    <3> QED BY <3>1, <1>3 DEF Done, Exists, TransactionStatus
  <2>2. CASE CallbackAbandon(h)
    <3>1. PICK outcome \in {"CANCELLED", "FAILED"} :
            tx' = [tx EXCEPT ![p].status = IF @ \in {"INITIATED", "PENDING"} THEN outcome ELSE @]
      BY <2>2 DEF CallbackAbandon
    <3> DEFINE status == IF tx[p].status \in {"INITIATED", "PENDING"}
                           THEN outcome ELSE tx[p].status
    <3>2. tx' = [tx EXCEPT ![p].status = status]
      BY <3>1, <1>1 DEF TypeOK
    <3> QED BY <3>2, <1>3 DEF Done, Exists, TransactionStatus
  <2>3. CASE CallbackUnconfirmed(h)
    <3> DEFINE status == IF tx[p].status = "PENDING" THEN "FAILED" ELSE tx[p].status
    <3>1. tx' = [tx EXCEPT ![p].status = status]
      BY <2>3, <1>1 DEF CallbackUnconfirmed, TypeOK
    <3> QED BY <3>1, <1>3 DEF Done, Exists, TransactionStatus
  <2> QED BY <2>1, <2>2, <2>3
<1>5. /\ tx' \in [Attempts -> PaymentTransaction] /\ tx'[p].status = status
      /\ \A q \in Attempts : /\ q # p => tx'[q] = tx[q]
                             /\ tx'[q].alloc = tx[q].alloc
                             /\ tx'[q].excess = tx[q].excess
                             /\ tx'[q].refunded = tx[q].refunded
                             /\ Done(q)' <=> Done(q)
                             /\ tx'[q].amount = tx[q].amount
  BY <1>1, <1>3, <1>4, StatusSet
<1>6. PICK new \in HandlerRecord :
        /\ handler' = [handler EXCEPT ![h] = new]
        /\ new = Idle \/ (new.step = "executing" /\ new.tx = p)
  <2>1. CASE CallbackMarkPending(h)
    <3> DEFINE new == [step |-> "executing", tx |-> p, amount |-> handler[h].amount]
    <3>1. Move(h, "marking", "executing") /\ "executing" \in HandlerStep
      BY <2>1 DEF CallbackMarkPending, HandlerStep
    <3>2. new \in HandlerRecord /\ handler' = [handler EXCEPT ![h] = new]
      BY <1>1, <3>1, StepMoves
    <3> QED BY <3>2
  <2>2. CASE CallbackAbandon(h) \/ CallbackUnconfirmed(h)
    <3>1. handler' = [handler EXCEPT ![h] = Idle] /\ Idle \in HandlerRecord
      BY <2>2 DEF CallbackAbandon, CallbackUnconfirmed, Finish, Idle, HandlerRecord, HandlerStep
    <3> QED BY <3>1
  <2> QED BY <2>1, <2>2
<1>7. \A q \in Attempts : Exists(q) => Exists(q)'
  BY <1>4, <1>5 DEF Exists
<1>8. HandlerSound(h)' /\ new.step # "creating"
  <2>1. handler'[h] = new
    BY <1>1, <1>6 DEF TypeOK
  <2> QED BY <2>1, <1>3, <1>6, <1>7 DEF HandlerSound, Idle, Exists
<1> USE DEF ledgerVars, gatewayVars
<1>9. ASSUME NEW g \in Handlers \ {h}, handler[g].step = "creating"
      PROVE  tx'[handler[g].tx].status = "NONE"
  <2>1. handler[g].tx \in Attempts /\ tx[handler[g].tx].status = "NONE"
    BY <1>1, <1>9 DEF HandlersSound, HandlerSound
  <2>2. handler[g].tx # p
    BY <1>3, <2>1 DEF Exists
  <2> QED BY <1>5, <2>1, <2>2
<1>10. HandlersSound' /\ handler' \in [Handlers -> HandlerRecord]
  BY <1>2, <1>6, <1>7, <1>8, <1>9, HandlerMoves
<1>11. TypeOK'
  BY <1>1, <1>2, <1>5, <1>10 DEF TypeOK
<1>12. RefundsSound' /\ UnsettledIsEmpty' /\ SettledWasCaptured' /\ PaidIsAllocated'
  BY <1>2, <1>5, StatusMoves
<1> QED BY <1>10, <1>11, <1>12 DEF IInv

-----------------------------------------------------------------------------
(***************************************************************************)
(* Cancellation, corrections, late fees.                                   *)
(***************************************************************************)

\* A step of another actor that settles no payment and undoes no capture keeps
\* the invariant of the handlers.
LEMMA HandlersStay ==
  ASSUME IInv, UNCHANGED handler,
         \A q \in Attempts : Exists(q) <=> Exists(q)',
         \A q \in Attempts : gateway[q].state = "completed" => gateway'[q] = gateway[q]
  PROVE  HandlersSound'
<1>1. ASSUME NEW h \in Handlers PROVE HandlerSound(h)'
  BY DEF IInv, HandlersSound, HandlerSound, Exists
<1> QED BY <1>1 DEF IInv, HandlersSound

\* cancelInvoice (invoice.service.ts:639) keeps the invariant: it cancels only
\* attempts that are under way.
LEMMA CancelInvoiceKeeps ==
  ASSUME IInv, CancelInvoice
  PROVE  IInv'
<1>1. TypeOK
  BY DEF IInv
<1>2. /\ tx' = CancelAttempts /\ invoice' = [invoice EXCEPT !.status = "CANCELLED"]
      /\ UNCHANGED <<schedule, adjustment, lateFees, confirmed, overdue, refund,
                     handler, refunding, charging, gatewayVars>>
  BY DEF CancelInvoice
<1>3. ASSUME NEW q \in Attempts
      PROVE  /\ tx'[q] \in PaymentTransaction
             /\ tx'[q].alloc = tx[q].alloc /\ tx'[q].excess = tx[q].excess
             /\ tx'[q].refunded = tx[q].refunded /\ tx'[q].amount = tx[q].amount
             /\ Done(q)' <=> Done(q)
             /\ Exists(q)' <=> Exists(q)
  <2>1. tx[q] \in PaymentTransaction
    BY <1>1 DEF TypeOK
  <2>2. tx'[q] = IF tx[q].status \in {"INITIATED", "PENDING"}
                   THEN [tx[q] EXCEPT !.status = "CANCELLED"] ELSE tx[q]
    BY <1>2 DEF CancelAttempts
  <2> QED BY <2>1, <2>2 DEF PaymentTransaction, TransactionStatus, Done, Exists
<1>4. tx' \in [Attempts -> PaymentTransaction]
  BY <1>2, <1>3 DEF CancelAttempts
<1>5. invoice' \in FeeInvoice
  BY <1>1, <1>2 DEF TypeOK, FeeInvoice, InvoiceStatus
<1> USE DEF gatewayVars
<1>6. TypeOK'
  BY <1>1, <1>2, <1>4, <1>5 DEF TypeOK
<1>7. HandlersSound'
  BY <1>2, <1>3, HandlersStay
<1>8. RefundsSound' /\ UnsettledIsEmpty' /\ SettledWasCaptured' /\ PaidIsAllocated'
  BY <1>2, <1>3, <1>4, StatusMoves
<1> QED BY <1>6, <1>7, <1>8 DEF IInv

\* The approval of the customer at the gateway keeps the invariant.
LEMMA CustomerApprovesKeeps ==
  ASSUME IInv, NEW t \in Attempts, CustomerApproves(t)
  PROVE  IInv'
<1>1. TypeOK
  BY DEF IInv
<1>2. /\ gateway[t].state = "created"
      /\ gateway' = [gateway EXCEPT ![t].state = "approved"]
      /\ UNCHANGED <<ledgerVars, overdue, tx, refund, handler, refunding, charging,
                     gatewayRefunds>>
  BY DEF CustomerApproves
<1>3. /\ gateway' \in [Attempts -> GatewayRecord]
      /\ \A q \in Attempts : gateway[q].state = "completed" => gateway'[q] = gateway[q]
  BY <1>1, <1>2 DEF TypeOK, GatewayRecord
<1> USE DEF ledgerVars
<1>4. TypeOK'
  BY <1>1, <1>2, <1>3 DEF TypeOK
<1>5. HandlersSound'
  BY <1>2, <1>3, HandlersStay DEF Exists
<1>6. RefundsSound' /\ UnsettledIsEmpty' /\ SettledWasCaptured' /\ PaidIsAllocated'
  BY <1>1, <1>2, <1>3, StatusMoves DEF TypeOK, Done
<1> QED BY <1>4, <1>5, <1>6 DEF IInv
\* A step that leaves payments, refunds, handlers and the paid amounts alone
\* keeps every part of the invariant but the types.
LEMMA LedgerOnly ==
  ASSUME IInv, UNCHANGED <<tx, refund, refunding, handler, gateway>>,
         \A i \in Numbers : schedule'[i].paid = schedule[i].paid
  PROVE  /\ HandlersSound' /\ RefundsSound' /\ UnsettledIsEmpty'
         /\ SettledWasCaptured' /\ PaidIsAllocated'
<1>1. HandlersSound'
  BY HandlersStay DEF Exists
<1>2. RefundsSound' /\ UnsettledIsEmpty' /\ SettledWasCaptured'
  BY DEF IInv, RefundsSound, RefundSound, UnsettledIsEmpty, SettledWasCaptured, Done
<1>3. PaidIsAllocated'
  BY DEF IInv, PaidIsAllocated
<1> QED BY <1>1, <1>2, <1>3

\* addAdjustment (invoice.service.ts:571) keeps the invariant.
LEMMA AddAdjustmentKeeps ==
  ASSUME IInv, NEW delta \in Deltas, AddAdjustment(delta)
  PROVE  IInv'
<1> DEFINE new == applyDelta(schedule, delta)
<1>1. TypeOK /\ delta \in Int /\ schedule \in Schedules
  BY LedgerAssumption DEF IInv, TypeOK
<1>2. /\ CanApplyDelta(schedule, delta) /\ schedule' = new
      /\ adjustment' = adjustment + delta
      /\ invoice' = Recomputed(new, adjustment + delta, invoice)
      /\ UNCHANGED <<lateFees, confirmed, overdue, tx, refund, handler, refunding,
                     charging, gatewayVars>>
  BY DEF AddAdjustment
<1>3. new \in Schedules /\ \A i \in Numbers : new[i].paid = schedule[i].paid
  BY <1>1, <1>2, DeltaExact
<1> HIDE DEF new
<1>4. invoice' \in FeeInvoice /\ adjustment' \in Int
  <2>1. adjustment + delta \in Int /\ invoice \in FeeInvoice
    BY <1>1 DEF TypeOK
  <2> QED BY <1>2, <1>3, <2>1, RecomputedTypes
<1> USE DEF gatewayVars
<1>5. TypeOK'
  BY <1>1, <1>2, <1>3, <1>4 DEF TypeOK
<1> QED BY <1>2, <1>3, <1>5, LedgerOnly DEF IInv

\* A late fee is an amount of money.
LEMMA LateFeeIsMoney ==
  ASSUME NEW remaining \in Int
  PROVE  computeLateFee(remaining, LateFeeType, LateFeeValue) \in Nat
<1>1. CASE remaining > 0
  <2>1. remaining * LateFeeValue \in Nat
    BY <1>1, LedgerAssumption
  <2>2. \A n \in Nat : n \div 100 \in Nat
    OBVIOUS
  <2>3. (remaining * LateFeeValue) \div 100 \in Nat
    BY <2>1, <2>2
  <2> QED BY <2>3, LedgerAssumption DEF computeLateFee
<1>2. CASE remaining <= 0
  BY <1>2 DEF computeLateFee
<1> QED BY <1>1, <1>2

\* What one charge of a late fee writes (invoice.service.ts:822).
LEMMA LateFeeChargeWrites ==
  ASSUME TypeOK, NEW i \in Numbers, NEW fee \in Nat, WriteLateFee(i, fee)
  PROVE  /\ schedule' \in Schedules
         /\ \A j \in Numbers : /\ schedule'[j].paid = schedule[j].paid
                               /\ j # i => schedule'[j] = schedule[j]
         /\ schedule'[i].amount = schedule[i].amount + fee
         /\ adjustment' = adjustment + fee /\ adjustment' \in Int
         /\ lateFees' \subseteq Numbers
         /\ invoice' = Recomputed(schedule', adjustment', invoice)
         /\ invoice' \in FeeInvoice
<1>1. schedule \in Schedules /\ adjustment \in Int /\ lateFees \subseteq Numbers
      /\ invoice \in FeeInvoice
  BY DEF TypeOK
<1>2. /\ schedule' = [schedule EXCEPT ![i].amount = @ + fee]
      /\ adjustment' = adjustment + fee
      /\ lateFees' = lateFees \cup {i}
      /\ invoice' = Recomputed(schedule', adjustment', invoice)
  BY DEF WriteLateFee
<1>3. /\ schedule' \in Schedules
      /\ \A j \in Numbers : /\ schedule'[j].paid = schedule[j].paid
                            /\ j # i => schedule'[j] = schedule[j]
      /\ schedule'[i].amount = schedule[i].amount + fee
  BY <1>1, <1>2 DEF Schedules
<1>4. adjustment' \in Int /\ lateFees' \subseteq Numbers
  BY <1>1, <1>2
<1>5. invoice' \in FeeInvoice
  BY <1>1, <1>2, <1>3, <1>4, RecomputedTypes
<1> QED BY <1>2, <1>3, <1>4, <1>5

\* The late-fee runs, and the dates they wait for, keep the invariant.
LEMMA LateFeeStepsKeep ==
  ASSUME IInv, NEW i \in Numbers,
         DueDatePasses(i) \/ LateFeeStep
  PROVE  IInv'
<1> USE DEF ledgerVars, gatewayVars
<1>1. TypeOK /\ schedule \in Schedules
  BY DEF IInv, TypeOK
<1>2. CASE DueDatePasses(i)
  <2>1. TypeOK'
    BY <1>1, <1>2 DEF DueDatePasses, TypeOK
  <2> QED BY <2>1, <1>2, LedgerOnly DEF DueDatePasses, IInv
<1>3. ASSUME NEW l \in LateRuns, LateFeesScan(l) PROVE IInv'
  <2> DEFINE fees == [j \in Numbers |->
                IF LateFeeCandidate(j)
                  THEN computeLateFee(Balances(schedule)[j], LateFeeType, LateFeeValue)
                  ELSE 0]
  <2>1. /\ charging' = [charging EXCEPT ![l] = fees]
        /\ UNCHANGED <<ledgerVars, overdue, tx, refund, handler, refunding, gatewayVars>>
    BY <1>3 DEF LateFeesScan
  <2>2. fees \in [Numbers -> Nat]
    <3>1. \A j \in Numbers : Balances(schedule)[j] \in Int
      BY <1>1, ScheduleTypes
    <3>2. \A j \in Numbers :
            computeLateFee(Balances(schedule)[j], LateFeeType, LateFeeValue) \in Nat
      BY <3>1, LateFeeIsMoney
    <3> QED BY <3>2
  <2> HIDE DEF fees
  <2>3. TypeOK'
    BY <1>1, <2>1, <2>2 DEF TypeOK
  <2> QED BY <2>1, <2>3, LedgerOnly DEF IInv
<1>4. ASSUME NEW l \in LateRuns, NEW j \in Numbers, LateFeesCharge(l, j) PROVE IInv'
  <2>1. /\ charging' = [charging EXCEPT ![l][j] = 0]
        /\ WriteLateFee(j, charging[l][j])
        /\ UNCHANGED <<confirmed, overdue, tx, refund, handler, refunding, gatewayVars>>
    BY <1>4 DEF LateFeesCharge
  <2>2. charging[l][j] \in Nat /\ charging' \in [LateRuns -> [Numbers -> Nat]]
    BY <1>1, <2>1 DEF TypeOK
  <2>3. /\ schedule' \in Schedules /\ adjustment' \in Int
        /\ \A k \in Numbers : schedule'[k].paid = schedule[k].paid
        /\ lateFees' \subseteq Numbers /\ invoice' \in FeeInvoice
    BY <1>1, <2>1, <2>2, LateFeeChargeWrites
  <2>4. TypeOK'
    BY <1>1, <2>1, <2>2, <2>3 DEF TypeOK
  <2> QED BY <2>1, <2>3, <2>4, LedgerOnly DEF IInv
<1>5. ASSUME NEW l \in LateRuns, NEW j \in Numbers, LateFeesSkip(l, j) PROVE IInv'
  <2>1. /\ charging' = [charging EXCEPT ![l][j] = 0]
        /\ UNCHANGED <<ledgerVars, overdue, tx, refund, handler, refunding, gatewayVars>>
    BY <1>5 DEF LateFeesSkip
  <2>2. TypeOK'
    BY <1>1, <2>1 DEF TypeOK
  <2> QED BY <2>1, <2>2, LedgerOnly DEF IInv
<1>6. ASSUME NEW l \in LateRuns, LateRunDies(l) PROVE IInv'
  <2>1. /\ charging' = [charging EXCEPT ![l] = Nobody]
        /\ UNCHANGED <<ledgerVars, overdue, tx, refund, handler, refunding, gatewayVars>>
    BY <1>6 DEF LateRunDies
  <2>2. TypeOK'
    BY <1>1, <2>1 DEF TypeOK, Nobody
  <2> QED BY <2>1, <2>2, LedgerOnly DEF IInv
<1> QED BY <1>2, <1>3, <1>4, <1>5, <1>6 DEF LateFeeStep
-----------------------------------------------------------------------------
(***************************************************************************)
(* Refunds.                                                                *)
(***************************************************************************)

\* A step of one refund keeps the invariant of all refunds.
LEMMA RefundMoves ==
  ASSUME IInv, NEW r \in Refunds, NEW to \in RefundStep,
         refunding' = [refunding EXCEPT ![r] = to],
         \A q \in Refunds \ {r} : refund'[q] = refund[q],
         \A q \in Attempts : Done(q) => Done(q)',
         RefundSound(r)'
  PROVE  RefundsSound' /\ refunding' \in [Refunds -> RefundStep]
<1>1. refunding \in [Refunds -> RefundStep]
  BY DEF IInv, TypeOK
<1>2. ASSUME NEW q \in Refunds \ {r} PROVE RefundSound(q)'
  <2>1. refunding'[q] = refunding[q] /\ refund'[q] = refund[q] /\ RefundSound(q)
    BY <1>1 DEF IInv, RefundsSound
  <2> QED BY <2>1 DEF RefundSound
<1>3. RefundSound(r)'
  OBVIOUS
<1> QED BY <1>1, <1>2, <1>3 DEF RefundsSound

\* A step that changes only refunds keeps the rest of the invariant.
LEMMA RefundOnly ==
  ASSUME IInv, UNCHANGED <<ledgerVars, overdue, tx, handler, charging, gateway>>,
         gatewayRefunds' \subseteq Refunds, refund' \in [Refunds -> RefundRow],
         RefundsSound', refunding' \in [Refunds -> RefundStep]
  PROVE  IInv'
<1> USE DEF ledgerVars
<1>1. TypeOK'
  BY DEF IInv, TypeOK
<1>2. HandlersSound'
  BY HandlersStay DEF Exists
<1>3. UnsettledIsEmpty' /\ SettledWasCaptured' /\ PaidIsAllocated'
  BY DEF IInv, UnsettledIsEmpty, SettledWasCaptured, PaidIsAllocated, Done
<1>4. RefundsSound'
  OBVIOUS
<1> QED BY <1>1, <1>2, <1>3, <1>4 DEF IInv

\* Reserving a refund, the answers of the gateway and a failure
\* (payment.service.ts:403, 455) keep the invariant.
LEMMA RefundStepsKeep ==
  ASSUME IInv, NEW r \in Refunds,
         \/ \E t \in Attempts, reverseCharge \in BOOLEAN : ReserveRefund(r, t, reverseCharge)
         \/ RefundConfirmed(r) \/ RefundAnswerLost(r) \/ RefundRefused(r) \/ RefundFails(r)
         \/ BookRefundAborts(r) \/ RefundDies(r)
  PROVE  IInv'
<1> USE DEF ledgerVars, gatewayVars
<1>1. /\ TypeOK /\ RefundSound(r) /\ refund \in [Refunds -> RefundRow]
      /\ refunding \in [Refunds -> RefundStep] /\ gatewayRefunds \subseteq Refunds
      /\ \A t \in Attempts : tx[t] \in PaymentTransaction
  BY DEF IInv, RefundsSound, TypeOK
<1>2. ASSUME NEW t \in Attempts, NEW reverseCharge \in BOOLEAN,
             ReserveRefund(r, t, reverseCharge)
      PROVE  IInv'
  <2>1. PICK amount \in 1..tx[t].amount :
          refund' = [refund EXCEPT ![r] = [status |-> "PENDING", tx |-> t, amount |-> amount,
                                           reverseCharge |-> reverseCharge]]
    BY <1>2 DEF ReserveRefund
  <2>2. /\ refunding' = [refunding EXCEPT ![r] = "calling"] /\ tx[t].status = "SUCCESS"
        /\ UNCHANGED <<ledgerVars, overdue, tx, handler, charging, gatewayVars>>
    BY <1>2 DEF ReserveRefund, RefundMove
  <2>3. amount \in Nat /\ amount > 0
    BY <1>1 DEF PaymentTransaction
  <2>4. [status |-> "PENDING", tx |-> t, amount |-> amount,
         reverseCharge |-> reverseCharge] \in RefundRow
    BY <2>3 DEF RefundRow, RefundStatus
  <2>5. /\ refund' \in [Refunds -> RefundRow] /\ refund'[r].status = "PENDING"
        /\ refund'[r].tx = t /\ refund'[r].amount = amount
        /\ \A q \in Refunds \ {r} : refund'[q] = refund[q]
    BY <1>1, <2>1, <2>4
  <2>6. RefundSound(r)' /\ "calling" \in RefundStep
    BY <1>1, <2>2, <2>3, <2>5 DEF RefundSound, Done, RefundStep
  <2>7. RefundsSound' /\ refunding' \in [Refunds -> RefundStep]
    BY <2>2, <2>5, <2>6, RefundMoves DEF Done
  <2> QED BY <1>1, <2>2, <2>5, <2>7, RefundOnly
<1>3. CASE RefundFails(r)
  <2>1. /\ refunding[r] = "failing" /\ refunding' = [refunding EXCEPT ![r] = "done"]
        /\ refund' = [refund EXCEPT ![r].status = "FAILED"]
        /\ UNCHANGED <<ledgerVars, overdue, tx, handler, charging, gatewayVars>>
    BY <1>3 DEF RefundFails, RefundMove
  <2>2. /\ refund' \in [Refunds -> RefundRow]
        /\ refund'[r].tx = refund[r].tx /\ refund'[r].amount = refund[r].amount
        /\ \A q \in Refunds \ {r} : refund'[q] = refund[q]
    BY <1>1, <2>1 DEF RefundRow, RefundStatus
  <2>3. RefundSound(r)' /\ "done" \in RefundStep
    BY <1>1, <2>1, <2>2 DEF RefundSound, Done, RefundStep
  <2>4. RefundsSound' /\ refunding' \in [Refunds -> RefundStep]
    BY <2>1, <2>2, <2>3, RefundMoves DEF Done
  <2> QED BY <1>1, <2>1, <2>2, <2>4, RefundOnly
<1>4. CASE RefundConfirmed(r) \/ RefundAnswerLost(r) \/ RefundRefused(r)
             \/ BookRefundAborts(r) \/ RefundDies(r)
  <2>1. PICK to \in {"booking", "failing", "done"} :
          refunding' = [refunding EXCEPT ![r] = to]
    BY <1>4 DEF RefundConfirmed, RefundAnswerLost, RefundRefused, BookRefundAborts,
                RefundDies, RefundMove
  <2>2. /\ refunding[r] \in {"calling", "failing", "booking"}
        /\ UNCHANGED <<ledgerVars, overdue, tx, refund, handler, charging, gateway>>
    BY <1>4 DEF RefundConfirmed, RefundAnswerLost, RefundRefused, BookRefundAborts,
                RefundDies, RefundMove, GatewayRefunds
  <2>3. gatewayRefunds' \subseteq Refunds
    BY <1>1, <1>4 DEF RefundConfirmed, RefundAnswerLost, RefundRefused, BookRefundAborts,
                      RefundDies, GatewayRefunds
  <2>4. RefundSound(r)' /\ to \in RefundStep
    BY <1>1, <2>1, <2>2 DEF RefundSound, Done, RefundStep
  <2>5. RefundsSound' /\ refunding' \in [Refunds -> RefundStep]
    BY <2>1, <2>2, <2>4, RefundMoves DEF Done
  <2> QED BY <1>1, <2>2, <2>3, <2>5, RefundOnly
<1> QED BY <1>2, <1>3, <1>4

-----------------------------------------------------------------------------
(***************************************************************************)
(* Settling.                                                               *)
(***************************************************************************)

\* If the paid amounts change by what the allocation rows of one payment change,
\* they still are what was allocated.
LEMMA AllocationsChange ==
  ASSUME TypeOK, PaidIsAllocated, NEW t \in Attempts,
         tx' \in [Attempts -> PaymentTransaction],
         \A q \in Attempts \ {t} : tx'[q] = tx[q],
         \A i \in Numbers :
           schedule'[i].paid = schedule[i].paid - tx[t].alloc[i] + tx'[t].alloc[i]
  PROVE  PaidIsAllocated'
<1>1. ASSUME NEW i \in Numbers
      PROVE  schedule'[i].paid = SumFunction([q \in Attempts |-> tx'[q].alloc[i]])
  <2> DEFINE f == [q \in Attempts |-> tx[q].alloc[i]]
             g == [q \in Attempts |-> tx'[q].alloc[i]]
  <2>1. \A q \in Attempts : f[q] \in Int /\ g[q] \in Int
    BY DEF TypeOK, PaymentTransaction
  <2>2. \A q \in Attempts \ {t} : f[q] = g[q]
    OBVIOUS
  <2>3. f[t] = tx[t].alloc[i] /\ g[t] = tx'[t].alloc[i]
    OBVIOUS
  <2>4. DOMAIN f = Attempts /\ DOMAIN g = Attempts
    OBVIOUS
  <2>5. schedule[i].paid = SumFunction(f)
    BY DEF PaidIsAllocated
  <2> HIDE DEF f, g
  <2>6. SumFunctionOnSet(g, Attempts) = SumFunctionOnSet(f, Attempts) - f[t] + g[t]
    BY <2>1, <2>2, LedgerAssumption, SumChange
  <2>7. SumFunction(g) = SumFunction(f) - f[t] + g[t]
    BY <2>4, <2>6 DEF SumFunction
  <2>8. schedule'[i].paid = SumFunction(g)
    BY <2>3, <2>5, <2>7
  <2> QED BY <2>8 DEF g
<1> QED BY <1>1 DEF PaidIsAllocated

\* No allocation exceeds what is paid on its installment.
LEMMA AllocatedIsPaid ==
  ASSUME TypeOK, PaidIsAllocated, NEW t \in Attempts, NEW i \in Numbers
  PROVE  tx[t].alloc[i] \in Nat /\ tx[t].alloc[i] <= schedule[i].paid
<1> DEFINE f == [q \in Attempts |-> tx[q].alloc[i]]
<1>1. \A q \in Attempts : f[q] \in Nat
  BY DEF TypeOK, PaymentTransaction
<1>2. f[t] = tx[t].alloc[i] /\ DOMAIN f = Attempts
  OBVIOUS
<1>3. schedule[i].paid = SumFunction(f)
  BY DEF PaidIsAllocated
<1> HIDE DEF f
<1>4. f[t] <= SumFunctionOnSet(f, Attempts)
  BY <1>1, LedgerAssumption, SumNat
<1> QED BY <1>1, <1>2, <1>3, <1>4 DEF SumFunction

\* Nothing allocated is a total of zero.
LEMMA NobodyTotal ==
  Nobody \in [Numbers -> Nat] /\ Total(Nobody) = 0
<1>1. \A i \in Numbers : Nobody[i] \in Int /\ Nobody[i] = 0
  BY DEF Nobody
<1>2. Total(Nobody) = 0
  BY <1>1, NumbersFinite, SumZero DEF Total
<1> QED BY <1>2 DEF Nobody

\* What settleTransaction allocates of a capture (payment.service.ts:199): no
\* installment beyond its balance, nothing on a cancelled invoice, and the rest
\* is kept as the excess.
LEMMA SettlementBounds ==
  ASSUME schedule \in Schedules, NEW t \in Attempts, NEW captured \in Nat
  PROVE  LET booked == Settlement(t, captured)
         IN  /\ booked.allocations \in [Numbers -> Nat]
             /\ booked.excess \in Nat
             /\ \A i \in Numbers :
                  booked.allocations[i] <= Positive(schedule[i].amount - schedule[i].paid)
             /\ Total(booked.allocations) + booked.excess = captured
             /\ invoice.status = "CANCELLED" => booked.allocations = Nobody
<1>1. CASE captured = tx[t].amount /\ invoice.status # "CANCELLED"
  <2>1. Settlement(t, captured) = allocatePayment(schedule, captured)
    BY <1>1 DEF Settlement
  <2> QED BY <1>1, <2>1, AllocationComplete
<1>2. CASE ~(captured = tx[t].amount /\ invoice.status # "CANCELLED")
  <2>1. Settlement(t, captured) = [allocations |-> Nobody, excess |-> captured]
    BY <1>2 DEF Settlement
  <2>2. \A i \in Numbers : Nobody[i] = 0 /\ Positive(schedule[i].amount - schedule[i].paid) >= 0
    BY DEF Nobody, Positive, Schedules
  <2> QED BY <2>1, <2>2, NobodyTotal
<1> QED BY <1>1, <1>2

\* What a first settlement writes (payment.service.ts:217).
LEMMA SettleWrites ==
  ASSUME TypeOK, NEW t \in Attempts, NEW captured \in Nat, BookPayment(t, captured)
  PROVE  /\ schedule' \in Schedules
         /\ tx' \in [Attempts -> PaymentTransaction]
         /\ invoice' = Recomputed(schedule', adjustment, invoice)
         /\ invoice' \in FeeInvoice /\ confirmed' \in BOOLEAN
         /\ tx'[t] = [status |-> "SUCCESS", amount |-> captured,
                      excess |-> Settlement(t, captured).excess,
                      refunded |-> tx[t].refunded,
                      alloc |-> Settlement(t, captured).allocations]
         /\ \A q \in Attempts \ {t} : tx'[q] = tx[q]
         /\ \A i \in Numbers :
              /\ schedule'[i].amount = schedule[i].amount
              /\ schedule'[i].paid = schedule[i].paid + Settlement(t, captured).allocations[i]
<1> DEFINE booked == Settlement(t, captured)
           row == [status |-> "SUCCESS", amount |-> captured, excess |-> booked.excess,
                   refunded |-> tx[t].refunded, alloc |-> booked.allocations]
<1>1. /\ schedule \in Schedules /\ tx \in [Attempts -> PaymentTransaction]
      /\ adjustment \in Int /\ invoice \in FeeInvoice
  BY DEF TypeOK
<1>2. booked.allocations \in [Numbers -> Nat] /\ booked.excess \in Nat
  BY <1>1, SettlementBounds
<1>3. /\ schedule' = [i \in Numbers |-> [schedule[i] EXCEPT !.paid = @ + booked.allocations[i]]]
      /\ tx' = [tx EXCEPT ![t] = row]
      /\ invoice' = Recomputed(schedule', adjustment, invoice)
  BY DEF BookPayment
<1>4. confirmed' \in BOOLEAN
  <2>1. confirmed' = (\/ confirmed
                      \/ InvoiceType = "ADMISSION" /\ invoice'.status = "PAID")
    BY DEF BookPayment
  <2> QED BY <2>1, Zenon
<1> HIDE DEF booked
<1>5. ASSUME NEW i \in Numbers
      PROVE  /\ schedule'[i] \in [amount : Nat, paid : Nat]
             /\ schedule'[i].amount = schedule[i].amount
             /\ schedule'[i].paid = schedule[i].paid + booked.allocations[i]
  BY <1>1, <1>2, <1>3 DEF Schedules
<1>6. schedule' \in Schedules
  BY <1>3, <1>5 DEF Schedules
<1>7. invoice' \in FeeInvoice
  BY <1>1, <1>3, <1>6, RecomputedTypes
<1>8. row \in PaymentTransaction
  BY <1>1, <1>2 DEF PaymentTransaction, TransactionStatus
<1> HIDE DEF row
<1>9. /\ tx' \in [Attempts -> PaymentTransaction] /\ tx'[t] = row
      /\ \A q \in Attempts \ {t} : tx'[q] = tx[q]
  BY <1>1, <1>3, <1>8
<1> QED BY <1>3, <1>4, <1>5, <1>6, <1>7, <1>9 DEF booked, row

\* settleTransaction (payment.service.ts:174) keeps the invariant.
LEMMA SettleKeeps ==
  ASSUME IInv, NEW h \in Handlers, Settle(h)
  PROVE  IInv'
<1> DEFINE p == handler[h].tx
           captured == handler[h].amount
           row == [status |-> "SUCCESS", amount |-> captured,
                   excess |-> Settlement(p, captured).excess,
                   refunded |-> tx[p].refunded,
                   alloc |-> Settlement(p, captured).allocations]
<1>1. /\ TypeOK /\ HandlersSound /\ HandlerSound(h) /\ handler[h] \in HandlerRecord
      /\ schedule \in Schedules
  BY DEF IInv, HandlersSound, TypeOK
<1>2. /\ handler[h].step = "settling" /\ ~Done(p) /\ BookPayment(p, captured)
      /\ handler' = [handler EXCEPT ![h] = Idle]
      /\ UNCHANGED <<adjustment, lateFees, overdue, refund, refunding, charging,
                     gatewayVars>>
  BY DEF Settle, Finish
<1>3. /\ p \in Attempts /\ Exists(p) /\ captured \in Nat
      /\ gateway[p].state = "completed" /\ captured = gateway[p].captured
  BY <1>1, <1>2 DEF HandlerSound, HandlerRecord
<1>4. /\ schedule' \in Schedules /\ tx' \in [Attempts -> PaymentTransaction]
      /\ invoice' \in FeeInvoice /\ confirmed' \in BOOLEAN
      /\ tx'[p] = row /\ \A q \in Attempts \ {p} : tx'[q] = tx[q]
      /\ \A i \in Numbers :
           /\ schedule'[i].amount = schedule[i].amount
           /\ schedule'[i].paid = schedule[i].paid + Settlement(p, captured).allocations[i]
  BY <1>1, <1>2, <1>3, SettleWrites
<1>5. row.status = "SUCCESS" /\ row.amount = captured /\ row.refunded = tx[p].refunded
      /\ row.alloc = Settlement(p, captured).allocations
  OBVIOUS
<1> HIDE DEF row
<1> USE DEF gatewayVars
<1>6. PaidIsAllocated'
  <2>1. ASSUME NEW i \in Numbers
        PROVE  schedule'[i].paid = schedule[i].paid - tx[p].alloc[i] + tx'[p].alloc[i]
    <3>1. tx[p].alloc[i] = 0
      BY <1>2, <1>3 DEF IInv, UnsettledIsEmpty, Nobody
    <3>2. tx'[p].alloc[i] = Settlement(p, captured).allocations[i]
      BY <1>4, <1>5
    <3>3. schedule[i].paid \in Nat
      BY <1>1 DEF Schedules
    <3>4. tx'[p].alloc[i] \in Nat
      BY <1>3, <1>4 DEF PaymentTransaction
    <3> QED BY <1>4, <3>1, <3>2, <3>3, <3>4
  <2> QED BY <1>1, <1>3, <1>4, <2>1, AllocationsChange DEF IInv
<1>7. /\ \A q \in Attempts : tx[q].status # "NONE" => tx'[q].status # "NONE"
      /\ \A q \in Attempts :
           tx[q].status \in {"SUCCESS", "REFUNDED"} => tx'[q].status \in {"SUCCESS", "REFUNDED"}
  BY <1>3, <1>4, <1>5
<1>8. HandlersSound' /\ handler' \in [Handlers -> HandlerRecord]
  <2>1. Idle \in HandlerRecord /\ Idle.step = "idle"
    BY DEF Idle, HandlerRecord, HandlerStep
  <2>2. handler'[h] = Idle
    BY <1>1, <1>2 DEF TypeOK
  <2>3. HandlerSound(h)'
    BY <2>1, <2>2 DEF HandlerSound, Exists
  <2>4. ASSUME NEW g \in Handlers \ {h}, handler[g].step = "creating"
        PROVE  tx'[handler[g].tx].status = "NONE"
    <3>1. handler[g].tx \in Attempts /\ tx[handler[g].tx].status = "NONE"
      BY <1>1, <2>4 DEF HandlersSound, HandlerSound
    <3> QED BY <1>3, <1>4, <3>1 DEF Exists
  <2>5. handler' = [handler EXCEPT ![h] = Idle] /\ gateway' = gateway
    BY <1>2
  <2>6. \A q \in Attempts : Exists(q) => Exists(q)'
    BY <1>7 DEF Exists
  <2> QED BY <2>1, <2>3, <2>4, <2>5, <2>6, HandlerMoves
<1>9. RefundsSound'
  <2>1. refund' = refund /\ refunding' = refunding
    BY <1>2
  <2>2. ASSUME NEW r \in Refunds PROVE RefundSound(r)'
    <3>1. RefundSound(r)
      BY DEF IInv, RefundsSound
    <3>2. refund[r].tx \in Attempts /\ Done(refund[r].tx) => Done(refund[r].tx)'
      BY <1>7, <2>1 DEF Done
    <3> QED BY <2>1, <3>1, <3>2 DEF RefundSound, Done
  <2> QED BY <2>2 DEF RefundsSound
<1>10. UnsettledIsEmpty'
  BY <1>4, <1>5 DEF IInv, UnsettledIsEmpty, Done
<1>11. SettledWasCaptured'
  <2>1. gateway' = gateway
    BY <1>2
  <2>2. ASSUME NEW q \in Attempts, Done(q)'
        PROVE  gateway'[q].state = "completed" /\ tx'[q].amount = gateway'[q].captured
    <3>1. CASE q = p
      BY <1>3, <1>4, <1>5, <2>1, <3>1
    <3>2. CASE q # p
      BY <1>4, <2>1, <2>2, <3>2 DEF IInv, SettledWasCaptured, Done
    <3> QED BY <3>1, <3>2
  <2> QED BY <2>2 DEF SettledWasCaptured
<1>12. TypeOK'
  BY <1>1, <1>2, <1>4, <1>8 DEF TypeOK
<1> QED BY <1>6, <1>8, <1>9, <1>10, <1>11, <1>12 DEF IInv

-----------------------------------------------------------------------------
(***************************************************************************)
(* Booking a refund.                                                       *)
(***************************************************************************)

\* What a refund takes back of each allocation (payment.service.ts:493).
LEMMA ReversalBounds ==
  ASSUME IInv, NEW r \in Refunds, refund[r].tx \in Attempts
  PROVE  LET reversal == Reversal(r)
         IN  /\ reversal \in [Numbers -> Nat]
             /\ \A i \in Numbers : reversal[i] <= tx[refund[r].tx].alloc[i]
             /\ CanBook(r) =>
                  Total(reversal) = IF refund[r].reverseCharge THEN refund[r].amount ELSE 0
<1> DEFINE alloc == tx[refund[r].tx].alloc
<1>1. alloc \in [Numbers -> Nat] /\ refund[r].amount \in Nat
  BY DEF IInv, TypeOK, PaymentTransaction, RefundRow
<1>2. CASE refund[r].reverseCharge
  <2>1. Reversal(r) = reverseAllocations(alloc, refund[r].amount)
    BY <1>2 DEF Reversal
  <2>2. CanBook(r) => CanReverse(alloc, refund[r].amount)
    BY <1>2 DEF CanBook
  <2> HIDE DEF alloc
  <2>3. /\ Reversal(r) \in [Numbers -> Nat]
        /\ \A i \in Numbers : Reversal(r)[i] <= alloc[i]
        /\ CanBook(r) => Total(Reversal(r)) = refund[r].amount
    BY <1>1, <2>1, <2>2, ReversalExact
  <2> QED BY <1>2, <2>3 DEF alloc
<1>3. CASE ~refund[r].reverseCharge
  <2>1. Reversal(r) = Nobody
    BY <1>3 DEF Reversal
  <2>2. \A i \in Numbers : Nobody[i] <= alloc[i]
    BY <1>1 DEF Nobody
  <2> QED BY <1>3, <2>1, <2>2, NobodyTotal
<1> QED BY <1>2, <1>3

\* What the booking of a refund writes (payment.service.ts:503): every amount
\* stays a natural number, because what is taken back was allocated and paid.
LEMMA RefundWrites ==
  ASSUME IInv, NEW r \in Refunds, refund[r].tx \in Attempts, Done(refund[r].tx),
         WriteRefund(r, Reversal(r))
  PROVE  LET t == refund[r].tx
         IN  /\ schedule' \in Schedules
             /\ tx' \in [Attempts -> PaymentTransaction]
             /\ refund' \in [Refunds -> RefundRow]
             /\ invoice' \in FeeInvoice
             /\ invoice' = [Recomputed(schedule', adjustment, invoice) EXCEPT
                             !.refunded = @ + refund[r].amount]
             /\ refund'[r] = [refund[r] EXCEPT !.status = "SUCCESS"]
             /\ \A q \in Refunds \ {r} : refund'[q] = refund[q]
             /\ \A q \in Attempts \ {t} : tx'[q] = tx[q]
             /\ tx'[t].status = IF tx[t].refunded + refund[r].amount >= tx[t].amount
                                 THEN "REFUNDED" ELSE "SUCCESS"
             /\ tx'[t].amount = tx[t].amount /\ tx'[t].excess = tx[t].excess
             /\ tx'[t].refunded = tx[t].refunded + refund[r].amount
             /\ \A i \in Numbers :
                  /\ tx'[t].alloc[i] = tx[t].alloc[i] - Reversal(r)[i]
                  /\ schedule'[i].amount = schedule[i].amount
                  /\ schedule'[i].paid = schedule[i].paid - Reversal(r)[i]
<1> DEFINE t == refund[r].tx
           reversal == Reversal(r)
           returned == tx[t].refunded + refund[r].amount
           status == IF returned >= tx[t].amount THEN "REFUNDED" ELSE "SUCCESS"
           alloc == [i \in Numbers |-> tx[t].alloc[i] - reversal[i]]
           row == [status |-> status, amount |-> tx[t].amount, excess |-> tx[t].excess,
                   refunded |-> returned, alloc |-> alloc]
<1>1. /\ TypeOK /\ PaidIsAllocated
      /\ schedule \in Schedules /\ tx \in [Attempts -> PaymentTransaction]
      /\ adjustment \in Int /\ invoice \in FeeInvoice /\ refund \in [Refunds -> RefundRow]
  BY DEF IInv, TypeOK
<1>2. /\ reversal \in [Numbers -> Nat]
      /\ \A i \in Numbers : reversal[i] <= tx[t].alloc[i]
  BY ReversalBounds
<1>3. \A i \in Numbers : tx[t].alloc[i] \in Nat /\ tx[t].alloc[i] <= schedule[i].paid
  BY <1>1, AllocatedIsPaid
<1>4. /\ schedule' = [i \in Numbers |-> [schedule[i] EXCEPT !.paid = @ - reversal[i]]]
      /\ refund' = [refund EXCEPT ![r].status = "SUCCESS"]
      /\ tx' = [tx EXCEPT
                  ![t].alloc    = [i \in Numbers |-> @[i] - reversal[i]],
                  ![t].refunded = returned,
                  ![t].status   = status]
      /\ invoice' = [Recomputed(schedule', adjustment, invoice) EXCEPT
                       !.refunded = @ + refund[r].amount]
  BY DEF WriteRefund
<1> HIDE DEF reversal
<1>5. ASSUME NEW i \in Numbers
      PROVE  /\ schedule'[i] \in [amount : Nat, paid : Nat]
             /\ schedule'[i].amount = schedule[i].amount
             /\ schedule'[i].paid = schedule[i].paid - reversal[i]
             /\ alloc[i] \in Nat /\ alloc[i] = tx[t].alloc[i] - reversal[i]
  <2>1. schedule[i] \in [amount : Nat, paid : Nat]
    BY <1>1 DEF Schedules
  <2>2. schedule'[i] = [schedule[i] EXCEPT !.paid = @ - reversal[i]]
    BY <1>4
  <2>3. schedule[i].paid - reversal[i] \in Nat /\ tx[t].alloc[i] - reversal[i] \in Nat
    BY <1>2, <1>3, <2>1
  <2>4. alloc[i] = tx[t].alloc[i] - reversal[i]
    OBVIOUS
  <2> QED BY <2>1, <2>2, <2>3, <2>4
<1>6. schedule' \in Schedules /\ alloc \in [Numbers -> Nat]
  BY <1>4, <1>5 DEF Schedules
<1>7. tx[t] \in PaymentTransaction /\ refund[r] \in RefundRow
  BY <1>1
<1>8. tx' = [tx EXCEPT ![t] = [tx[t] EXCEPT !.alloc = alloc, !.refunded = returned,
                                            !.status = status]]
  BY <1>1, <1>4
<1>9. returned \in Nat /\ status \in TransactionStatus
  BY <1>7 DEF PaymentTransaction, RefundRow, TransactionStatus
<1> HIDE DEF alloc, returned, status
<1>10. [tx[t] EXCEPT !.alloc = alloc, !.refunded = returned, !.status = status] = row
  <2> DEFINE x == tx[t]
             y == [x EXCEPT !.alloc = alloc]
             z == [y EXCEPT !.refunded = returned]
  <2>1. y = [status |-> x.status, amount |-> x.amount, excess |-> x.excess,
             refunded |-> x.refunded, alloc |-> alloc]
    BY <1>7 DEF PaymentTransaction
  <2>2. [tx[t] EXCEPT !.alloc = alloc, !.refunded = returned, !.status = status]
          = [z EXCEPT !.status = status]
    OBVIOUS
  <2> HIDE DEF y
  <2>3. z = [status |-> x.status, amount |-> x.amount, excess |-> x.excess,
             refunded |-> returned, alloc |-> alloc]
    BY <2>1
  <2> HIDE DEF z
  <2> QED BY <2>2, <2>3
<1>11. row \in PaymentTransaction
  BY <1>6, <1>7, <1>9 DEF PaymentTransaction
<1>12. /\ row.status = status /\ row.amount = tx[t].amount /\ row.excess = tx[t].excess
       /\ row.refunded = returned /\ row.alloc = alloc
  OBVIOUS
<1> HIDE DEF row
<1>13. /\ tx' \in [Attempts -> PaymentTransaction] /\ tx'[t] = row
       /\ \A q \in Attempts \ {t} : tx'[q] = tx[q]
  BY <1>1, <1>8, <1>10, <1>11
<1>14. /\ refund' \in [Refunds -> RefundRow]
       /\ refund'[r] = [refund[r] EXCEPT !.status = "SUCCESS"]
       /\ \A q \in Refunds \ {r} : refund'[q] = refund[q]
  BY <1>1, <1>4 DEF RefundRow, RefundStatus
<1>15. invoice' \in FeeInvoice
  <2> DEFINE again == Recomputed(schedule', adjustment, invoice)
  <2>1. again \in FeeInvoice /\ refund[r].amount \in Nat
    BY <1>1, <1>6, <1>7, RecomputedTypes DEF RefundRow
  <2>2. invoice' = [again EXCEPT !.refunded = @ + refund[r].amount]
    BY <1>4
  <2> HIDE DEF again
  <2> QED BY <2>1, <2>2 DEF FeeInvoice
<1> QED BY <1>4, <1>5, <1>6, <1>12, <1>13, <1>14, <1>15 DEF reversal, returned, status

\* Booking a refund keeps the invariant.
LEMMA BookRefundKeeps ==
  ASSUME IInv, NEW r \in Refunds, BookRefund(r)
  PROVE  IInv'
<1> DEFINE t == refund[r].tx
<1>1. /\ TypeOK /\ RefundSound(r) /\ PaidIsAllocated /\ schedule \in Schedules
      /\ tx \in [Attempts -> PaymentTransaction] /\ refund[r] \in RefundRow
  BY DEF IInv, RefundsSound, TypeOK
<1>2. /\ refunding[r] = "booking" /\ refunding' = [refunding EXCEPT ![r] = "done"]
      /\ WriteRefund(r, Reversal(r))
      /\ UNCHANGED <<overdue, handler, charging, gatewayVars>>
  BY DEF BookRefund, RefundMove
<1>3. t \in Attempts /\ Done(t) /\ refund[r].amount > 0
  BY <1>1, <1>2 DEF RefundSound
<1>4. UNCHANGED <<adjustment, lateFees, confirmed>>
  BY <1>2 DEF WriteRefund
<1>5. /\ schedule' \in Schedules /\ tx' \in [Attempts -> PaymentTransaction]
      /\ refund' \in [Refunds -> RefundRow] /\ invoice' \in FeeInvoice
      /\ refund'[r] = [refund[r] EXCEPT !.status = "SUCCESS"]
      /\ \A q \in Refunds \ {r} : refund'[q] = refund[q]
      /\ \A q \in Attempts \ {t} : tx'[q] = tx[q]
      /\ tx'[t].status \in {"SUCCESS", "REFUNDED"} /\ tx'[t].amount = tx[t].amount
      /\ \A i \in Numbers :
           /\ tx'[t].alloc[i] = tx[t].alloc[i] - Reversal(r)[i]
           /\ schedule'[i].paid = schedule[i].paid - Reversal(r)[i]
  BY <1>2, <1>3, RefundWrites
<1>6. /\ \A q \in Attempts : tx[q].status # "NONE" <=> tx'[q].status # "NONE"
      /\ \A q \in Attempts :
           tx[q].status \in {"SUCCESS", "REFUNDED"} <=> tx'[q].status \in {"SUCCESS", "REFUNDED"}
  BY <1>3, <1>5 DEF Done
<1> USE DEF gatewayVars
<1>7. PaidIsAllocated'
  <2>1. ASSUME NEW i \in Numbers
        PROVE  schedule'[i].paid = schedule[i].paid - tx[t].alloc[i] + tx'[t].alloc[i]
    <3>1. /\ tx[t].alloc[i] \in Nat /\ tx'[t].alloc[i] \in Nat
          /\ schedule[i].paid \in Nat /\ schedule'[i].paid \in Nat
      BY <1>1, <1>3, <1>5 DEF PaymentTransaction, Schedules
    <3>2. Reversal(r)[i] \in Nat
      BY <1>3, ReversalBounds
    <3> QED BY <1>5, <3>1, <3>2
  <2> QED BY <1>1, <1>3, <1>5, <2>1, AllocationsChange
<1>8. HandlersSound'
  <2>1. \A q \in Attempts : Exists(q) <=> Exists(q)'
    BY <1>6 DEF Exists
  <2>2. UNCHANGED handler /\ gateway' = gateway
    BY <1>2
  <2> QED BY <2>1, <2>2, HandlersStay
<1>9. RefundsSound' /\ refunding' \in [Refunds -> RefundStep]
  <2>1. \A q \in Attempts : Done(q) => Done(q)'
    BY <1>6 DEF Done
  <2>2. refund'[r].tx = t /\ refund'[r].amount = refund[r].amount /\ refunding'[r] = "done"
    BY <1>1, <1>2, <1>5 DEF RefundRow, TypeOK
  <2>3. RefundSound(r)'
    BY <1>3, <1>6, <2>2 DEF RefundSound, Done
  <2>4. "done" \in RefundStep
    BY DEF RefundStep
  <2> QED BY <1>2, <1>5, <2>1, <2>3, <2>4, RefundMoves
<1>10. UnsettledIsEmpty'
  BY <1>3, <1>5, <1>6 DEF IInv, UnsettledIsEmpty, Done
<1>11. SettledWasCaptured'
  <2>1. gateway' = gateway
    BY <1>2
  <2>2. ASSUME NEW q \in Attempts, Done(q)'
        PROVE  gateway'[q].state = "completed" /\ tx'[q].amount = gateway'[q].captured
    BY <1>3, <1>5, <1>6, <2>1, <2>2 DEF IInv, SettledWasCaptured, Done
  <2> QED BY <2>2 DEF SettledWasCaptured
<1>12. TypeOK'
  BY <1>1, <1>2, <1>4, <1>5, <1>9 DEF TypeOK
<1> QED BY <1>7, <1>8, <1>9, <1>10, <1>11, <1>12 DEF IInv

-----------------------------------------------------------------------------
(***************************************************************************)
(* The theorems.                                                           *)
(***************************************************************************)

\* Every step keeps the invariant.
LEMMA Inductive == IInv /\ [Next]_vars => IInv'
<1> SUFFICES ASSUME IInv, [Next]_vars PROVE IInv'
  OBVIOUS
<1>1. ASSUME NEW h \in Handlers,
             \/ \E t \in Attempts : \/ InitPaymentRead(h, t) \/ CallbackRead(h, t)
                                    \/ CallbackAbandonRead(h, t) \/ VerifyRead(h, t)
             \/ InitPaymentInsert(h) \/ CallbackMarkPending(h) \/ CallbackAbandon(h)
             \/ ExecuteConfirmed(h) \/ ExecuteAnswerLost(h) \/ ExecuteFailed(h)
             \/ QueryCompleted(h) \/ CallbackUnconfirmed(h) \/ VerifyUnanswered(h)
             \/ SettleAlreadyDone(h) \/ Settle(h) \/ HandlerDies(h)
      PROVE  IInv'
  BY <1>1, InitPaymentKeeps, HandlerStepsKeep, StatusStepsKeep, ExecuteKeeps, SettleKeeps
<1>2. CASE PaymentStep
  BY <1>1, <1>2 DEF PaymentStep
<1>3. CASE RefundStepOf
  BY <1>3, RefundStepsKeep, BookRefundKeeps DEF RefundStepOf
<1>4. CASE LateFeeStep \/ \E i \in Numbers : DueDatePasses(i)
  <2>1. 1 \in Numbers
    BY NAssumption DEF Numbers
  <2> QED BY <1>4, <2>1, LateFeeStepsKeep
<1>5. CASE \E delta \in Deltas : AddAdjustment(delta)
  BY <1>5, AddAdjustmentKeeps
<1>6. CASE CancelInvoice
  BY <1>6, CancelInvoiceKeeps
<1>7. CASE \E t \in Attempts : CustomerApproves(t)
  BY <1>7, CustomerApprovesKeeps
<1>8. CASE UNCHANGED vars
  <2> USE <1>8 DEF vars, ledgerVars, gatewayVars
  <2>1. TypeOK'
    BY DEF IInv, TypeOK
  <2>2. UNCHANGED <<tx, refund, refunding, handler, gateway>>
        /\ \A i \in Numbers : schedule'[i].paid = schedule[i].paid
    OBVIOUS
  <2> QED BY <2>1, <2>2, LedgerOnly DEF IInv
<1> QED BY <1>2, <1>3, <1>4, <1>5, <1>6, <1>7, <1>8 DEF Next

\* The invariant holds in every reachable state.
LEMMA Invariant == Spec => []IInv
BY Initially, Inductive, PTL DEF Spec

\* Every amount in the database stays a natural number and every status one of
\* the source's, whatever callbacks, refunds, corrections and late fees interleave.
THEOREM TypeCorrect == Spec => []TypeOK
<1>1. IInv => TypeOK
  BY DEF IInv
<1> QED BY <1>1, Invariant, PTL

\* What is paid on an installment is always what the payments allocated to it
\* (payment.service.ts:217, 504), for any number of payments and handlers.
THEOREM PaidIsWhatWasAllocated == Spec => []PaidIsAllocated
<1>1. IInv => PaidIsAllocated
  BY DEF IInv
<1> QED BY <1>1, Invariant, PTL

\* A payment counts as settled only if bKash captured exactly its amount
\* (payment.service.ts:145, 169), whatever redirects and answers come in any order.
THEOREM OnlyCapturedIsSettled == Spec => []SettledWasCaptured
<1>1. IInv => SettledWasCaptured
  BY DEF IInv
<1> QED BY <1>1, Invariant, PTL
=============================================================================
