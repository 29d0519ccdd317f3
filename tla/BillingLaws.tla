----------------------------- MODULE BillingLaws -----------------------------
(***************************************************************************)
(* The billing arithmetic called on every small input.  A state is one     *)
(* call: the schedule it is made on and its arguments.  The laws compare   *)
(* what Billing computes loop by loop with a definition that has no loop.  *)
(***************************************************************************)
EXTENDS Billing, FeeItems

CONSTANTS
  MaxAmount,    \* bound on the face amount of one installment
  Totals,       \* payable amounts that are split into installments
  Plans,        \* installment plans
  Waivers,      \* waivers a student may hold
  RateCards,    \* sequences of fee policies
  Contexts      \* departments, semesters and times invoices are issued for

\* A row of fee_policies, as the arithmetic sees it; 0 stands for null.
\* updateFeePolicy may take an amount down to 0.
IPolicyLike ==
  [invoiceType : {"APPLICATION", "ADMISSION", "ID_CARD", "SEMESTER"},
   itemType : {"APPLICATION", "ADMISSION", "ID_CARD", "CAUTION_DEPOSIT", "TUITION",
               "REGISTRATION", "LABORATORY", "EXAMINATION", "LIBRARY", "LATE_FEE", "OTHER"},
   calcMethod : {"FLAT", "PER_CREDIT"}, amountMinor : Nat,
   departmentId : Nat, semesterId : Nat,
   effectiveFrom : Int, effectiveTo : Int, isActive : BOOLEAN]

\* What createFeePolicy accepts: only the tuition of a semester is billed per credit.
FeePolicy ==
  {p \in IPolicyLike :
     p.calcMethod = "PER_CREDIT" => p.itemType = "TUITION" /\ p.invoiceType = "SEMESTER"}

\* Money is counted in natural numbers (the schemas of the inputs are money
\* fields); a plan is what the policies hold before validatePlan has seen it.
ASSUME BillingLawsAssumption ==
  /\ RateCards \subseteq Seq(FeePolicy)
  /\ MaxAmount \in Nat /\ Totals \subseteq Nat
  /\ Plans \subseteq [advanceType : {"NONE", "PERCENT", "FIXED"}, advance : Nat,
                     customPercents : Seq(Int)]
  /\ Waivers \subseteq [percent : Nat, fixed : Nat]

VARIABLES
  schedule,     \* the schedule the call is made on
  call          \* the call: operation and arguments

vars == <<schedule, call>>

MaxMoney == N * MaxAmount + 1

ValidSchedules ==
  {s \in [Numbers -> [amount : 0..MaxAmount, paid : 0..MaxAmount]] :
     \A i \in Numbers : s[i].paid <= s[i].amount}

Init ==
  /\ schedule \in ValidSchedules
  /\ call = [op |-> "none"]

\* A payment, of which a part is refunded later.
CallPay ==
  \E money \in 0..MaxMoney : \E refund \in 0..money :
    call' = [op |-> "pay", money |-> money, refund |-> refund]

CallAdjust ==
  \E delta \in (-MaxMoney)..MaxMoney : call' = [op |-> "adjust", delta |-> delta]

CallIssue ==
  \E total \in Totals, plan \in Plans :
    /\ validatePlan(plan)
    /\ call' = [op |-> "issue", total |-> total, plan |-> plan]

CallDueDates ==
  \E firstDue \in 0..12, interval \in 0..4 :
    call' = [op |-> "dates", firstDue |-> firstDue, interval |-> interval]

CallWaive ==
  \E tuition \in Totals, v, w \in Waivers :
    call' = [op |-> "waive", tuition |-> tuition, waivers |-> <<v, w>>]

\* The schedule plays no part: the empty one will do.
CallBill ==
  /\ \A i \in Numbers : schedule[i].amount = 0
  /\ \E policies \in RateCards, c \in Contexts, credits \in 0..2, onlyTuition \in BOOLEAN :
       call' = [op |-> "bill", policies |-> policies, ctx |-> c, credits |-> credits,
                onlyTuition |-> onlyTuition]

Next ==
  /\ call.op = "none"
  /\ CallPay \/ CallAdjust \/ CallIssue \/ CallDueDates \/ CallWaive \/ CallBill
  /\ UNCHANGED schedule

Spec == Init /\ [][Next]_vars

-----------------------------------------------------------------------------
Sum(f) == SumFunction(f)

\* A division of money over slots with the given room: nobody gets more than
\* its room, a slot is only passed over when it is full, all that fits is used.
IsWaterfall(takes, room, money) ==
  /\ \A i \in Numbers : takes[i] \in 0..room[i]
  /\ \A i, j \in Numbers : i < j /\ takes[j] > 0 => takes[i] = room[i]
  /\ Sum(takes) = Least(money, Sum(room))

\* allocatePayment (billing.ts:346) pays the oldest installments in full
\* before a newer one gets anything, never above what is owed, and what is not
\* allocated is the excess to the last unit.  Refunding part of a payment
\* (billing.ts:408) leaves the invoice exactly as if the student had paid that
\* much less in the first place, and the refund is refused exactly when it
\* exceeds what was allocated.
PaymentsAreWaterfalls ==
  call.op = "pay" =>
    LET paid     == allocatePayment(schedule, call.money)
        taken    == paid.allocations
        reversed == reverseAllocations(taken, call.refund)
    IN  /\ IsWaterfall(taken, Balances(schedule), call.money)
        /\ paid.excess = call.money - Sum(taken)
        /\ CanReverse(taken, call.refund) <=> call.refund <= Sum(taken)
        /\ CanReverse(taken, call.refund) =>
             [i \in Numbers |-> taken[i] - reversed[i]]
               = allocatePayment(schedule, Sum(taken) - call.refund).allocations

\* A correction (billing.ts:305) changes what is owed by exactly its amount,
\* never goes below the money already paid, cuts an installment only when all
\* later ones are settled, and is refused exactly when the debt is smaller.
DeltaKeepsPaidMoney ==
  call.op = "adjust" =>
    LET new == applyDelta(schedule, call.delta)
    IN  /\ CanApplyDelta(schedule, call.delta)
             <=> -call.delta <= Sum(Balances(schedule))
        /\ CanApplyDelta(schedule, call.delta) =>
             /\ Sum(Amounts(new)) = Sum(Amounts(schedule)) + call.delta
             /\ Paids(new) = Paids(schedule)
             /\ \A i \in Numbers : new[i].amount >= new[i].paid
             /\ \A i, j \in Numbers :
                  i < j /\ new[i].amount < schedule[i].amount
                    => new[j].amount = new[j].paid

\* Every plan validatePlan accepts splits the payable amount without losing or
\* inventing a unit (billing.ts:252: "sum(amountMinor) === totalMinor, always"),
\* and no installment is negative; none is due in the past, however late the
\* student joins, and due dates never go backwards (billing.ts:253).
InstallmentsAreSound ==
  /\ call.op = "issue" =>
       LET amounts == buildInstallments(call.total, call.plan)
       IN  /\ Sum(amounts) = call.total
           /\ \A i \in Numbers : amounts[i] >= 0
  /\ call.op = "dates" =>
       \A now \in 0..14 :
         LET due == dueDates(call.firstDue, call.interval, now)
         IN  /\ \A i \in Numbers : due[i] >= now
             /\ \A i, j \in Numbers : i <= j => due[i] <= due[j]

\* Waivers together take exactly what they ask for, up to the whole tuition
\* and no further (billing.ts:170).
WaiversCappedAtTuition ==
  call.op = "waive" =>
    LET taken == computeWaiverAdjustments(call.tuition, call.waivers)
        asked == [i \in DOMAIN call.waivers |->
                    WaiverWish(call.tuition, call.waivers[i])]
    IN  Sum(taken) = Least(call.tuition, Sum(asked))

\* What a student is shown is what she is billed later, "resolved exactly like
\* invoice generation does" (invoiceCore.ts:304): every line of the schedule that
\* has an amount, from the same policy, is a line of the invoice of that type and
\* there is no other line - but the ID card is left out of the admission invoice
\* (invoice.service.ts:120), and charged on the ID card invoice instead, unless
\* the card is free; a supplementary semester invoice repeats the tuition only.
\* An ID card on a policy of application or semester is a line of those invoices,
\* as shown: what a student is charged over all of them is IdCardCharges'.
Shown(invoiceType, c) ==
  {<<line.itemType, line.policyId>> :
     line \in {l \in getFeeSchedule(call.policies, invoiceType, c) : l.amountMinor > 0}}
BilledLines(items) == {<<item.itemType, item.policyId>> : item \in items}
FreeCards(policies, c) ==
  {i \in Candidates(policies, DOMAIN policies, "ID_CARD", c) : policies[i].amountMinor = 0}
ShownIsBilled ==
  call.op = "bill" =>
    LET once     == [call.ctx EXCEPT !.semesterId = 0]
        card     == IdCardItems(call.policies, once)
        semester == SemesterItems(call.policies, call.ctx, call.credits, call.onlyTuition)
    IN  /\ BilledLines(ApplicationItems(call.policies, once)) = Shown("APPLICATION", once)
        /\ BilledLines(AdmissionItems(call.policies, once))
             = {x \in Shown("ADMISSION", once) : x[1] # "ID_CARD"}
        /\ FreeCards(call.policies, once) = {} =>
             \A x \in Shown("ADMISSION", once) \cup Shown("ID_CARD", once) :
               x[1] = "ID_CARD" => \E y \in card : card = {y} /\ y.itemType = "ID_CARD"
        /\ call.credits > 0 =>
             BilledLines(semester)
               = {x \in Shown("SEMESTER", call.ctx) : call.onlyTuition => x[1] = "TUITION"}
==============================================================================
