------------------------------- MODULE Billing -------------------------------
(***************************************************************************)
(* The pure billing arithmetic of src/app/lib/billing.ts, in integer minor *)
(* units (paisa).  A payment schedule is a function from the installment   *)
(* numbers 1..N to records [amount, paid]; the source sorts its rows by    *)
(* `number' before each loop, which is the order of the domain here.       *)
(*                                                                         *)
(* Each loop that uses up a sum of money slot after slot is the recursive  *)
(* function Left: no RECURSIVE operator, so the theorems of the ledger may *)
(* rest on this module.                                                    *)
(***************************************************************************)
EXTENDS Integers, Sequences, Functions

CONSTANT N    \* number of installments of the invoice

\* validatePlan accepts 1 to 24 installments; nothing below needs the cap.
ASSUME NAssumption == N \in Nat \ {0}

Numbers == 1..N

Schedules == [Numbers -> [amount : Nat, paid : Nat]]

-----------------------------------------------------------------------------
(***************************************************************************)
(* Using up money slot after slot.                                         *)
(***************************************************************************)

\* What one slot with this much room takes of what is left.
Take(room, left) ==
  IF room <= 0 \/ left <= 0 THEN 0 ELSE IF left < room THEN left ELSE room

\* Left(room, money)[i]: what is left after the slots 1..i took their part.
Left(room, money) ==
  LET left[i \in 0..N] ==
        IF i = 0 THEN money ELSE left[i-1] - Take(room[i], left[i-1])
  IN  left

\* What each slot takes, first slot first.
Takes(room, money) ==
  [i \in Numbers |-> Take(room[i], Left(room, money)[i-1])]

\* The slots in the opposite order, for the loops that start at the last one.
Mirror(f) == [i \in Numbers |-> f[N + 1 - i]]

\* reduce((a, x) => a + x, 0)
Total(f) == SumFunctionOnSet(f, Numbers)

-----------------------------------------------------------------------------
(***************************************************************************)
(* Schedules.                                                              *)
(***************************************************************************)

Amounts(s) == [i \in Numbers |-> s[i].amount]
Paids(s)   == [i \in Numbers |-> s[i].paid]
Balances(s) == [i \in Numbers |-> s[i].amount - s[i].paid]

Positive(n) == IF n > 0 THEN n ELSE 0

Outstanding(s) == Total([i \in Numbers |-> Positive(Balances(s)[i])])

\* allocatePayment: oldest installment first, the rest is the excess.
allocatePayment(s, payment) ==
  [allocations |-> Takes(Balances(s), payment),
   excess      |-> Left(Balances(s), payment)[N]]

\* nextInstallmentRemaining, 0 standing for null.
nextInstallmentRemaining(s) ==
  IF \A i \in Numbers : Balances(s)[i] <= 0
    THEN 0
    ELSE Balances(s)[CHOOSE i \in Numbers :
                       /\ Balances(s)[i] > 0
                       /\ \A j \in 1..(i-1) : Balances(s)[j] <= 0]

\* planPayment does not throw: the amount is positive, within what is owed,
\* and pays whole installments unless the policy allows partial payments.
planPayment(s, payment, allowPartial) ==
  /\ payment > 0
  /\ Outstanding(s) > 0
  /\ payment <= Outstanding(s)
  /\ \/ allowPartial
     \/ \A i \in Numbers :
          allocatePayment(s, payment).allocations[i] \in {0, Balances(s)[i]}

\* Mutant: a refund takes back the oldest allocation first.
reverseAllocations_OldestFirst(allocated, refund) == Takes(allocated, refund)

\* reverseAllocations: newest installment first.  It throws unless the
\* allocations cover the refund.
reverseAllocations(allocated, refund) == Mirror(Takes(Mirror(allocated), refund))
CanReverse(allocated, refund) == Left(Mirror(allocated), refund)[N] <= 0

\* Mutant: a reduction is cut from the face amounts, paid or not.
applyDelta_CutsPaid(s, delta) ==
  LET cut == Mirror(Takes(Mirror(Amounts(s)), -delta))
  IN  IF delta >= 0
        THEN [s EXCEPT ![N].amount = @ + delta]
        ELSE [i \in Numbers |-> [s[i] EXCEPT !.amount = @ - cut[i]]]

\* applyDelta: an increase goes to the last installment, a reduction is cut
\* from the unpaid tail.  It throws if the unpaid balances do not cover it.
applyDelta(s, delta) ==
  LET cut == Mirror(Takes(Mirror(Balances(s)), -delta))
  IN  IF delta >= 0
        THEN [s EXCEPT ![N].amount = @ + delta]
        ELSE [i \in Numbers |-> [s[i] EXCEPT !.amount = @ - cut[i]]]
CanApplyDelta(s, delta) ==
  delta >= 0 \/ Left(Mirror(Balances(s)), -delta)[N] <= 0

-----------------------------------------------------------------------------
(***************************************************************************)
(* Statuses and fees.                                                      *)
(***************************************************************************)

storedInstallmentStatus(i) ==
  IF i.paid >= i.amount THEN "PAID"
  ELSE IF i.paid > 0 THEN "PARTIALLY_PAID" ELSE "PENDING"

\* isInstallmentOverdue, `past' telling whether due date + grace days < now.
isInstallmentOverdue(i, past) == i.amount - i.paid > 0 /\ past

deriveInvoiceStatus(payable, paid, cancelled) ==
  IF cancelled THEN "CANCELLED"
  ELSE IF paid >= payable THEN "PAID"
  ELSE IF paid > 0 THEN "PARTIALLY_PAID" ELSE "UNPAID"

\* value: minor units for FIXED, a whole percentage for PERCENT.
computeLateFee(remaining, type, value) ==
  IF remaining <= 0 \/ type = "NONE" THEN 0
  ELSE IF type = "FIXED" THEN value
  ELSE (remaining * value) \div 100

\* isAdmissionPaymentSettled, "NONE" standing for a student without invoice.
isAdmissionPaymentSettled(paymentRequired, invoiceStatus) ==
  \/ ~paymentRequired
  \/ invoiceStatus \in {"NONE", "CANCELLED", "PAID"}

-----------------------------------------------------------------------------
(***************************************************************************)
(* Issuing an invoice.                                                     *)
(***************************************************************************)

\* Mutant: each waiver is held below the tuition, their total is not.
computeWaiverAdjustments_CapEach(tuition, waivers) ==
  [i \in 1..Len(waivers) |->
     Take((tuition * waivers[i].percent) \div 100 + waivers[i].fixed, tuition)]

\* computeWaiverAdjustments: what each waiver takes off the tuition.  A waiver
\* is [percent, fixed], 0 standing for null; percentages are of the original
\* tuition, and the reductions together never exceed it.
WaiverWish(tuition, w) == (tuition * w.percent) \div 100 + w.fixed
computeWaiverAdjustments(tuition, waivers) ==
  LET n == Len(waivers)
      remaining[i \in 0..n] ==
        IF i = 0 THEN tuition
        ELSE remaining[i-1] - Take(WaiverWish(tuition, waivers[i]), remaining[i-1])
  IN  [i \in 1..n |-> remaining[i-1] - remaining[i]]

\* computePayable, defined where it does not throw.
computePayable(subtotal, discount, adjustment) ==
  subtotal - discount + adjustment
CanComputePayable(subtotal, discount, adjustment) ==
  computePayable(subtotal, discount, adjustment) >= 0

\* Mutant: every slot is rounded down, the remainder is lost.
equalSplit_LosesRemainder(total, first) ==
  [i \in first..N |-> total \div (N - first + 1)]

\* equalSplit over the slots first..N: the last one absorbs the remainder.
equalSplit(total, first) ==
  LET slots == N - first + 1
      base  == total \div slots
  IN  [i \in first..N |-> IF i = N THEN total - base * (slots - 1) ELSE base]

\* validatePlan does not throw; the plan's count is N.  customPercents is a
\* function on Numbers, or <<>> for null.
validatePlan(plan) ==
  /\ N <= 24
  /\ plan.customPercents # <<>> =>
       /\ DOMAIN plan.customPercents = Numbers
       /\ Total(plan.customPercents) = 100
       /\ \A i \in Numbers : plan.customPercents[i] > 0
  /\ plan.advanceType = "PERCENT" => plan.advance \in 1..99

Least(a, b) == IF a <= b THEN a ELSE b

\* The amounts of buildInstallments, for a plan that validatePlan accepts.
buildInstallments(total, plan) ==
  LET share(i) == (total * plan.customPercents[i]) \div 100
      advance  == IF plan.advanceType = "PERCENT"
                    THEN (total * plan.advance) \div 100
                    ELSE Least(plan.advance, total)
      used     == Total([i \in Numbers |-> IF i = N THEN 0 ELSE share(i)])
  IN  IF N = 1 THEN [i \in Numbers |-> total]
      ELSE IF plan.customPercents # <<>>
        THEN [i \in Numbers |-> IF i = N THEN total - used ELSE share(i)]
      ELSE IF plan.advanceType # "NONE" /\ plan.advance # 0
        THEN [i \in Numbers |->
                IF i = 1 THEN advance ELSE equalSplit(total - advance, 2)[i]]
      ELSE equalSplit(total, 1)

LATE_JOINER_GRACE_DAYS == 7

\* The due dates of buildInstallments, in days: one that is past is moved to a
\* week from now, and no date comes before the one of the installment before.
dueDates(firstDue, interval, now) ==
  LET planned(i) == firstDue + (i - 1) * interval
      moved(i)   == IF planned(i) < now
                      THEN now + LATE_JOINER_GRACE_DAYS ELSE planned(i)
      due[i \in Numbers] ==
        IF i = 1 THEN moved(1)
        ELSE IF moved(i) < due[i-1] THEN due[i-1] ELSE moved(i)
  IN  due
==============================================================================
