----------------------------- MODULE PaymentBook -----------------------------
(***************************************************************************)
(* What the payment module promises of each payment, without installments, *)
(* handlers or locks: money bKash has captured is settled once, at the     *)
(* amount captured; settling credits some of it to the invoice; refunds    *)
(* return no more than was captured, and take back the credit of what they *)
(* reverse.  PaymentLedger implements this specification.                  *)
(***************************************************************************)
EXTENDS Integers

CONSTANT Payments

VARIABLES
  captured,   \* what bKash has captured of each payment, 0 before it does
  settled,    \* the payments the server counts
  credited,   \* what of them is applied to the invoice
  returned    \* what of them has been refunded

vars == <<captured, settled, credited, returned>>

TypeOK ==
  /\ captured \in [Payments -> Nat]
  /\ settled \subseteq Payments
  /\ credited \in [Payments -> Nat]
  /\ returned \in [Payments -> Nat]

Init ==
  /\ captured = [p \in Payments |-> 0]
  /\ settled = {}
  /\ credited = [p \in Payments |-> 0]
  /\ returned = [p \in Payments |-> 0]

Capture(p, amount) ==
  /\ captured[p] = 0
  /\ amount \in Nat /\ amount > 0
  /\ captured' = [captured EXCEPT ![p] = amount]
  /\ UNCHANGED <<settled, credited, returned>>

Settle(p, credit) ==
  /\ p \notin settled
  /\ captured[p] > 0 /\ credit \in 0..captured[p]
  /\ settled' = settled \cup {p}
  /\ credited' = [credited EXCEPT ![p] = credit]
  /\ UNCHANGED <<captured, returned>>

Return(p, amount, credit) ==
  /\ p \in settled
  /\ amount \in Nat /\ amount > 0
  /\ returned[p] + amount <= captured[p]
  /\ credit \in {0, amount} /\ credit <= credited[p]
  /\ returned' = [returned EXCEPT ![p] = @ + amount]
  /\ credited' = [credited EXCEPT ![p] = @ - credit]
  /\ UNCHANGED <<captured, settled>>

\* The amounts of a step are those by which the variables change.
Next ==
  \E p \in Payments :
    \/ Capture(p, captured'[p])
    \/ Settle(p, credited'[p])
    \/ Return(p, returned'[p] - returned[p], credited[p] - credited'[p])

Spec == Init /\ [][Next]_vars

\* Nothing is credited or returned of a payment that is not settled, and of a
\* settled one never more than was captured.
WithinCapture ==
  \A p \in Payments :
    /\ credited[p] <= captured[p] /\ returned[p] <= captured[p]
    /\ p \in settled => captured[p] > 0
    /\ p \notin settled => credited[p] = 0 /\ returned[p] = 0

-----------------------------------------------------------------------------
\* Once settled, a payment stays settled at the amount that was captured.
SettledOnce ==
  [][\A p \in settled : p \in settled' /\ captured'[p] = captured[p]]_vars
==============================================================================
