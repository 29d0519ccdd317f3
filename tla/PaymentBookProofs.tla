-------------------------- MODULE PaymentBookProofs --------------------------
(***************************************************************************)
(* What PaymentBook promises of each payment, proved for every set of      *)
(* payments: its types, that no more than the capture is ever credited or  *)
(* returned, and that a payment is settled once.                           *)
(***************************************************************************)
EXTENDS PaymentBook, TLAPS

IInv == TypeOK /\ WithinCapture

\* Nothing is captured yet, so nothing is credited or returned.
LEMMA InitHolds == Init => IInv
BY DEF Init, IInv, TypeOK, WithinCapture

\* A capture starts from nothing, and p is not settled before it: what is
\* credited and returned of p is still nothing.
LEMMA CaptureKeeps ==
  ASSUME IInv, NEW p \in Payments, NEW amount, Capture(p, amount)
  PROVE  IInv'
<1>1. TypeOK'
  BY DEF IInv, TypeOK, Capture
<1>2. WithinCapture'
  BY DEF IInv, TypeOK, WithinCapture, Capture
<1> QED
  BY <1>1, <1>2 DEF IInv

\* A settlement credits at most the capture.
LEMMA SettleKeeps ==
  ASSUME IInv, NEW p \in Payments, NEW credit, Settle(p, credit)
  PROVE  IInv'
<1>1. credit \in Nat /\ credit <= captured[p]
  BY DEF IInv, TypeOK, Settle
<1>2. TypeOK'
  BY <1>1 DEF IInv, TypeOK, Settle
<1>3. WithinCapture'
  BY <1>1 DEF IInv, TypeOK, WithinCapture, Settle
<1> QED
  BY <1>2, <1>3 DEF IInv

\* A refund stays within what is left of the capture, and takes back no more
\* credit than there is.
LEMMA ReturnKeeps ==
  ASSUME IInv, NEW p \in Payments, NEW amount, NEW credit, Return(p, amount, credit)
  PROVE  IInv'
<1>1. amount \in Nat /\ credit \in Nat /\ credit <= credited[p]
  BY DEF IInv, TypeOK, Return
<1>2. TypeOK'
  <2>1. credited[p] - credit \in Nat
    BY <1>1 DEF IInv, TypeOK
  <2> QED
    BY <1>1, <2>1 DEF IInv, TypeOK, Return
<1>3. WithinCapture'
  BY <1>1 DEF IInv, TypeOK, WithinCapture, Return
<1> QED
  BY <1>2, <1>3 DEF IInv

\* Every step keeps the types and the bounds.
LEMMA NextKeeps == IInv /\ [Next]_vars => IInv'
<1> SUFFICES ASSUME IInv, [Next]_vars PROVE IInv'
  OBVIOUS
<1>1. ASSUME NEW p \in Payments, Capture(p, captured'[p]) PROVE IInv'
  BY <1>1, CaptureKeeps
<1>2. ASSUME NEW p \in Payments, Settle(p, credited'[p]) PROVE IInv'
  BY <1>2, SettleKeeps
<1>3. ASSUME NEW p \in Payments,
             Return(p, returned'[p] - returned[p], credited[p] - credited'[p])
      PROVE  IInv'
  BY <1>3, ReturnKeeps
<1>4. CASE UNCHANGED vars
  BY <1>4 DEF vars, IInv, TypeOK, WithinCapture
<1> QED
  BY <1>1, <1>2, <1>3, <1>4 DEF Next

\* However payments are captured, settled and refunded, no more than the
\* capture is credited to the invoice or returned, and nothing before the
\* payment is settled.
THEOREM CaptureBoundsAll == Spec => [](TypeOK /\ WithinCapture)
<1>1. Spec => []IInv
  BY InitHolds, NextKeeps, PTL DEF Spec
<1> QED
  BY <1>1, PTL DEF IInv

\* A settled payment stays settled, at the amount that was captured: a second
\* capture would need a payment of which nothing is captured.
THEOREM SettledStays == Spec => SettledOnce
<1>1. ASSUME IInv, [Next]_vars
      PROVE  [\A p \in settled : p \in settled' /\ captured'[p] = captured[p]]_vars
  <2>1. ASSUME NEW q \in Payments, Capture(q, captured'[q]), NEW p \in settled
        PROVE  p \in settled' /\ captured'[p] = captured[p]
    BY <1>1, <2>1 DEF Capture, IInv, TypeOK, WithinCapture
  <2>2. ASSUME NEW q \in Payments, Settle(q, credited'[q]), NEW p \in settled
        PROVE  p \in settled' /\ captured'[p] = captured[p]
    BY <1>1, <2>2 DEF Settle, IInv, TypeOK
  <2>3. ASSUME NEW q \in Payments,
               Return(q, returned'[q] - returned[q], credited[q] - credited'[q]),
               NEW p \in settled
        PROVE  p \in settled' /\ captured'[p] = captured[p]
    BY <1>1, <2>3 DEF Return, IInv, TypeOK
  <2> QED
    BY <1>1, <2>1, <2>2, <2>3 DEF Next
<1>2. Spec => []IInv
  BY InitHolds, NextKeeps, PTL DEF Spec
<1> QED
  BY <1>1, <1>2, PTL DEF Spec, SettledOnce
==============================================================================
