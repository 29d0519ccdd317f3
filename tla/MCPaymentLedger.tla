--------------------------- MODULE MCPaymentLedger ---------------------------
(***************************************************************************)
(* Small instances of PaymentLedger: two installments, amounts of a few    *)
(* minor units split by the plans of the source.                           *)
(***************************************************************************)
EXTENDS LedgerReports, TLC

\* An invoice of three units in two installments, 1 + 2 (equalSplit).
MCThree ==
  buildInstallments(3, [advanceType |-> "NONE", advance |-> 0, customPercents |-> <<>>])

\* One of three units with an advance of two, 2 + 1: the first installment is
\* the one a late fee of 60 percent falls on.
MCAdvance ==
  buildInstallments(3, [advanceType |-> "FIXED", advance |-> 2,
                        customPercents |-> <<>>])

\* One of two units, 1 + 1.
MCTwo ==
  buildInstallments(2, [advanceType |-> "NONE", advance |-> 0, customPercents |-> <<>>])

MCNoDrift   == {0}
MCMayDrift  == {0, 1}
MCOneOrLess == {1, -1}
MCNone      == {}

\* Handlers, attempts, refund requests and late-fee runs are interchangeable.
Symmetry ==
  Permutations(Handlers) \cup Permutations(Attempts)
    \cup Permutations(Refunds) \cup Permutations(LateRuns)
==============================================================================
