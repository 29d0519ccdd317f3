----------------------------- MODULE InvoiceBook -----------------------------
(***************************************************************************)
(* What the rest of the server may rely on of one invoice, without its     *)
(* installments, payments and refunds: it is owed or paid, back and forth, *)
(* until it is cancelled, and cancelled for good; an admission is          *)
(* confirmed by a payment booked on a live invoice that is paid then.      *)
(* PaymentLedger implements this specification, and Admission lets the     *)
(* invoices of its students take these steps and no others.                *)
(***************************************************************************)

VARIABLES
  status,    \* "UNPAID" also stands for an invoice paid in part
  confirms   \* an admission was confirmed by a payment of the invoice

vars == <<status, confirms>>

\* An invoice on which nothing is owed is issued as paid.
Init == status \in {"UNPAID", "PAID"} /\ confirms = FALSE

\* Payments and refunds, corrections and late fees, cancellation.
Moves ==
  /\ status # "CANCELLED"
  /\ status' \in {"UNPAID", "PAID", "CANCELLED"} \ {status}
  /\ UNCHANGED confirms

\* A payment of an admission fee after which nothing is owed, be it that
\* nothing was owed before.
Settles ==
  /\ status # "CANCELLED"
  /\ status' = "PAID"
  /\ confirms' = TRUE

Next == Moves \/ Settles

Spec == Init /\ [][Next]_vars
==============================================================================
