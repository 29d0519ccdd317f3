---------------------------- MODULE LedgerReports ----------------------------
(***************************************************************************)
(* What students and the office are told about the invoice of              *)
(* PaymentLedger.  Each report reads rows of its own and adds them up in   *)
(* its own way: from the totals of the invoice, from its installments,     *)
(* from the status stored with either, or from the payments.               *)
(***************************************************************************)
EXTENDS PaymentLedger

IsOpen == invoice.status \in {"UNPAID", "PARTIALLY_PAID"}
IsLive == invoice.status # "CANCELLED"

\* What Math.max(payable - paid, 0) makes of the stored totals.
outstandingBalance == Positive(invoice.payable - invoice.paid)

\* Installments with a balance, due date and grace days behind them.
Late == {i \in Numbers : isInstallmentOverdue(schedule[i], i \in overdue)}

-----------------------------------------------------------------------------
(***************************************************************************)
(* The student's summary, the gate on dues, the office's reports.          *)
(***************************************************************************)

\* All invoices but cancelled ones; the first installment that is owed and not
\* late is the next one, 0 if there is none.
getMySummary ==
  LET owed == {i \in Numbers : Balances(schedule)[i] > 0}
      next == {i \in owed \ Late : \A j \in owed \ Late : i <= j}
  IN  [totalFees   |-> IF IsLive THEN invoice.payable ELSE 0,
       totalPaid   |-> IF IsLive THEN invoice.paid ELSE 0,
       outstanding |-> IF IsLive THEN outstandingBalance ELSE 0,
       overdue     |-> IF IsLive THEN Late ELSE {},
       next        |-> IF IsLive THEN next ELSE {}]

\* Installments are looked for by the status stored with them.
getOverdueInstallments ==
  {i \in Late : /\ IsLive
                /\ storedInstallmentStatus(schedule[i]) \in {"PENDING", "PARTIALLY_PAID"}}

\* Open invoices with a balance; the office pages through them.
getOutstandingDues ==
  IF IsOpen /\ invoice.payable - invoice.paid > 0 THEN invoice.payable - invoice.paid ELSE 0

\* Of every student the installments getOverdueInstallments has of one.
getOverdueReport ==
  [i \in {j \in Late : /\ IsLive
                       /\ storedInstallmentStatus(schedule[j]) \in {"PENDING", "PARTIALLY_PAID"}}
     |-> Balances(schedule)[i]]

\* Mutant: refunds are not taken off.
getCollectionReport_Gross ==
  LET rows      == {t \in Attempts : tx[t].status \in {"SUCCESS", "REFUNDED"}}
      collected == SumFunctionOnSet([t \in Attempts |-> tx[t].amount], rows)
  IN  [collected |-> collected, refunded |-> 0, net |-> collected]

\* Payments that went through, also when they were refunded since.
getCollectionReport ==
  LET rows      == {t \in Attempts : tx[t].status \in {"SUCCESS", "REFUNDED"}}
      collected == SumFunctionOnSet([t \in Attempts |-> tx[t].amount], rows)
      refunded  == SumFunctionOnSet([t \in Attempts |-> tx[t].refunded], rows)
  IN  [collected |-> collected, refunded |-> refunded, net |-> collected - refunded]

getDashboardSummary ==
  [totalCollected |-> getCollectionReport.net,
   totalPending   |-> IF IsOpen THEN outstandingBalance ELSE 0]

\* Under a policy that restricts access, what is overdue holds the student up.
assertNoOverdueDues(restrictOnOverdue) ==
  restrictOnOverdue => getOverdueInstallments = {}

\* What an invoice looks like to the student and to the office.
serializeInvoice ==
  [outstandingBalance |-> outstandingBalance,
   installments |->
     [i \in Numbers |->
        [remaining |-> Balances(schedule)[i],
         status    |-> IF i \in Late THEN "OVERDUE" ELSE storedInstallmentStatus(schedule[i]),
         isOverdue |-> i \in Late]]]

\* A receipt number is given when a payment settles.
HasReceipt(t) == tx[t].status \in {"SUCCESS", "REFUNDED"}

-----------------------------------------------------------------------------
\* Whatever payments, refunds, corrections, late fees and cancellations there
\* were, nobody is told different things: the debt is the same in the student's
\* summary, the office's dues, the dashboard and the invoice, where it is what
\* the installments leave to pay; the gate, the report and the summary hold the
\* same installments against the student, and the gate holds nobody up who has
\* nothing to pay; and "money actually kept" (payment.service.ts:687) is what
\* the invoice counts as paid and the excess, less what was refunded without
\* giving the charge back.
ReportsAgree ==
  LET shown   == serializeInvoice
      mine    == getMySummary
      dues    == getOutstandingDues
      late    == getOverdueReport
      summary == getDashboardSummary
      owed    == Total([i \in Numbers |-> shown.installments[i].remaining])
      kept    == Total(Paids(schedule)) + SumFunction([t \in Attempts |-> tx[t].excess])
      gifts   == SumFunction([t \in Attempts |-> RefundSum(Succeeded(t, {FALSE}))])
  IN  /\ dues = mine.outstanding /\ dues = summary.totalPending
      /\ IsLive => dues = owed /\ dues = shown.outstandingBalance
      /\ mine.overdue = getOverdueInstallments /\ mine.overdue = DOMAIN late
      /\ SumFunction(late) <= dues
      /\ IsLive => mine.overdue = {i \in Numbers : shown.installments[i].status = "OVERDUE"}
      /\ ~assertNoOverdueDues(TRUE) => dues > 0
      /\ mine.outstanding > 0 => mine.overdue \cup mine.next # {}
      /\ summary.totalCollected = kept - gifts
      /\ \A t \in Attempts : ~HasReceipt(t) => tx[t].alloc = Nobody
==============================================================================
