---------------------------- MODULE IdCardCharges ----------------------------
(***************************************************************************)
(* The invoices of one student that an ID card fee may be on               *)
(* (module/invoice/invoice.service.ts).  Each is issued in a transaction   *)
(* under an advisory lock of its own kind, so that invoices of different   *)
(* kinds are issued in any order.  What is on an invoice is computed by    *)
(* FeeItems from the policies there are at the time.  How an application   *)
(* races its invoice, and a review the admission invoice, is in Admission. *)
(***************************************************************************)
EXTENDS FeeItems, FiniteSets

CONSTANTS
  CardRates,       \* sequences of fee policies the office may have in force
  CardSemesters,   \* semesters: non-zero numbers
  Department,      \* of the student
  Covered,         \* whether she has an older admission invoice with the card on it
  MaxReceived      \* bound on the invoices the student ever gets

ASSUME IdCardChargesAssumption ==
  /\ CardRates # {}
  /\ 0 \notin CardSemesters
  /\ Covered \subseteq BOOLEAN /\ Covered # {}
  /\ MaxReceived \in Nat

VARIABLES
  rates,      \* active FeePolicy rows
  applied,    \* whether the student has an AdmissionApplication row
  received    \* FeeInvoice rows of the student, in order of creation

idCardVars == <<rates, applied, received>>

\* card: whether there is an ID_CARD line among the items; semester 0 is null.
Received == [type : {"APPLICATION", "ADMISSION", "ID_CARD", "SEMESTER"},
             semester : CardSemesters \cup {0}, live : BOOLEAN, card : BOOLEAN]

IdCardTypeOK ==
  /\ rates \in CardRates
  /\ applied \in BOOLEAN
  /\ received \in Seq(Received)

Invoice(type, semester, items) ==
  [type |-> type, semester |-> semester, live |-> TRUE,
   card |-> \E item \in items : item.itemType = "ID_CARD"]

OlderInvoice ==
  [type |-> "ADMISSION", semester |-> 0, live |-> TRUE, card |-> TRUE]

IdCardInit ==
  /\ rates \in CardRates
  /\ applied \in Covered
  /\ received = IF applied THEN <<OlderInvoice>> ELSE <<>>

Once == [departmentId |-> Department, semesterId |-> 0, at |-> 1]
During(t) == [Once EXCEPT !.semesterId = t]

LiveBills(type, semester) ==
  {i \in DOMAIN received : /\ received[i].live /\ received[i].type = type
                           /\ received[i].semester = semester}

Issue(type, semester, items) ==
  /\ items # {} /\ Len(received) < MaxReceived
  /\ received' = Append(received, Invoice(type, semester, items))
  /\ UNCHANGED <<rates, applied>>

submitApplication ==
  /\ ~applied /\ applied' = TRUE
  /\ UNCHANGED <<rates, received>>

createApplicationInvoice ==
  /\ ~applied /\ LiveBills("APPLICATION", 0) = {}
  /\ Issue("APPLICATION", 0, ApplicationItems(rates, Once))

\* Called by the review that approves the application.
createAdmissionInvoice ==
  /\ applied /\ LiveBills("ADMISSION", 0) = {}
  /\ Issue("ADMISSION", 0, AdmissionItems(rates, Once))

\* Mutant: only an ID card invoice counts, not a card on another one.
CardCovered_OwnType == LiveBills("ID_CARD", 0) # {}

\* Some invoice has the card on it, of whatever type it is.
CardCovered == \E i \in DOMAIN received : received[i].live /\ received[i].card

createIdCardInvoice ==
  /\ ~CardCovered
  /\ Issue("ID_CARD", 0, IdCardItems(rates, Once))

\* The first invoice of a semester bills all there is, for some credits; one for
\* credits added later bills the tuition only.  Nothing without a tuition line.
\* Who has courses is admitted.
generateSemesterInvoice(t) ==
  LET items == SemesterItems(rates, During(t), 1, LiveBills("SEMESTER", t) # {})
  IN  /\ applied /\ \E item \in items : item.itemType = "TUITION"
      /\ Issue("SEMESTER", t, items)

\* cancelInvoice, of any invoice that holds no money.
CancelReceived(i) ==
  /\ i \in DOMAIN received /\ received[i].live
  /\ received' = [received EXCEPT ![i].live = FALSE]
  /\ UNCHANGED <<rates, applied>>

\* createFeePolicy, updateFeePolicy: any item may go on an invoice of any type.
PoliciesChange ==
  /\ \E new \in CardRates \ {rates} : rates' = new
  /\ UNCHANGED <<applied, received>>

IdCardNext ==
  \/ submitApplication
  \/ createApplicationInvoice
  \/ createAdmissionInvoice
  \/ createIdCardInvoice
  \/ \E t \in CardSemesters : generateSemesterInvoice(t)
  \/ \E i \in 1..MaxReceived : CancelReceived(i)
  \/ PoliciesChange

IdCardSpec == IdCardInit /\ [][IdCardNext]_idCardVars

-----------------------------------------------------------------------------
\* "Never double-billed" (invoice.service.ts:166) holds of the ID card and the
\* admission invoice: neither is ever a further charge for the card beside one
\* there is, whatever is issued, cancelled and re-priced before it, and though the
\* card may be on an older admission invoice.  An application or a semester
\* invoice can be one: createFeePolicy takes an ID_CARD item on their policies,
\* and they leave no item out and look for no other invoice (:95, :325), although
\* the card is "never charged twice" (billing.ts:108).
CardNotRecharged ==
  \A i, j \in DOMAIN received :
    /\ received[i].live /\ received[i].card
    /\ received[j].live /\ received[j].card /\ i < j
    => received[j].type \in {"APPLICATION", "SEMESTER"}
==============================================================================
