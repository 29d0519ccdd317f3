------------------------------ MODULE Admission ------------------------------
(***************************************************************************)
(* The way of a student from the application to a student ID: the          *)
(* application and its review (module/admission/admission.service.ts), the *)
(* one-off invoices (module/invoice/invoice.service.ts), and the           *)
(* confirmation (lib/admission.ts), by a review or by a payment.           *)
(*                                                                         *)
(* Statements of a request are actions of their own, transactions that     *)
(* begin by taking an advisory lock one action.  Reads that follow each    *)
(* other are merged where the later write checks the first again.          *)
(***************************************************************************)
EXTENDS Integers, Sequences, FiniteSets, FiniteSetsExt

CONSTANTS
  Students,
  Handlers,    \* requests in flight, of students, administrators and bKash
  NoStudent,   \* the student of an idle request
  Settings,    \* values of the settings row an administrator may save
  FeeSets,     \* sets of active fee policies there may be
  MaxBills     \* bound on the invoices of a kind one student ever gets

Kinds == {"APPLICATION", "ADMISSION", "ID_CARD"}
\* An ID card policy may be attached to the admission invoice type too.
Policies == {"APPLICATION", "ADMISSION", "CARD_ON_ADMISSION", "ID_CARD"}
Setting == [applicationFeeRequired : BOOLEAN, admissionPaymentRequiredToEnroll : BOOLEAN]
ApplicationStatus == {"NONE", "SUBMITTED", "APPROVED", "REJECTED"}
BillStatus == {"UNPAID", "PAID", "CANCELLED"}

ASSUME AdmissionAssumption ==
  /\ IsFiniteSet(Students)
  /\ NoStudent \notin Students
  /\ Settings \subseteq Setting /\ Settings # {}
  /\ FeeSets \subseteq SUBSET Policies /\ FeeSets # {}
  /\ MaxBills \in Nat

VARIABLES
  application,  \* AdmissionApplication.status, "NONE" where there is no row
  bills,        \* FeeInvoice rows of a student by kind: their statuses
  code,         \* StudentProfile.studentIdCode, 0 for null; admissionConfirmedAt
                \* is set with it
  setting,      \* the SystemSetting row
  fees,         \* the fee policies that apply
  handler,      \* requests: where they are, what they have read
  approved      \* history: the students some review has approved

vars == <<application, bills, code, setting, fees, handler, approved>>

Step == {"idle", "submitting", "creating", "updating", "reviewing", "flipping",
         "issuing", "finding", "looking", "confirming", "numbering", "billing", "settling"}
Request == [step : Step, student : Students \cup {NoStudent},
            kind : Kinds, bill : Nat, verdict : ApplicationStatus,
            required : BOOLEAN, known : Nat]

\* Rows and requests are of the source's types.
TypeOK ==
  /\ application \in [Students -> ApplicationStatus]
  /\ bills \in [Students -> [Kinds -> Seq(BillStatus)]]
  /\ code \in [Students -> Nat]
  /\ setting \in Setting
  /\ fees \subseteq Policies
  /\ handler \in [Handlers -> Request]
  /\ approved \subseteq Students

Idle == [step |-> "idle", student |-> NoStudent, kind |-> "ADMISSION", bill |-> 0,
         verdict |-> "NONE", required |-> FALSE, known |-> 0]

Init ==
  /\ application = [s \in Students |-> "NONE"]
  /\ bills = [s \in Students |-> [k \in Kinds |-> <<>>]]
  /\ code = [s \in Students |-> 0]
  /\ setting \in Settings
  /\ fees \in FeeSets
  /\ handler = [h \in Handlers |-> Idle]
  /\ approved = {}

rows == <<application, bills, code, setting, fees, approved>>

HasBill(s, k, states) == \E i \in DOMAIN bills[s][k] : bills[s][k][i] \in states
Live(s, k) == HasBill(s, k, {"UNPAID", "PAID"})

\* getFeeSchedule has a line for the kind of invoice.
HasSchedule(k) ==
  k \in fees \/ (k = "ADMISSION" /\ "CARD_ON_ADMISSION" \in fees)

\* buildInvoiceItems returns an item: the admission invoice leaves the ID card
\* out, the ID card invoice takes it wherever it is attached.
HasItems(k) == k \in fees \/ (k = "ID_CARD" /\ "CARD_ON_ADMISSION" \in fees)

Begin(h, request) == handler[h].step = "idle" /\ handler' = [handler EXCEPT ![h] = request]
Goes(h, from, to) ==
  /\ handler[h].step = from
  /\ handler' = [handler EXCEPT ![h] = IF to = "idle" THEN Idle ELSE [@ EXCEPT !.step = to]]

-----------------------------------------------------------------------------
(***************************************************************************)
(* submitApplication and updateApplication.                                *)
(***************************************************************************)

SubmitRead(h, s) ==
  /\ application[s] = "NONE"
  /\ Begin(h, [Idle EXCEPT !.step = "submitting", !.student = s,
       !.required = setting.applicationFeeRequired /\ HasSchedule("APPLICATION")])
  /\ UNCHANGED rows

SubmitCheckFee(h) ==
  /\ Goes(h, "submitting",
       IF handler[h].required /\ ~HasBill(handler[h].student, "APPLICATION", {"PAID"})
         THEN "idle" ELSE "creating")
  /\ UNCHANGED rows

\* The unique key on studentId refuses a second row.
SubmitCreate(h) ==
  LET s == handler[h].student
  IN  /\ Goes(h, "creating", "idle")
      /\ application' = IF application[s] = "NONE"
                          THEN [application EXCEPT ![s] = "SUBMITTED"] ELSE application
      /\ UNCHANGED <<bills, code, setting, fees, approved>>

UpdateRead(h, s) ==
  /\ application[s] \in {"SUBMITTED", "REJECTED"}
  /\ Begin(h, [Idle EXCEPT !.step = "updating", !.student = s])
  /\ UNCHANGED rows

\* The status is not looked at again.
UpdateWrite(h) ==
  /\ Goes(h, "updating", "idle")
  /\ application' = [application EXCEPT ![handler[h].student] = "SUBMITTED"]
  /\ UNCHANGED <<bills, code, setting, fees, approved>>

-----------------------------------------------------------------------------
(***************************************************************************)
(* Invoices.  One transaction under an advisory lock of the student and    *)
(* kind: nothing is issued while one is live.                              *)
(***************************************************************************)

\* Mutant: only an unpaid invoice keeps another from being issued.
WithBill_IgnoresPaid(s, k) ==
  IF HasBill(s, k, {"UNPAID"}) \/ ~HasItems(k) THEN bills
  ELSE [bills EXCEPT ![s][k] = Append(@, "UNPAID")]

WithBill(s, k) ==
  IF Live(s, k) \/ ~HasItems(k) THEN bills
  ELSE [bills EXCEPT ![s][k] = Append(@, "UNPAID")]

\* createApplicationInvoice looks for an application first.
ApplicationInvoiceRead(h, s) ==
  /\ application[s] = "NONE"
  /\ Begin(h, [Idle EXCEPT !.step = "billing", !.student = s, !.kind = "APPLICATION"])
  /\ UNCHANGED rows

\* requestIdCardInvoice: the fee state is read, live, before the transaction.
IdCardInvoiceRead(h, s) ==
  /\ HasItems("ID_CARD") /\ ~HasBill(s, "ID_CARD", {"PAID"})
  /\ Begin(h, [Idle EXCEPT !.step = "billing", !.student = s, !.kind = "ID_CARD"])
  /\ UNCHANGED rows

IssueBill(h) ==
  LET s == handler[h].student  k == handler[h].kind
  IN  /\ Goes(h, "billing", "idle")
      /\ bills' = WithBill(s, k)
      /\ UNCHANGED <<application, code, setting, fees, approved>>

-----------------------------------------------------------------------------
(***************************************************************************)
(* reviewApplication.                                                      *)
(***************************************************************************)

\* The application is read, then the setting; the flip looks at the
\* application again.
ReviewRead(h, s, verdict) ==
  /\ application[s] = "SUBMITTED"
  /\ Begin(h, [Idle EXCEPT !.student = s, !.verdict = verdict,
       !.step = IF verdict = "APPROVED" THEN "reviewing" ELSE "flipping",
       !.required = setting.admissionPaymentRequiredToEnroll])
  /\ UNCHANGED rows

ReviewCheckFees(h) ==
  /\ Goes(h, "reviewing",
       IF /\ handler[h].required
          /\ ~Live(handler[h].student, "ADMISSION") /\ ~HasSchedule("ADMISSION")
         THEN "idle" ELSE "flipping")
  /\ UNCHANGED rows

\* Mutant: the status is not part of the condition.
StillSubmitted_Unchecked(s) == TRUE

StillSubmitted(s) == application[s] = "SUBMITTED"

ReviewFlip(h) ==
  LET s == handler[h].student  verdict == handler[h].verdict
  IN  /\ Goes(h, "flipping", IF StillSubmitted(s) /\ verdict = "APPROVED"
                               THEN "issuing" ELSE "idle")
      /\ application' = IF StillSubmitted(s) THEN [application EXCEPT ![s] = verdict]
                                             ELSE application
      /\ approved' = IF StillSubmitted(s) /\ verdict = "APPROVED"
                       THEN approved \cup {s} ELSE approved
      /\ UNCHANGED <<bills, code, setting, fees>>

\* The request goes on with an admission invoice, 0 for none.
ReviewGoes(h, to, bill) ==
  handler' = [handler EXCEPT ![h] = [@ EXCEPT !.step = to, !.bill = bill]]

\* createAdmissionInvoice: the new invoice, or null.
ReviewIssue(h) ==
  LET s == handler[h].student
  IN  /\ handler[h].step = "issuing"
      /\ bills' = WithBill(s, "ADMISSION")
      /\ IF bills' = bills THEN ReviewGoes(h, "finding", 0)
         ELSE ReviewGoes(h, "looking", Len(bills'[s]["ADMISSION"]))
      /\ UNCHANGED <<application, code, setting, fees, approved>>

\* After null: the invoice that is not cancelled, if there is one.
ReviewFind(h) ==
  LET invoices == bills[handler[h].student]["ADMISSION"]
      live == {i \in DOMAIN invoices : invoices[i] # "CANCELLED"}
  IN  /\ handler[h].step = "finding"
      /\ \/ live = {} /\ ReviewGoes(h, "confirming", 0)
         \/ \E i \in live : ReviewGoes(h, "looking", i)
      /\ UNCHANGED rows

\* Whether that invoice is paid now decides who confirms.
ReviewLook(h) ==
  LET paid == bills[handler[h].student]["ADMISSION"][handler[h].bill] = "PAID"
  IN  /\ handler[h].step = "looking"
      /\ IF paid \/ ~handler[h].required
           THEN ReviewGoes(h, "confirming", 0) ELSE Goes(h, "looking", "idle")
      /\ UNCHANGED rows

\* confirmAdmission: the profile is read before the lock of nextStudentIdCode.
ConfirmRead(h) ==
  LET s == handler[h].student
  IN  /\ handler[h].step = "confirming"
      /\ handler' = [handler EXCEPT ![h] = IF code[s] # 0 THEN Idle
                                             ELSE [@ EXCEPT !.step = "numbering"]]
      /\ UNCHANGED rows

\* Mutant: counted down.
nextStudentIdCode_Down == Max({code[s] : s \in Students} \cup {0}) - 1

\* The next number after the highest there is (fewer than 10000 in a year).
nextStudentIdCode == 1 + Max({code[s] : s \in Students} \cup {0})

ConfirmWrite(h) ==
  /\ Goes(h, "numbering", "idle")
  /\ code' = [code EXCEPT ![handler[h].student] = nextStudentIdCode]
  /\ UNCHANGED <<application, bills, setting, fees, approved>>

-----------------------------------------------------------------------------
(***************************************************************************)
(* Payments (module PaymentLedger).  A settlement holds the lock of the    *)
(* invoice; of an ADMISSION invoice it confirms the student as a review    *)
(* does: the profile is read, then numbered.  What becomes of an invoice   *)
(* is what InvoiceBook says, which PaymentLedger implements.               *)
(***************************************************************************)

Locked(s, k, i) == \E h \in Handlers : /\ handler[h].step = "settling"
                                       /\ handler[h].student = s
                                       /\ handler[h].kind = k /\ handler[h].bill = i
Free(s, k, i) ==
  i \in DOMAIN bills[s][k] /\ bills[s][k][i] # "CANCELLED" /\ ~Locked(s, k, i)

\* The payment need not find anything owed: one begun before a correction took
\* it all off is kept as excess, and confirms all the same.
SettleRead(h, s, k, i) ==
  /\ Free(s, k, i)
  /\ Begin(h, [Idle EXCEPT !.step = "settling", !.student = s, !.kind = k, !.bill = i,
                           !.known = code[s]])
  /\ UNCHANGED rows

\* Mutant: a payment of any invoice confirms.
Confirms_AnyInvoice(h) == handler[h].known = 0

Confirms(h) == handler[h].kind = "ADMISSION" /\ handler[h].known = 0

SettleWrite(h) ==
  LET s == handler[h].student
  IN  /\ Goes(h, "settling", "idle")
      /\ bills' = [bills EXCEPT ![s][handler[h].kind][handler[h].bill] = "PAID"]
      /\ code' = IF Confirms(h) THEN [code EXCEPT ![s] = nextStudentIdCode] ELSE code
      /\ UNCHANGED <<application, setting, fees, approved>>

\* addAdjustment takes off all that is still owed, refundTransaction or a
\* correction makes the invoice owe again, cancelInvoice ends one on which no
\* money is (the last one of the bound is not cancelled).
BillMoves(s, k, i, to) ==
  /\ Free(s, k, i)
  /\ to # bills[s][k][i]
  /\ to = "CANCELLED" => i < MaxBills
  /\ bills' = [bills EXCEPT ![s][k][i] = to]
  /\ UNCHANGED <<application, code, setting, fees, handler, approved>>

-----------------------------------------------------------------------------
updateSettings(new) ==
  /\ setting' = new
  /\ UNCHANGED <<application, bills, code, fees, handler, approved>>

\* createFeePolicy and updateFeePolicy.
FeePoliciesChange(new) ==
  /\ fees' = new
  /\ UNCHANGED <<application, bills, code, setting, handler, approved>>

HandlerDies(h) ==
  /\ handler[h].step # "idle"
  /\ handler' = [handler EXCEPT ![h] = Idle]
  /\ UNCHANGED rows

Next ==
  \/ \E h \in Handlers :
       \/ \E s \in Students :
            \/ SubmitRead(h, s)
            \/ UpdateRead(h, s)
            \/ \E verdict \in {"APPROVED", "REJECTED"} : ReviewRead(h, s, verdict)
            \/ ApplicationInvoiceRead(h, s)
            \/ IdCardInvoiceRead(h, s)
            \/ \E k \in Kinds, i \in 1..MaxBills : SettleRead(h, s, k, i)
       \/ SubmitCheckFee(h) \/ SubmitCreate(h) \/ UpdateWrite(h)
       \/ ReviewCheckFees(h) \/ ReviewFlip(h) \/ ReviewIssue(h) \/ ReviewFind(h) \/ ReviewLook(h)
       \/ ConfirmRead(h) \/ ConfirmWrite(h)
       \/ IssueBill(h) \/ SettleWrite(h)
       \/ HandlerDies(h)
  \/ \E s \in Students, k \in Kinds, i \in 1..MaxBills, to \in BillStatus :
       BillMoves(s, k, i, to)
  \/ \E new \in Settings : updateSettings(new)
  \/ \E new \in FeeSets : FeePoliciesChange(new)

Spec == Init /\ [][Next]_vars

-----------------------------------------------------------------------------
(***************************************************************************)
(* What a student may do, and what the dashboard tells her to do next.     *)
(***************************************************************************)

\* assertAdmissionConfirmed, the gate of enrollment and semester billing.
MayEnroll(s) ==
  /\ \/ ~setting.admissionPaymentRequiredToEnroll
     \/ ~Live(s, "ADMISSION")
     \/ HasBill(s, "ADMISSION", {"PAID"})
  /\ code[s] # 0

getIdCardFeeState(s) ==
  CASE ~HasItems("ID_CARD")                               -> "NOT_REQUIRED"
    [] HasItems("ID_CARD") /\ ~Live(s, "ID_CARD")         -> "NOT_INVOICED"
    [] HasItems("ID_CARD") /\ HasBill(s, "ID_CARD", {"PAID"}) -> "PAID"
    [] OTHER                                              -> "UNPAID"

assertIdCardFeePaid(s) == getIdCardFeeState(s) \notin {"NOT_INVOICED", "UNPAID"}

\* generateIdCard: there is a student ID, and the fee is no obstacle.
MayPrintCard(s) == code[s] # 0 /\ assertIdCardFeePaid(s)

\* getIdCardStatus: what the page of the card offers.
CardPage(s) ==
  IF code[s] = 0 THEN "WAIT"
  ELSE CASE getIdCardFeeState(s) \in {"PAID", "NOT_REQUIRED"} -> "DOWNLOAD"
         [] getIdCardFeeState(s) = "NOT_INVOICED"             -> "REQUEST_INVOICE"
         [] getIdCardFeeState(s) = "UNPAID"                   -> "PAY_INVOICE"

\* Mutant: the setting alone.
ApplicationFeeShown_SettingOnly(s) == setting.applicationFeeRequired

\* getMyApplication: there is an amount on the invoice or, without one, on the
\* rate card.
ApplicationFeeShown(s) ==
  /\ setting.applicationFeeRequired /\ application[s] = "NONE"
  /\ Live(s, "APPLICATION") \/ HasSchedule("APPLICATION")

\* getStudentNextStep, of a student without overdue dues, up to the admission.
nextStep(s) ==
  CASE application[s] = "SUBMITTED" -> "APPLICATION_UNDER_REVIEW"
    [] application[s] = "REJECTED"  -> "APPLICATION_REJECTED"
    [] application[s] = "NONE" ->
         IF ApplicationFeeShown(s) /\ ~HasBill(s, "APPLICATION", {"PAID"})
           THEN "PAY_APPLICATION_FEE" ELSE "START_APPLICATION"
    [] application[s] = "APPROVED" ->
         IF HasBill(s, "ADMISSION", {"UNPAID"}) THEN "PAY_ADMISSION" ELSE "ENROLL"

\* getMyStudentDashboard: the steps of the admission, at most one of which is
\* marked as the current one.
steps(s) ==
  LET isPaid    == HasBill(s, "APPLICATION", {"PAID"})
      feeNeeded == ApplicationFeeShown(s) \/ isPaid
      app       == application[s] # "NONE"
  IN  [application_fee |-> IF ~feeNeeded THEN "skipped"
                           ELSE IF isPaid \/ app THEN "done" ELSE "current",
       application |-> IF app THEN "done"
                       ELSE IF ~feeNeeded \/ isPaid THEN "current" ELSE "pending",
       review |-> IF ~app THEN "pending"
                  ELSE IF application[s] = "SUBMITTED" THEN "current" ELSE "done",
       admission_payment |-> IF application[s] # "APPROVED" THEN "pending"
                             ELSE IF HasBill(s, "ADMISSION", {"UNPAID"}) THEN "current"
                             ELSE "done",
       student_id |-> IF code[s] # 0 THEN "done" ELSE "pending"]

\* The step of the admission that a next step is about.
StepOf == [PAY_APPLICATION_FEE |-> "application_fee", START_APPLICATION |-> "application",
           APPLICATION_UNDER_REVIEW |-> "review", PAY_ADMISSION |-> "admission_payment"]

-----------------------------------------------------------------------------
(***************************************************************************)
(* Properties.                                                             *)
(***************************************************************************)

\* A student has at most one live invoice of a kind, however many requests for
\* it, reviews and cancellations there are: nobody pays a one-off fee twice
\* (invoice.service.ts:77, 166).
OneLiveBill ==
  \A s \in Students, k \in Kinds :
    Cardinality({i \in DOMAIN bills[s][k] : bills[s][k][i] # "CANCELLED"}) <= 1

\* Nobody is charged for an admission, gets a student ID or passes a gate
\* before a review has approved the application, whichever of reviews and
\* payments comes to confirm (admission.service.ts:278, payment.service.ts:257).
NothingBeforeApproval ==
  \A s \in Students :
    \/ code[s] # 0 \/ bills[s]["ADMISSION"] # <<>> \/ MayEnroll(s) \/ MayPrintCard(s)
    => s \in approved

\* Two administrators never both review an application: a decision is replaced
\* only by the student editing the application (admission.service.ts:261).
DecisionsStand ==
  [][\A s \in Students :
       application[s] \in {"APPROVED", "REJECTED"}
         => application'[s] \in {application[s], "SUBMITTED"}]_vars

\* The dashboard's next step up to the admission can be taken: who is sent to
\* the form passes the fee check of a submission, who is sent to pay has, or
\* can be issued, something to pay, whatever became of policies, settings and
\* invoices ("otherwise students would be stuck", admission.service.ts:55); and
\* the list of steps beside it marks just that step as the current one
\* (dashboard.service.ts:278).  The same holds of the page of the ID card: what
\* it offers to download is printed, an invoice it asks to request is issued,
\* one it asks to pay exists (auth.service.ts:516).
NextStepIsPossible ==
  \A s \in Students :
    /\ nextStep(s) = "START_APPLICATION" =>
         \/ ~(setting.applicationFeeRequired /\ HasSchedule("APPLICATION"))
         \/ HasBill(s, "APPLICATION", {"PAID"})
    /\ nextStep(s) = "PAY_APPLICATION_FEE" =>
         HasBill(s, "APPLICATION", {"UNPAID"}) \/ HasItems("APPLICATION")
    /\ {step \in DOMAIN steps(s) : steps(s)[step] = "current"}
         = {StepOf[kind] : kind \in {nextStep(s)} \cap DOMAIN StepOf}
    /\ CardPage(s) = "DOWNLOAD" <=> MayPrintCard(s)
    /\ CardPage(s) = "REQUEST_INVOICE" => HasItems("ID_CARD") /\ ~Live(s, "ID_CARD")
    /\ CardPage(s) = "PAY_INVOICE" => HasBill(s, "ID_CARD", {"UNPAID"})

-----------------------------------------------------------------------------
(***************************************************************************)
(* What the source says of itself and its code does not keep.              *)
(***************************************************************************)

\* A second confirmation changes nothing (lib/admission.ts:31).
StudentIdIsFinal ==
  [][\A s \in Students : code[s] # 0 => code'[s] = code[s]]_vars
==============================================================================
