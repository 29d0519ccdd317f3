# University management server: specifications, model checking and proofs

The server (`src/src/app`, Express, Prisma, PostgreSQL, Redis) keeps the path of a
student from registration to a transcript, and the money on it: invoices in
installments, payments through the bKash gateway, refunds, corrections and late fees.
This directory holds TLA+ modules of it, the TLC configurations that check them on
small instances, and TLAPS proofs for every value of the constants.

The money came first (billing arithmetic, the ledger of an invoice, bKash), then the
student's path (admission, enrollment, results, transcripts) and the services around it
(accounts, timetable, installment policies, semester billing). Section 6 says what
is left.

## 1. The system

One process (or several, behind a load balancer) serves HTTP requests concurrently.
Every handler is `async`: it may be interleaved with any other at each `await`, and the
process may stop between two of them. State is in PostgreSQL (through Prisma), short
lived state in Redis, and money at bKash. Few handlers use a database transaction, and
fewer a lock; the payment module and the invoices do both.

| Component | Source | State it keeps | Operations that change it | Module |
|---|---|---|---|---|
| billing arithmetic | `lib/billing.ts` | none (pure) | - | `Billing`, `FeeItems` |
| invoice core | `lib/invoiceCore.ts` | `FeeInvoice`, `Installment`, `InvoiceAdjustment` | `createInvoiceRecord`, `lockInvoice`, `recomputeInvoice` | `PaymentLedger`, `FeePlans` |
| payments and refunds | `module/payment` | `PaymentTransaction`, `PaymentAllocation`, `Refund` | initiate, callback, verify, settle, refund | `PaymentLedger` |
| bKash client | `lib/bkash.ts` | tokens in Redis | create, execute, query, refund | `PaymentLedger`, `GatewayTokens` |
| invoice operations | `module/invoice` | as invoice core | adjust, cancel, charge late fees, issue one-off invoices | `PaymentLedger`, `Admission`, `IdCardCharges` |
| semester billing | `module/invoice` | as invoice core | runs of the office and of students | `SemesterBilling`, `IdCardCharges` |
| admission, settings | `module/admission`, `lib/admission.ts`, `module/setting` | `AdmissionApplication`, `StudentProfile.studentIdCode`, `SystemSetting` | submit, edit, review, confirm | `Admission` |
| enrollment, sections, semester status | `module/enrollment`, `module/section`, `module/semester` | `Enrollment`, `Section` with its seat counter, `Semester.status` | enroll, drop, withdraw; create, resize, delete; open, close | `Enrollment` |
| results, exams, attendance | `module/result`, `module/exam`, `module/attendance` | `Result`, `Exam`, `AttendanceRecord`, GPA cache in Redis | create, enter, publish, override, mark | `Results` |
| transcripts, result sheets | `module/transcript`, `module/result` | the GPA cache | read only, but for the cache | `Transcripts` |
| teachers and timetable | `module/section`, `module/routine` | `Section.instructorId`, `SectionInstructor`, `ClassRoutine` | assign, plan, delete | `Teaching` |
| installment policies | `module/feePolicy` | `InstallmentPolicy` | create, update | `FeePlans` |
| fee policies, waivers | `module/feePolicy`, `module/waiver` | `FeePolicy`, `StudentWaiver` | single writes | inputs of `FeeItems`, `Admission`, `SemesterBilling` |
| gates, dashboards, reports | `lib/dues.ts`, `lib/idcard.ts`, `lib/dashboardnextstep.ts`, `module/dashboard` | none | read only | `LedgerReports`, `Admission` |
| accounts | `module/auth`, `module/Instructor` | `User`, profiles; codes and pending data in Redis | register, verify, apply, review, reset, change, Google | `Accounts` |
| sessions, directory, profile fields, PDFs, HTTP layer, legacy fee module | see section 7 | | | - |

### What is hard, and what would make each component correct

* **Payments.** Two attempts, a callback that comes twice, late, never or with another
  status, a manual verification, an answer lost after bKash captured, a process that
  dies in between: money that bKash has captured must be settled, once, at the amount
  captured; what does not fit the schedule must be kept as excess.
* **Refunds.** Three steps, the middle one at bKash: refunds under way and booked must
  stay within the payment, and what is taken back must be what was allocated.
* **The ledger.** Payments, refunds, corrections, late fees and cancellation interleave:
  installments must keep adding up to the payable amount (otherwise every later
  transaction aborts), never be paid beyond their amount, and be paid by what was
  allocated and nothing else. Every report of it must say the same.
* **Late fees.** Candidates are read without a lock and charged later, by runs that may
  overlap: an installment is to be charged once, and only while it is owed.
* **Arithmetic.** Rounded splits and percentages must lose nothing; reductions must not
  reach into what is paid; waivers are capped at tuition; what is shown is what is billed.
* **Admission.** Reviews, settlements and requests of the student race for one
  application, its invoices and its student ID, in steps that may stop half way; the
  dashboard must not send a student where the services refuse.
* **One-off fees.** The ID card may be priced on a policy of any invoice type, and the
  invoices are issued under locks of their own: it is to be charged once.
* **Enrollment.** A seat counter is kept beside the rows it counts; checks are made
  statements before the write, against rows, counts and capacities read earlier - and nothing
  keeps one student's requests from overlapping.
* **Results.** A check for published results before their upserts; a cache that is
  written after it was invalidated.
* **Semester billing.** Credits read once for a run that takes long, beside other runs,
  enrollments and cancellations: no credit and no fixed fee is billed twice.
* **Accounts.** Codes and data of a registration in Redis under one e-mail, with
  expirations of their own, overwritten by whoever comes next: a password must be
  earned by a verified e-mail and, for instructors, a review.
* **Timetable, policies, tokens.** A class checked against all that its teachers teach;
  an update merged from a read; a token cached by a write that came late.

`PROJECT.json` lists each of these hazards at its line, with the properties about it.

## 2. The modules

| Module | What it is |
|---|---|
| `Billing` | The algorithms of `lib/billing.ts` as operators on schedules: functions from installment numbers to amount and paid amount, in minor units. The `for` loop of `allocatePayment`, `reverseAllocations` and `applyDelta` is one recursive function, `Left`: the money left after each installment took its part. |
| `FeeItems` | Which fee policies apply, and the items they make of an invoice or of the fees shown. |
| `BillingLaws` | Loop-free statements of what both compute, and a specification whose every step is one legal input. |
| `PaymentBook` | The abstract promise of the payment module: a payment is captured once, settled once, refunded within its capture. |
| `InvoiceBook` | What the rest of the server relies on of an invoice: owed or paid, back and forth, until it is cancelled for good; confirmed only by a payment booked while it is live and paid. `PaymentLedger` implements it, `Admission` lets its bills take these steps. |
| `PaymentLedger` | One invoice with its payments, refunds, corrections, late fees and handlers; shown to implement `PaymentBook` and `InvoiceBook`. EXTENDS `Billing`. |
| `LedgerReports` | What the summary, the gate, the reports and the dashboard read from that invoice. EXTENDS `PaymentLedger`. |
| `Enrollment` | Sections of one semester, their seats, the students' enrollments, the semester's status. |
| `Grades` | The grade points of percentages, shared by the two below. |
| `Results` | Exams, results, attendance, and the GPA with its cache. |
| `Transcripts` | Three readers of one book of results: the transcript shown (through the cache of GPAs), the official one, the result sheet. |
| `Admission` | Applications, one-off invoices, confirmation, settings; the dashboard and the ID-card page. |
| `IdCardCharges` | The invoices of one student that an ID card fee may be on, while the policies change. EXTENDS `FeeItems`. |
| `SemesterBilling`, `Accounts`, `Teaching`, `FeePlans`, `GatewayTokens` | Five services with a state of their own. |
| `MCBillingLaws`, `MCPaymentLedger`, `MCEnrollment`, `MCResults`, `MCAdmission` | The instances for TLC. That of `Enrollment` has three sides (`focus`): a section and its office, the requests of students for it, the courses. |
| `MCServices` | `MCBillingLaws`, `Transcripts`, `IdCardCharges` and the five services side by side; `focus` says which one runs in a behaviour, so that the states explored are the sum of the eight and not their product. |
| `BillingProofs` | Facts about sums over finite sets, and about the loops and splits of `Billing`. |
| `PaymentLedgerProofs`, `SettlementProofs`, `PaymentBookProofs`, `EnrollmentProofs`, `AdmissionProofs`, `ResultsProofs`, `ServicesProofs` | The proofs, section 4; `ServicesProofs` has a section for each service of `MCServices` and one for the billing laws. |

In all of them a request is a record in a variable (`handler`, `staff`, `client`, ...):
where it is between two statements, and what it has read. Each `await`ed statement is
an action; a database transaction is one action when a lock it takes first, or a
single conditional update, orders it with the others. The process may stop between any
two (`HandlerDies`, `StaffDies`, `RunDies`, ...). Reads that are not followed by a
decision, audit rows, mails and response bodies are left out.

Definitions named `X_Y` after a mapped `X` are mutants: the code of `X` with a plausible
bug, used to see that each property can fail. No specification uses them.

### How `PaymentLedger` corresponds to the code

**State.** `schedule`, `invoice`, `adjustment`, `lateFees`, `tx`, `refund` are the rows of
the tables (`prisma/schema/payment.prisma`); the allocation rows of a payment are the
`alloc` function in its `tx` record. `confirmed` is `StudentProfile.admissionConfirmedAt`.
`overdue` is what the clock says of the due dates. `handler`, `refunding` and `charging`
are what requests hold in memory: where they are between two statements, and what they
have read. `gateway` and `gatewayRefunds` are bKash's own records (external).

**Atomicity.** `settleTransaction`, steps 1 and 3 of `refundTransaction`, `addAdjustment`,
`cancelInvoice` and each charge of `applyLateFees` run in a transaction that takes the
row lock of the invoice first (`lockInvoice`, `SELECT ... FOR UPDATE`): each is one
action. Any other statement and each call to bKash is an action of its own:

| Handler | Actions, in the order of the code |
|---|---|
| `initPayment` | `InitPaymentRead` (checks, amount) -> `InitPaymentInsert` |
| `bkashCallback`, success | `CallbackRead` -> `CallbackMarkPending` -> `ExecuteConfirmed` / `ExecuteAnswerLost` / `ExecuteFailed` -> `QueryCompleted` / `CallbackUnconfirmed` -> `Settle` / `SettleAlreadyDone` |
| `bkashCallback`, other status | `CallbackAbandonRead` -> `CallbackAbandon` |
| `verifyTransaction` | `VerifyRead` -> `QueryCompleted` / `VerifyUnanswered` -> `Settle` / `SettleAlreadyDone` |
| `refundTransaction` | `ReserveRefund` -> `RefundConfirmed` / `RefundAnswerLost` / `RefundRefused` -> `BookRefund` / `BookRefundAborts` / `RefundFails` |
| `addAdjustment`, `cancelInvoice` | `AddAdjustment`, `CancelInvoice` |
| `applyLateFees` | `LateFeesScan` -> per candidate `LateFeesCharge` / `LateFeesSkip` |
| any | `HandlerDies`, `RefundDies`, `LateRunDies` |

`recomputeInvoice` ends every writing transaction; it is the operator `Recomputed`, part
of each of these actions. It throws when installments do not add up to the payable
amount. The actions have no such branch; `LedgerAddsUp` says it cannot be reached.

**Abstractions.** A callback with status "success" is taken when the customer has been to
bKash's page and approved; a capture may come without an answer; a query fails or
reports another status at will. The three mismatches of `settleTransaction` (amount,
payment id, currency) are one, an amount that differs by a member of `CaptureDrift`:
they have the same effect. Waivers are part of the amounts an invoice is issued with.
The tokens are left to `GatewayTokens`: losing one makes a call fail, which is modelled.

`LedgerReports` adds no state: each report is an operator on the rows it selects, in the
order of its own filters, and `ReportsAgree` compares them in every state of the ledger.

### How the other modules correspond to the code

**`Enrollment`.** `section` holds the `Section` rows with the counter `enrolledCount` (and
the largest capacity there has been, a history variable), `status` the `Enrollment` rows,
`semester` the status of the semester; `grade` is what published results say of a student
(external here, `Results` models them). `raced` is history: `<<s, c, d>>` once requests of
student s for sections c and d have been in flight together. No action looks at it; the
properties do, to say what is lost only then.

| Handler | Actions |
|---|---|
| `createEnrollment` | `EnrollReadSection` (student, gates, window, section) -> `EnrollReadExisting` -> `EnrollCheckDuplicate` -> `EnrollCheckPrerequisites` -> `EnrollCommit` / `EnrollAborts` |
| `dropEnrollment` | `DropRead` -> `DropCommit` |
| `withdrawEnrollment` | `WithdrawRead` -> `WithdrawCheckResults` -> `WithdrawWrite` |
| sections | `createSection`; `UpdateSectionRead` -> `UpdateSectionWrite`; `DeleteSectionRead` -> `DeleteSectionWrite` |
| `updateSemesterStatus` | `SemesterStatusRead` -> `SemesterStatusWrite` |

`EnrollCommit` compares the counter with the capacity *read earlier*, as `updateMany` in
the code does. The enrollment window and the gates (dues, admission) are an input: a
request may or may not pass them. Deleting a section fails on the foreign key of rows.

**`Results`.** `result` and `audit` are the `Result` and override rows, `exams` the exams,
`cache` the Redis key of a GPA, `sessions` and `attended` the attendance. `submitResults`
is `SubmitCheckEnrolled` -> `SubmitCheckPublished` -> `SubmitWrite`; `publishExamResults`
is `PublishCheckDrafts` -> `PublishWrite` -> `Invalidate`; `overrideResult` is
`OverrideRead` -> `OverrideWrite` -> `Invalidate`; `computeSemesterGpa` is `GpaCacheMiss` ->
`GpaReadEnrollments` -> `GpaReadWithdrawals` -> one `GpaReadSection` for each section ->
`GpaWrite`. Every Redis call may fail and is then as if the key were absent. `GpaExpires`
is the expiration of the key. A section that was read keeps, as history, the exams whose
marks entered its grade point (`from`). Who may enter results of which section is an input.

**`Admission`.** `bills` are the one-off invoices of a student by kind, each with its status;
a payment is abstracted to the transaction that settles it (`SettleRead` takes the lock of
the invoice and reads the profile, `SettleWrite` books the bill and confirms), and
`BillMoves` is what corrections, refunds and cancellation do to a status: any change of a
live bill, the `Moves` of `InvoiceBook`. A settlement finds a live bill, not always an unpaid
one: a payment begun before a correction took off all that was owed is booked as excess, and
confirms all the same. `reviewApplication` is `ReviewRead` -> `ReviewCheckFees` ->
`ReviewFlip` (conditional on SUBMITTED) -> `ReviewIssue` (-> `ReviewFind` after null) -> `ReviewLook` -> `ConfirmRead` ->
`ConfirmWrite`.
Settings and fee policies change at any time. `nextStep`, `steps`, `CardPage` and the
gates are operators on the rows, as the dashboard and the services compute them.

**`SemesterBilling`.** A run reads the credits of all payers (`RunRead`) and bills them one
by one (`BillStudent`, `SkipStudent`), each under the student's advisory lock, comparing
with the live invoices of that moment. An invoice keeps its credits and whether it has
the fixed fees and a waiver of a fixed amount.

**`Accounts`.** One e-mail address: the `User` row, the three Redis keys, and the requests of
`registerStudent`, `verifyStudentEmail`, `applyAsInstructor`, `verifyInstructorEmail`,
`reviewInstructorApplication`, `googleLogin`, `completeProfile`, `forgotPassword`,
`resetPassword` and `changePassword`, each write an action. A password is the request
that chose it; a code is a number never used before.

**`Teaching`.** `createRoutineEntry` reads the section's teachers, all sections they teach, and
their routines, and then creates (`PlanTeachers` -> `PlanSections` -> `PlanRoutines` ->
`PlanCreate`); `updateSection` changes lead and co-instructors (`EditRead`, `EditWrite`).

**`FeePlans`.** `createInstallmentPolicy` and `updateInstallmentPolicy`, each statement an action,
and `resolvePlanSnapshot`, the policy an invoice of a semester is split by. The fields
not sent are merged from a read (`Merged`).

**`GatewayTokens`.** A request finds the id_token, or a refresh token, or asks for a grant; what
it gets is written by `CacheIdToken` and `CacheRefreshToken`, which may happen after the
call has timed out. `TimePasses` ages keys and tokens in a common unit.

**`Transcripts`.** `book` moves as `Enrollment` and `Results` move their rows; the readers are
operators on it. `cache` is the Redis key of each semester: a miss is computed and stored in
one step (`Caches`; `Results` has the steps in between), publishing and overriding delete it
if Redis lets them, and drops, withdrawals, entering and new exams do not.
`getTranscript` returns every semester with an enrollment of any status, null where there is
no GPA; `buildTranscriptData` leaves such semesters out, and has 0 for null. A GPA is a pair of points
and credits: the two services round the quotient in ways that differ at some ties.

**`IdCardCharges`.** `received` are the invoices of one student, with their type, whether they are live
and whether there is an ID-card item on them; what is on them is computed by `FeeItems` from
the policies of that moment, `rates`. Each action is a transaction under the advisory lock of its
kind. Money on an invoice is left out, so any may be cancelled. An older ADMISSION
invoice may have the card on it, as createIdCardInvoice provides for.

## 3. What TLC checks

| Run | Question | Instance | Distinct states |
|---|---|---|---|
| `ledger` | Two attempts, two handlers and two refunds race on one admission invoice, with lost answers, deaths and cancellation. `TypeOK`, `SettledWasCaptured`, `PaidIsAllocated`, `CapturedIsAccounted`, `RefundsWithinPayment`, `CancelledHoldsNoMoney`, `SettledForGood`, `PaymentsAreBooked`, `InvoiceIsBooked` | installments 1 + 1, partial payments allowed | 607 563 |
| `latefees` | Two overlapping late-fee runs, corrections up and down, a payment, its refund, cancellation. `PaidWithinAmount`, `LedgerAddsUp`, `ReportsAgree`, `LateFeeOnce` | semester invoice, advance 2 + 1, fee 60 percent | 1 272 931 |
| `liveness` | Is captured money settled in the end? `CapturedIsSettled` | one attempt, two handlers, fairness below | 1 881 |
| `enrollment` | Are seats counted and bounded, rows kept, and how does a student get into a course twice? `TypeOK`, `SeatsMatch`, `SeatsBounded`, `TwiceOnlyByRace`, `RowsAreKept` | one of: a section that is created, resized to 1 or 2 seats and deleted, with a request each of 2 students; that section and 3 requests, 2 of them of one student; 2 requests of one student for course A in two sections and B, which requires it. 1 administrator | 760 102 |
| `results` | What do publications, overrides and the cache show? `TypeOK`, `RecordsOfParticipants`, `CacheShowsPublished`, `PublishedForGood` | 1 student, 1 section, 2 exams, 2 staff requests, 1 reader | 1 404 829 |
| `admission` | Is a student charged, confirmed and directed rightly? `TypeOK`, `OneLiveBill`, `NothingBeforeApproval`, `NextStepIsPossible`, `DecisionsStand` | 1 student, 2 requests, 2 invoices of a kind, 2 settings, 2 sets of policies | 1 228 504 |
| `services` | Do the billing loops compute what their loop-free definitions say, and are the fees shown those billed? `PaymentsAreWaterfalls`, `DeltaKeepsPaidMoney`, `InstallmentsAreSound`, `WaiversCappedAtTuition`, `ShownIsBilled`. And one property for each of seven services: `BilledOnce`, `PasswordsAreEarned`, `TimetableIsSound`, `PlansStayValid`, `TranscriptsAgree`, `TokensAreAlive`, `CardNotRecharged` | arithmetic: 3 installments of 0 to 2; all payments, refunds, deltas, plans, dates and waiver pairs; pairs of fee policies of every scope, triples that apply to an admission; billing: 1 payer, 2 runs, 2 credits; accounts: 2 requests, 3 codes; teaching: 2 sections, 2 instructors, 1 planner, 1 editor; plans: 1 semester, 1 request, 2 policies; transcripts: a section with 2 exams and one with 1, 2 semesters, any cached GPAs; tokens: 2 requests; card: 1 student, 4 invoices, 6 sets of policies | 940 479 |
| `latefee_stale`, `refund_lost`, `result_rewritten`, `student_id`, `course_twice` | expected violations, findings 1 to 5 | one run, one refund, one exam, one student; one course in two sections | - |

**Bounds, and why they are enough.** Two actors of each kind give every pairwise race
(two settlements of one attempt, two attempts on one schedule, two refunds of one
payment, two late-fee runs, two students at the last seat, two requests of one student, a
review and a settlement).
Two installments are what it takes to tell an order of allocation from another; three
in the arithmetic of `services`, where the loops have a middle. The advance plan makes the late fee fall on
the first installment, after which money is no longer owed from the tail only.
`MaxPayable` caps corrections, `MaxOverrides` the audit rows of a result, `MaxBills` and
`MaxInvoices` the invoices of a student (a second one is what a reissue after a
cancellation takes), `MaxReceived` those an ID card may be on (the older one, one of the card, one
of a semester and a reissue), `MaxCodes` the one-time codes, `MaxClasses` and `MaxPolicies` the
rows created. `Lowest` keeps a student who drops one seat again and
again from taking a counter down without end: no drop begins at a counter of 0 or below, which
two drops begun at 1 still reach. Overlapping requests of one student are checked while
the office rests, and beside a section that is resized and deleted each student has one
request at a time; together they are only in the proofs. Interchangeable model values are
a symmetry set in safety runs only.
`CHECK_DEADLOCK FALSE` everywhere: an
invoice whose attempts are used up, or a service whose bounded rows are created, has
nothing left to happen.

**Conditions stated in the properties.** Nothing serialises the requests of one student, and
two of them about one section break what holds between students: the counter
and the finality of a withdrawal (section 5), and one section of a course
(`course_twice`). The instances let a student have two requests in flight; what the properties
promise is conditioned on `raced`, per section (`OneAtATime`) and per student, and not on there being
no such request. Bounds that no race breaks, as the counter within the largest capacity, are
stated without it. `TranscriptsAgree` compares the two transcripts in the semesters whose
cached GPA is what would be computed now (`Fresh`); after a drop, a withdrawal or a new exam
the one shown may be out of date for a day. `TimetableIsSound` speaks of the classes as long as nobody changes
who teaches, nor plans two entries at once; `PlansStayValid` of one administrator at
work; `TokensAreAlive` of Redis storing a token no later than the five minutes the key
expires before it. Beyond these conditions the code promises nothing, and does not hold.

**Fairness (`liveness`).** `WF` on a handler's own next step: a call to bKash returns or
times out (`BKASH_HTTP_TIMEOUT_MS`) and Node runs the continuation. `SF` on `VerifyRead`
stands for a person or a repeated callback looking at an unsettled payment again and
again (`verifyTransaction` exists for that, payment.service.ts:373); `SF` on
`QueryCompleted` for bKash answering some of these queries; `SF` on `Settle` for a
process that does not die each time it is about to settle. Nothing is assumed of the
callback: it may never come, fail, or die.

## 4. What is proved

For any number of installments, attempts, handlers, refunds and late-fee runs, any
amounts, any late-fee rule (`NAssumption`, `LedgerAssumption`: the attempts and the
refunds are finite sets, amounts are natural numbers, corrections and drifts integers):

| Theorem | Module | States |
|---|---|---|
| `AllocationComplete`, `ReversalExact`, `DeltaExact` | `BillingProofs` | the three loops lose and invent nothing and stay within balances |
| `TypeCorrect` | `PaymentLedgerProofs` | `Spec => []TypeOK`; in particular no amount becomes negative |
| `PaidIsWhatWasAllocated` | `PaymentLedgerProofs` | `[]PaidIsAllocated` |
| `OnlyCapturedIsSettled` | `PaymentLedgerProofs` | `[]SettledWasCaptured` |
| `NeverPaidBeyondAmount` | `SettlementProofs` | `[]PaidWithinAmount` |
| `LedgerNeverMismatches` | `SettlementProofs` | `[]LedgerAddsUp`: `recomputeInvoice` never throws |
| `CancelledStaysEmpty` | `SettlementProofs` | `[]CancelledHoldsNoMoney` |
| `ChargedOnce` | `SettlementProofs` | `LateFeeOnce` |
| `NothingDisappears` | `SettlementProofs` | `[]CapturedIsAccounted` |
| `NeverRefundedBeyondPayment` | `SettlementProofs` | `[]RefundsWithinPayment` |
| `SettledIsFinal` | `SettlementProofs` | `SettledForGood` |
| `LedgerImplementsBook` | `SettlementProofs` | `PaymentsAreBooked`: the refinement of `PaymentBook` |
| `LedgerImplementsInvoiceBook` | `SettlementProofs` | `InvoiceIsBooked`: the refinement of `InvoiceBook` |
| `NobodyIsToldOtherwise` | `SettlementProofs` | `[]ReportsAgree` |
| `CaptureBoundsAll`, `SettledStays` | `PaymentBookProofs` | the promises of `PaymentBook` |

For any finite set of students and any sections, courses, capacities and requests
(`EnrollmentAssumption`), any number of them of one student in flight; where overlapping
requests of one student matter the property says so:

| Theorem of `EnrollmentProofs` | States |
|---|---|
| `EnrollmentTypeCorrect` | `[]TypeOK`; the counter becomes negative only where requests of one student raced |
| `CounterIsExact` | `[]SeatsMatch` |
| `SeatsStayBounded` | `[]SeatsBounded` |
| `NoCourseTwiceWithoutRace` | `[]TwiceOnlyByRace` |
| `RowsStay` | `RowsAreKept` |

For any finite set of students, any requests, settings and fee policies
(`AdmissionAssumption`):

| Theorem of `AdmissionProofs` | States |
|---|---|
| `AdmissionTypeCorrect` | `[]TypeOK` |
| `OneInvoiceOfAKind` | `[]OneLiveBill` |
| `ApprovalComesFirst` | `[]NothingBeforeApproval` |
| `StudentIdsAreUnique` | no two students hold one student number |
| `DecisionsAreFinal` | `DecisionsStand` |
| `NobodyIsStuck` | `[]NextStepIsPossible` |

For any students, sections, exams, staff and readers (`ResultsAssumption`):

| Theorem of `ResultsProofs` | States |
|---|---|
| `ResultsTypeCorrect` | `[]TypeOK`; every percentage has a grade point |
| `RecordsAreOfParticipants` | `[]RecordsOfParticipants` |
| `CacheNeverDisclosesDrafts` | `[]CacheShowsPublished` |
| `PublishedIsFinal` | `PublishedForGood` |

For any constants of each service (the named assumption of its module, which says that
times, credits and bounds are numbers and that the null values are not members):

| Theorem of `ServicesProofs` | States |
|---|---|
| `TokensStayAlive` | `[]TokensAreAlive` |
| `PasswordsStayEarned` | `[]PasswordsAreEarned` |
| `PlansAreValid` | `[]PlansStayValid` |
| `TimetableStaysSound` | `[]TimetableIsSound` |
| `CreditsAreBilledOnce` | `[]BilledOnce` |
| `TranscriptsNeverDisagree` | `[]TranscriptsAgree` |
| `PaymentsFillInOrder` | `[]PaymentsAreWaterfalls` |
| `CorrectionsKeepPaidMoney` | `[]DeltaKeepsPaidMoney` |
| `PlansSplitExactly` | `[]InstallmentsAreSound` |
| `WaiversNeverExceedTuition` | `[]WaiversCappedAtTuition` |
| `BillsAreAsShown` | `[]ShownIsBilled` |
| `CardIsNeverRecharged` | `[]CardNotRecharged` |
| `ServicesRunAlone` | the composition implements the eight specifications, so that what is proved of each holds of all |
| `ServicesKeepTypes` | `[]ServicesTypeOK`, given a section that may be offered and a time of day (`Offered # {}`, `Times # {}`): an idle request holds an arbitrary entry of the timetable, so there has to be one |

The laws are stated for the calls `BillingLaws` can make: `MaxAmount` and the sets `Totals`,
`Plans`, `Waivers`, `RateCards` and `Contexts` are constants, so the theorems hold for all
amounts, plans, waivers and policies; a list of waivers has two, due dates range over
0..12, `now` over 0..14, and the credits billed over 0..2, as in the module.

**The argument: the ledger.** None of these is inductive alone. `IInv`
(`PaymentLedgerProofs`) joins `TypeOK` with what it needs: booking a refund subtracts from
an allocation and from an installment, and stays in `Nat` only because what is taken back
was allocated and paid (`PaidIsAllocated`), by a payment that is settled (`RefundsSound`)
and not by one that holds nothing (`UnsettledIsEmpty`); a capture may be settled because
the handler that holds it remembers bKash's own amount (`HandlersSound`,
`SettledWasCaptured`). There is one lemma per action or group of actions that write the
same rows.

Two invariants are laid over it, each with `IInv` known on both sides of a step.
`Balance` needs a lemma for the five actions that write the invoice; every other step
leaves it alone (`LedgerWriters`). `Accounts` relates payments to their refund rows and
bKash's captures; every step is quiet, or settles, or reserves, gives up or books a
refund (`StepKinds`), and the refinement of `PaymentBook` reuses that classification. The one
of `InvoiceBook` needs of the five writers that none takes a cancellation back
(`CancelledForGood`, shown with `Balance`), and that only a settlement confirms
(`ConfirmedWriters`): it leaves the invoice paid, so that it was not cancelled before
(`StepIsSeen`).

**The argument: enrollment.** The counter is exact only because what a request has read
is still true when it writes: `HandlersKnow` says that a request past its checks is of a
student whose row is what it has read, and who has another section of the course only by a
request that was in flight with this one; and that one about to drop or withdraw still has
the enrolled row. Other students' requests do not touch that row. Another request of the
same student may, and then it is on record: `RacesKnown` says that `raced` has every pair in
flight, so that a request that is `Alone` has its rows to itself. With that, a commit adds
one student to the seated ones and a drop removes one, and the cardinalities follow the
counter of every section `OneAtATime`. Of the others remains that the counter is below the
capacity a request remembers, which the section has had (`CountsBounded`). `RowsOffered` (a
row is of an existing section) is what the foreign key keeps.

**The argument: admission.** A request that holds the lock of a live bill (`LocksHeld`)
finds it live when it writes; what each step of a review, a settlement or a
confirmation has behind it is `HandlersSound` - in particular that one about to issue an
admission invoice, or to confirm, is of a student some review has approved. `AtMostOneLive`
is stated on pairs of bills, and the cardinality of the property follows from it.

**The argument: what is told.** `NobodyIsToldOtherwise` follows from the three invariants of
the ledger: the dues are the unpaid parts of the installments (`DebtIsOwed`), which
`Balance` relates to the stored totals the reports read, and the money kept is exchanged
from a sum over payments of allocations to a sum over installments of paid amounts
(`KeptIsCollected`, by `SumExchange`). `NobodyIsStuck` needs no more than the
types: it compares the dashboard's rules with those of the gates, case by case, in any
state of settings, policies and bills (`OneCurrentStep`, `FeeCanBePaid`, `CardPageHolds`).

**The argument: results.** What a reader of the GPA has gathered is `Disclosed`: each of its
grade points was made from exams of that section, all of them published for the student. That
stays true while exams are added and results overridden, because a published result stays
published; the cache is written from nothing else. What staff are about to write was checked against enrollments there
were (`StaffSound`), and enrollments are never deleted.

**The argument: the services.**

* *Tokens*: what a key of Redis has left is no more than what its token has
  (`TokenOutlivesKey`), until a write comes later than the difference.
* *Accounts*: what a request read of a row before it writes is still true then (`Informed`):
  passwords, verified e-mails and reviews do not go away; a code that resets a password
  was sent to somebody who had one (`AccountSound`).
* *Plans*: a request about to write holds a valid row, together with what the row it merges
  into holds now (`Filed`), which takes the single administrator.
* *Timetable*: what a request has read of teachers, sections and classes is true when it
  writes (`Prepared`), while nobody disturbs it.
* *Semester billing*: credits on live invoices, and credits a run holds, are within the
  peak the student has had (`WithinPeak`); a first invoice is the only one with fixed fees.
* *Transcripts*: the readers select the same rows and weigh them alike (`SameCourses`,
  `SameWeight`), with the cached GPAs for the computed ones where they are the same; of the
  state nothing but `TranscriptsInv` is needed. That the bands of both services give one grade
  is `SameGrades`.

**The argument: the laws.** `Left` is a recursive function, so that it exists and unfolds is
`RecursionExists`; the waterfall, the exact split and the correction are then inductions
over installment numbers, with the loop's state as the hypothesis (`TakesInOrder`,
`TakesTotal`, `OneWaterfall`, `EqualSplitExact`). `BillsAreAsShown` rests on `PickIsCandidate`: the
order of `pickPolicy` is total and transitive, so that finitely many policies have a first. It says
what is on each invoice. Over all invoices of a student an item can come twice; for the
ID card this is `IdCardCharges`, where `CardNotRecharged` is inductive with the types: an
invoice is appended with the card on it only when none has it (`CardCovered`), or it is of a
type the property excepts, and the admission invoice leaves it out (`AdmissionHasNoCard`).

Sums over refunds, payments and installments are those of the community module; that
they are integers, split, exchange, and change with one term is proved in
`BillingProofs`, by induction over natural numbers where a property is the set of the
numbers that have it (`SetInduction`), which needs no induction rule with an operator
parameter.

**Only model-checked:** liveness under fairness, `CapturedIsSettled`: the
prover does not reason about `ENABLED`. Every other property of a
passing run is stated by a theorem. `ServicesTypeOK` is only proved: no run repeats it.
**Checked to fail:** the five findings.

## 5. Findings

1. **A late fee is charged from a stale scan** (`latefee_stale`,
   invoice.service.ts:799-840). `applyLateFees` computes the fees from an unlocked read
   and charges each under the lock without looking again: an invoice that was cancelled,
   or an installment that was paid meanwhile, is charged. A cancelled invoice gets a
   payable amount again, though `addAdjustment` refuses to adjust it (:586).
2. **A refund whose answer is lost can be made twice** (`refund_lost`,
   payment.service.ts:465). Any error of `refundPayment`, its own timeout included, marks
   the row FAILED and frees the amount it had reserved, although bKash may have returned
   the money. `RefundsWithinPayment` still holds of the server's own rows; bKash's limit
   at the captured amount is what stops the second refund, when it is of all of it.
3. **A published result is rewritten without an audit row** (`result_rewritten`,
   result.service.ts:81-96). `submitResults` checks for published results and upserts in a
   later transaction that does not look at the status: a publication in between is
   rewritten, which the comment at :78 says cannot happen.
4. **A student ID is replaced by another** (`student_id`, lib/admission.ts:35-41).
   `confirmAdmission` reads the student before it takes the lock of the numbers: a review
   and a settlement that both read no ID both write one, and the second stands. The
   comment at :31 says a second call changes nothing. IDs stay unique all the same
   (`StudentIdsAreUnique`); a number is lost, and a mail may have named it.
5. **A student gets two sections of one course** (`course_twice`, enrollment.service.ts:126).
   The look for another section of the course is made statements before the row is written,
   and the unique key is on the section: two requests of one student both pass it. The code
   answers "Already enrolled in another section of this course this semester" (:136), and
   the billing of module/Fee relies on it (module/Fee/invoice.service.ts:56).
   `TwiceOnlyByRace`, checked and proved, says that there is no other way.

Seen, and not the subject of a run:

* A section may have more seats taken than its capacity (section.service.ts:248-291).
  `updateSection` compares the new capacity with a count read in an earlier statement and
  writes unconditionally, and the seat check of an enrollment compares the count with a
  capacity read when the request began (enrollment.service.ts:156): either way
  `enrolledCount > capacity`, which the comment at section.service.ts:245 sets out to
  prevent. `Enrollment` takes these steps; `SeatsBounded`, checked and proved, is what
  remains true.
* A double drop oversells a section (enrollment.service.ts:194-213). `dropEnrollment` checks
  that the row is ENROLLED outside its transaction and decrements the counter
  unconditionally: two drops of one enrollment by one student free two seats for one, and
  the section seats more students than it has ever had seats. The seat check (:151) relies
  on the counter, which is then below the rows. `SeatsMatch` and `SeatsBounded` say that
  only such requests do this (`OneAtATime`).
* An ID card can be charged twice (invoice.service.ts:325). `createFeePolicy` takes an ID_CARD
  item on a SEMESTER policy; the semester invoice then bills the card with the rest, every
  semester, to a student who has the card's own invoice, though the card is "never charged
  twice" (lib/billing.ts:108) and "billed on its own invoice, never bundled" (enum.prisma:87).
  An APPLICATION policy does the same when the application invoice comes after the card's.
  `CardNotRecharged`, checked and proved, is what holds: the card and the admission
  invoice are never the second charge.
* A withdrawal does not show on the transcript at once (result.service.ts:278). A cached payload
  is returned as it is and withdrawing deletes no key: for up to a day the course is shown
  as taken, and not as "W" (comment at :289). `Results` takes these steps, and `Fresh` in
  `TranscriptsAgree` leaves them out.
* A `reverseCharge` refund that passes the check beside a pending one is paid out by bKash
  and then rolled back in step 3, and a process that dies between steps 2 and 3 leaves the
  row PENDING; no operation picks such a row up. The model takes both steps
  (`BookRefundAborts`, `RefundDies`), and every property holds through them.
* A withdrawal that overlaps a drop and an enrollment of the same student for the section may
  be taken back, as all write the row by its id (enrollment.service.ts:214, :266).
  `RowsAreKept` says so.
* Entering draft results and creating an exam delete no cached GPA: the grade shown of a
  course with a new exam stays for up to a day, while the official transcript leaves the
  course out (`Fresh` in `TranscriptsAgree`).
* Where nothing is graded the transcript shown has null for the total (result.service.ts:400),
  the official one 0 (transcript.service.ts:141); the one shown lists the semester without a
  GPA, the official one leaves it out.
* `updateApplication` writes SUBMITTED unconditionally after its check
  (admission.service.ts:94): an approval in between is taken back, with its invoice
  issued. `DecisionsStand` therefore allows SUBMITTED.
* A process that dies between the approval and the confirmation leaves an approved
  student whom the dashboard sends to enroll and the gate refuses (admission.service.ts:262);
  an ADMISSION invoice that becomes PAID by a correction confirms nobody
  (invoice.service.ts:619), unless a payment begun before is settled after. No other step
  repairs either.
* An instructor whose code was deleted before the row was marked verified can neither
  verify nor apply again (Instructor.service.ts:185, :91).
* The instructor's dashboard compares the number of all results of an exam with the number
  of enrolled students (dashboard.service.ts:469): the results of students who have left
  hide as many missing ones.
* `updateSemesterStatus` reads, then writes (semester.service.ts:163): of two administrators
  the later one can reopen what the other has closed. No property depends on it.
* The admission's schedule names the ID card among its lines, from a policy of its own scope;
  the invoice picks among the policies of every scope (invoice.service.ts:120). A more
  specific ID-card policy whose amount `updateFeePolicy` has set to 0 then makes the card
  free, whatever the schedule shows. `ShownIsBilled` says so (`FreeCards`); the case came up
  in the proof, and the instance now has such a policy.
* `getSectionAttendance` refuses the co-instructors of a section and lets other
  instructors read (attendance.service.ts:142); `getMyRoutineAsInstructor` shows the
  sections an instructor leads only (routine.service.ts:139). Both only read.

## 6. The plan

What is left, the most valuable first.

| What | How | Why it is not there |
|---|---|---|
| Each bill of `Admission` as an `InvoiceBook` | an instance per student, kind and bill, with the confirmation read off the settling request | the statuses follow the steps of `InvoiceBook` action by action today; the student number is one for all bills of a student |
| A seat promised by an abstract specification | students take and leave seats of sections, `Enrollment` as its implementation, with the invariant of `EnrollmentProofs` | the safety properties say the same today, action by action |
| Retries of a refund that stays PENDING | an action of an operator, when the code gets one | the code has none |
| The enrollment window | dates of a semester in `Enrollment` | an input now, which allows more than the dates do |

## 7. Not modelled, and why

* **Sessions** (`middleware/auth.ts`, `utils/jwt.ts`, login and refresh): signed tokens that
  carry their claims; nothing is stored for two steps to disagree about.
* **Profile pictures and profile fields**: an upload and a row write that no other
  component reads (`updateProfileImage` destroys the old picture before the row is written).
* **Directory** (courses, departments, announcements, public pages, audit log): single
  writes behind an existence check, and lists. `updateCourse` allows circular
  prerequisites; the models take prerequisites as constants.
* **Creating semesters and changing their dates**, fee policies and waivers: single writes,
  whose effect the models let happen at any time.
* **Lists, counts on dashboards, PDFs and mails**: only read or leave the system. The
  rounding of a GPA to hundredths is formatting here.
* **HTTP layer**: validation and roles are the precondition of an action's inputs.
* **Legacy fee module** (`module/Fee`, `lib/Installments.ts`): its routes are not mounted.

`PROJECT.json` lists each component with its status.
