--------------------------- MODULE SemesterBilling ---------------------------
(***************************************************************************)
(* The invoices of one semester (module/invoice/invoice.service.ts:        *)
(* generateSemesterInvoices, generateMySemesterInvoice, cancelInvoice).    *)
(*                                                                         *)
(* A run reads the enrollments in one statement, and then bills student by *)
(* student, each in a transaction of its own under the student's advisory  *)
(* lock.  Students add and drop courses, and the office and the students   *)
(* start other runs, meanwhile.                                            *)
(***************************************************************************)
EXTENDS Integers, Sequences, FiniteSets, FiniteSetsExt, Functions

CONSTANTS
  Payers,       \* students with courses in the semester
  Runs,         \* runs in progress
  MaxCredits,   \* bound on the credits of one student
  MaxInvoices   \* bound: with so many invoices of a student none is cancelled

ASSUME SemesterBillingAssumption ==
  /\ IsFiniteSet(Payers)
  /\ MaxCredits \in Nat /\ MaxInvoices \in Nat

VARIABLES
  credits,    \* external: the credits of the courses a student is ENROLLED in
  peak,       \* history: the most credits the student has had
  invoices,   \* SEMESTER FeeInvoice rows of a student, in order of creation
  rate,       \* whether a tuition rate is configured
  waiver,     \* whether a student has an active waiver of a fixed amount
  run         \* runs: the credits read of the students still to be billed

semesterBillingVars == <<credits, peak, invoices, rate, waiver, run>>

\* full: tuition and fixed fees; otherwise supplementary, tuition only.
SemesterInvoice == [billedCredits : Nat, full : BOOLEAN, fixedWaiver : BOOLEAN,
                    live : BOOLEAN]
Batch == UNION {[S -> 1..MaxCredits] : S \in SUBSET Payers}

SemesterBillingTypeOK ==
  /\ credits \in [Payers -> 0..MaxCredits]
  /\ peak \in [Payers -> 0..MaxCredits]
  /\ invoices \in [Payers -> Seq(SemesterInvoice)]
  /\ rate \in BOOLEAN
  /\ waiver \in [Payers -> BOOLEAN]
  /\ run \in [Runs -> Batch]

NoBatch == [s \in {} |-> 0]

SemesterBillingInit ==
  /\ credits = [s \in Payers |-> 0]
  /\ peak = [s \in Payers |-> 0]
  /\ invoices = [s \in Payers |-> <<>>]
  /\ rate = TRUE
  /\ waiver = [s \in Payers |-> FALSE]
  /\ run = [r \in Runs |-> NoBatch]

\* Enrolling, dropping and withdrawing.
CreditsChange(s, n) ==
  /\ credits' = [credits EXCEPT ![s] = n]
  /\ peak' = [peak EXCEPT ![s] = Max({@, n})]
  /\ UNCHANGED <<invoices, rate, waiver, run>>

\* The students with courses are read, with their credits.
RunRead(r, who) ==
  /\ run[r] = NoBatch
  /\ run' = [run EXCEPT ![r] = [s \in {t \in who : credits[t] > 0} |-> credits[s]]]
  /\ UNCHANGED <<credits, peak, invoices, rate, waiver>>

\* A student who is admitted has herself billed: the run of one.
generateMySemesterInvoice(r, s) == RunRead(r, {s})

LiveInvoices(s) == {i \in DOMAIN invoices[s] : invoices[s][i].live}

alreadyBilled(s) ==
  SumFunctionOnSet([i \in DOMAIN invoices[s] |-> invoices[s][i].billedCredits],
                   LiveInvoices(s))

Billed(r, s) == run' = [run EXCEPT ![r] = Restrict(@, DOMAIN @ \ {s})]

supplementary(s) == LiveInvoices(s) # {}

\* Mutant: the credits are billed in full, not those added.
delta_All(r, s) == IF alreadyBilled(s) < run[r][s] THEN run[r][s] ELSE 0

delta(r, s) == run[r][s] - alreadyBilled(s)

BillStudent(r, s) ==
  /\ s \in DOMAIN run[r]
  /\ rate /\ delta(r, s) > 0
  /\ invoices' = [invoices EXCEPT ![s] = Append(@,
       [billedCredits |-> delta(r, s), full |-> ~supplementary(s),
        fixedWaiver |-> waiver[s] /\ ~supplementary(s), live |-> TRUE])]
  /\ Billed(r, s)
  /\ UNCHANGED <<credits, peak, rate, waiver>>

\* Skipped (no new credits, no rate), or failed: the next student is billed.
SkipStudent(r, s) ==
  /\ s \in DOMAIN run[r]
  /\ Billed(r, s)
  /\ UNCHANGED <<credits, peak, invoices, rate, waiver>>

RunDies(r) ==
  /\ run[r] # NoBatch
  /\ run' = [run EXCEPT ![r] = NoBatch]
  /\ UNCHANGED <<credits, peak, invoices, rate, waiver>>

\* cancelInvoice, of any invoice that holds no money.
CancelSemesterInvoice(s, i) ==
  /\ i \in LiveInvoices(s) /\ Len(invoices[s]) < MaxInvoices
  /\ invoices' = [invoices EXCEPT ![s][i].live = FALSE]
  /\ UNCHANGED <<credits, peak, rate, waiver, run>>

\* Fee policies are switched on and off, waivers given and taken away.
RateChanges ==
  /\ rate' = ~rate
  /\ UNCHANGED <<credits, peak, invoices, waiver, run>>

WaiverChanges(s) ==
  /\ waiver' = [waiver EXCEPT ![s] = ~@]
  /\ UNCHANGED <<credits, peak, invoices, rate, run>>

SemesterBillingNext ==
  \/ \E s \in Payers :
       \/ \E n \in 0..MaxCredits : CreditsChange(s, n)
       \/ \E i \in 1..MaxInvoices : CancelSemesterInvoice(s, i)
       \/ WaiverChanges(s)
       \/ \E r \in Runs : BillStudent(r, s) \/ SkipStudent(r, s)
  \/ \E r \in Runs :
       \/ RunRead(r, Payers)
       \/ \E s \in Payers : generateMySemesterInvoice(r, s)
       \/ RunDies(r)
  \/ RateChanges

SemesterBillingSpec == SemesterBillingInit /\ [][SemesterBillingNext]_semesterBillingVars

-----------------------------------------------------------------------------
NeverBilledTwice ==
  \A s \in Payers : alreadyBilled(s) <= peak[s]

FixedFeesOnce ==
  \A s \in Payers :
    /\ Cardinality({i \in LiveInvoices(s) : invoices[s][i].full}) <= 1
    /\ \A i \in LiveInvoices(s) : invoices[s][i].fixedWaiver => invoices[s][i].full

\* However many runs overlap, die, or bill from credits read long ago, and
\* whatever is cancelled between them, a student is never billed for more
\* credits than she has ever had (invoice.service.ts:264), and the fixed fees
\* are charged, and waivers of a fixed amount given, on one live invoice at
\* most, the full one (:261, :349).
BilledOnce == NeverBilledTwice /\ FixedFeesOnce
==============================================================================
