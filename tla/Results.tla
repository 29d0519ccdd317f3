------------------------------ MODULE Results ------------------------------
(***************************************************************************)
(* What is recorded of the students of a section - results of exams, and   *)
(* attendance - and the GPA computed from the results in one semester      *)
(* (module/result/result.service.ts, module/exam/exam.service.ts,          *)
(* module/attendance/attendance.service.ts).                               *)
(*                                                                         *)
(* Staff enter draft results, publish them and override published ones;    *)
(* readers compute the GPA of a student and keep it in Redis for a day.    *)
(* Each statement is an action; a database transaction is one action.      *)
(* Redis may fail at any call: the code goes on as if the key were absent  *)
(* (.catch(() => null)).                                                   *)
(***************************************************************************)
EXTENDS Grades, FiniteSets, Functions

CONSTANTS
  Students, Sections, Exams,
  SectionOf,     \* the section an exam belongs to
  TotalMarks,    \* Exam.totalMarks
  Marks,         \* the marks staff may send
  Staff,         \* requests of instructors and administrators in flight
  Readers,       \* computations of a GPA in flight
  MaxOverrides,  \* bound on the overrides of one result
  Days,          \* days classes are held on
  Nobody         \* the student of an idle request

ASSUME ResultsAssumption ==
  /\ IsFiniteSet(Students) /\ IsFiniteSet(Exams)
  /\ SectionOf \in [Exams -> Sections]
  /\ TotalMarks \in [Exams -> Nat]
  /\ Marks \subseteq Nat
  /\ MaxOverrides \in Nat
  /\ Nobody \notin Students

VARIABLES
  exams,     \* the Exam rows there are
  result,    \* Result rows: status and marks
  audit,     \* how many RESULT_OVERRIDE rows the audit log has for a result
  sessions,  \* the AttendanceSession rows there are: sections and days
  attended,  \* AttendanceRecord rows: sections, days and students
  enrolled,  \* external: Enrollment.status of each student and section
  cache,     \* Redis: the key gpa:<student>:<semester>
  staff,     \* staff requests: where they are, what they hold
  reader     \* GPA computations: likewise

classbook == <<sessions, attended>>
vars == <<exams, result, audit, classbook, enrolled, cache, staff, reader>>

NoRow == [status |-> "NONE", marks |-> 0]
Result == [status : {"NONE", "DRAFT", "PUBLISHED"}, marks : Nat]
EnrollmentStatus == {"NONE", "ENROLLED", "DROPPED", "WITHDRAWN"}

-----------------------------------------------------------------------------
Incomplete == 1000  \* the null of the source: not a grade point

ExamsOf(c) == {e \in exams : SectionOf[e] = c}

\* The marks obtained in a section against all marks of its exams.
SectionPoint(s, c) ==
  percentageToGradePoint(SumFunctionOnSet([e \in Exams |-> result[e][s].marks], ExamsOf(c)),
                         SumFunctionOnSet(TotalMarks, ExamsOf(c)))

\* Mutant: the percentage is taken for the grade point.
getSectionGradePoint_Percentage(s, c) ==
  IF ExamsOf(c) # {} /\ \A e \in ExamsOf(c) : result[e][s].status = "PUBLISHED"
    THEN SumFunctionOnSet([e \in Exams |-> result[e][s].marks * 100], ExamsOf(c))
    ELSE Incomplete

\* Mutant: one published exam is enough; marks of the drafts are counted too.
getSectionGradePoint_Some(s, c) ==
  IF \E e \in ExamsOf(c) : result[e][s].status = "PUBLISHED"
    THEN SectionPoint(s, c) ELSE Incomplete

\* One statement: all exams of the section with the student's results.
getSectionGradePoint(s, c) ==
  IF ExamsOf(c) # {} /\ \A e \in ExamsOf(c) : result[e][s].status = "PUBLISHED"
    THEN SectionPoint(s, c) ELSE Incomplete

\* A section as it was read: its grade point and, as history, the exams there
\* were, whose marks entered it.
SectionRead == [point : Points \cup {Incomplete}, from : SUBSET Exams]

\* What a GPA is computed from and cached with: each section the student was read
\* as enrolled in, and the sections withdrawn from.
Payload == [points : UNION {[d -> SectionRead] : d \in SUBSET Sections},
            withdrawn : SUBSET Sections]
NoEntry == [points |-> [c \in {} |-> 0], withdrawn |-> {}]

In(s, st) == {c \in Sections : enrolled[s][c] = st}

-----------------------------------------------------------------------------
StaffStep == {"idle", "submitting", "upserting", "publishing", "overriding",
              "invalidating", "marking"}
StaffRequest == [step : StaffStep, exam : Exams \cup {Nobody}, batch : SUBSET Students,
                 marks : Nat, session : (Sections \X Days) \cup {Nobody}]
ReaderStep == {"idle", "enrollments", "withdrawals", "sections"}
ReaderRequest == [step : ReaderStep, student : Students \cup {Nobody},
                  todo : SUBSET Sections, payload : Payload]

\* Rows, requests and cache entries are of the source's types.
TypeOK ==
  /\ exams \subseteq Exams
  /\ result \in [Exams -> [Students -> Result]]
  /\ audit \in [Exams -> [Students -> Nat]]
  /\ sessions \subseteq Sections \X Days
  /\ attended \subseteq sessions \X Students
  /\ enrolled \in [Students -> [Sections -> EnrollmentStatus]]
  /\ DOMAIN cache \subseteq Students
  /\ \A s \in DOMAIN cache : cache[s] \in Payload
  /\ staff \in [Staff -> StaffRequest]
  /\ reader \in [Readers -> ReaderRequest]

IdleStaff == [step |-> "idle", exam |-> Nobody, batch |-> {}, marks |-> 0,
              session |-> Nobody]
IdleReader == [step |-> "idle", student |-> Nobody, todo |-> {}, payload |-> NoEntry]

Init ==
  /\ exams = {}
  /\ result = [e \in Exams |-> [s \in Students |-> NoRow]]
  /\ audit = [e \in Exams |-> [s \in Students |-> 0]]
  /\ sessions = {}
  /\ attended = {}
  /\ enrolled = [s \in Students |-> [c \in Sections |-> "NONE"]]
  /\ cache = [s \in {} |-> NoEntry]
  /\ staff = [g \in Staff |-> IdleStaff]
  /\ reader = [r \in Readers |-> IdleReader]

StaffMove(g, from, request) ==
  /\ staff[g].step = from
  /\ staff' = [staff EXCEPT ![g] = request]

ReaderMove(r, from, request) ==
  /\ reader[r].step = from
  /\ reader' = [reader EXCEPT ![r] = request]

-----------------------------------------------------------------------------
(***************************************************************************)
(* Exams and staff.  That the instructor teaches the section is an input.  *)
(***************************************************************************)

\* createExam, and createBulkExams, whose rows are created in one transaction.
createExams(new) ==
  /\ new # {} /\ new \cap exams = {}
  /\ exams' = exams \cup new
  /\ UNCHANGED <<result, audit, classbook, enrolled, cache, staff, reader>>

\* Mutant: the enrollments are not looked at.
SubmitCheckEnrolled_AnyStudent(g, e, batch, marks) ==
  /\ e \in exams /\ marks <= TotalMarks[e]
  /\ StaffMove(g, "idle", [IdleStaff EXCEPT !.step = "submitting", !.exam = e,
                        !.batch = batch, !.marks = marks])
  /\ UNCHANGED <<exams, result, audit, classbook, enrolled, cache, reader>>

\* submitResults: marks and enrollments are checked, then, in a statement of
\* its own, that no result of the batch is published.
SubmitCheckEnrolled(g, e, batch, marks) ==
  /\ e \in exams /\ marks <= TotalMarks[e]
  /\ \A s \in batch : enrolled[s][SectionOf[e]] = "ENROLLED"
  /\ StaffMove(g, "idle", [IdleStaff EXCEPT !.step = "submitting", !.exam = e,
                        !.batch = batch, !.marks = marks])
  /\ UNCHANGED <<exams, result, audit, classbook, enrolled, cache, reader>>

SubmitCheckPublished(g) ==
  LET published == \E s \in staff[g].batch : result[staff[g].exam][s].status = "PUBLISHED"
  IN  /\ staff[g].step = "submitting"
      /\ StaffMove(g, "submitting", IF published THEN IdleStaff
                                    ELSE [staff[g] EXCEPT !.step = "upserting"])
      /\ UNCHANGED <<exams, result, audit, classbook, enrolled, cache, reader>>

\* Mutant: what is entered again becomes a draft again.
Upserted_AlwaysDraft(row, marks) == [status |-> "DRAFT", marks |-> marks]

Upserted(row, marks) ==
  [status |-> IF row.status = "NONE" THEN "DRAFT" ELSE row.status, marks |-> marks]

SubmitWrite(g) ==
  LET e == staff[g].exam
  IN  /\ StaffMove(g, "upserting", IdleStaff)
      /\ result' = [result EXCEPT ![e] = [s \in Students |->
           IF s \in staff[g].batch THEN Upserted(@[s], staff[g].marks) ELSE @[s]]]
      /\ UNCHANGED <<exams, audit, classbook, enrolled, cache, reader>>

\* publishExamResults: drafts are looked for, then updated in a transaction
\* that returns every result of the exam; their cache keys are deleted after it.
PublishCheckDrafts(g, e) ==
  /\ e \in exams
  /\ \E s \in Students : result[e][s].status = "DRAFT"
  /\ StaffMove(g, "idle", [IdleStaff EXCEPT !.step = "publishing", !.exam = e])
  /\ UNCHANGED <<exams, result, audit, classbook, enrolled, cache, reader>>

PublishWrite(g) ==
  LET e == staff[g].exam
  IN  /\ StaffMove(g, "publishing",
           [IdleStaff EXCEPT !.step = "invalidating",
              !.batch = {s \in Students : result[e][s].status # "NONE"}])
      /\ result' = [result EXCEPT ![e] = [s \in Students |->
           IF @[s].status = "DRAFT" THEN [@[s] EXCEPT !.status = "PUBLISHED"] ELSE @[s]]]
      /\ UNCHANGED <<exams, audit, classbook, enrolled, cache, reader>>

\* overrideResult: the row is read; row and audit log are written together.
OverrideRead(g, e, s, marks) ==
  /\ result[e][s].status # "NONE" /\ marks <= TotalMarks[e]
  /\ audit[e][s] < MaxOverrides
  /\ StaffMove(g, "idle", [IdleStaff EXCEPT !.step = "overriding", !.exam = e,
                        !.batch = {s}, !.marks = marks])
  /\ UNCHANGED <<exams, result, audit, classbook, enrolled, cache, reader>>

OverrideWrite(g, s) ==
  LET e == staff[g].exam
  IN  /\ s \in staff[g].batch
      /\ StaffMove(g, "overriding", [IdleStaff EXCEPT !.step = "invalidating",
                                                      !.batch = {s}])
      /\ result' = [result EXCEPT ![e][s] = [status |-> "PUBLISHED",
                                             marks |-> staff[g].marks]]
      /\ audit' = [audit EXCEPT ![e][s] = @ + 1]
      /\ UNCHANGED <<exams, classbook, enrolled, cache, reader>>

\* The keys are deleted one by one, in any order; Redis may fail on each.
Invalidate(g, s) ==
  /\ s \in staff[g].batch
  /\ StaffMove(g, "invalidating",
       IF staff[g].batch = {s} THEN IdleStaff
                               ELSE [staff[g] EXCEPT !.batch = @ \ {s}])
  /\ cache' \in {cache, Restrict(cache, DOMAIN cache \ {s})}
  /\ UNCHANGED <<exams, result, audit, classbook, enrolled, reader>>

\* createAttendanceSession; section and date are unique.
createAttendanceSession(session) ==
  /\ session \notin sessions
  /\ sessions' = sessions \cup {session}
  /\ UNCHANGED <<exams, result, audit, attended, enrolled, cache, staff, reader>>

\* markAttendance: the batch is enrolled; the records are upserted together.
MarkCheckEnrolled(g, session, batch) ==
  /\ session \in sessions
  /\ \A s \in batch : enrolled[s][session[1]] = "ENROLLED"
  /\ StaffMove(g, "idle", [IdleStaff EXCEPT !.step = "marking", !.session = session,
                                            !.batch = batch])
  /\ UNCHANGED <<exams, result, audit, classbook, enrolled, cache, reader>>

MarkWrite(g) ==
  /\ StaffMove(g, "marking", IdleStaff)
  /\ attended' = attended \cup ({staff[g].session} \X staff[g].batch)
  /\ UNCHANGED <<exams, result, audit, sessions, enrolled, cache, reader>>

StaffDies(g) ==
  /\ staff[g].step # "idle"
  /\ staff' = [staff EXCEPT ![g] = IdleStaff]
  /\ UNCHANGED <<exams, result, audit, classbook, enrolled, cache, reader>>

-----------------------------------------------------------------------------
(***************************************************************************)
(* computeSemesterGpa, and getTranscript, which calls it.  A hit returns   *)
(* what is cached; a miss, or a failure of Redis, starts a computation.    *)
(***************************************************************************)

GpaCacheMiss(r, s) ==
  /\ ReaderMove(r, "idle", [IdleReader EXCEPT !.step = "enrollments", !.student = s])
  /\ UNCHANGED <<exams, result, audit, classbook, enrolled, cache, staff>>

GpaReadEnrollments(r) ==
  LET found == In(reader[r].student, "ENROLLED")
  IN  /\ reader[r].step = "enrollments"
      /\ ReaderMove(r, "enrollments",
           [reader[r] EXCEPT !.step = "withdrawals", !.todo = found])
      /\ UNCHANGED <<exams, result, audit, classbook, enrolled, cache, staff>>

GpaReadWithdrawals(r) ==
  /\ reader[r].step = "withdrawals"
  /\ ReaderMove(r, "withdrawals",
       [reader[r] EXCEPT !.step = "sections",
          !.payload.withdrawn = In(reader[r].student, "WITHDRAWN")])
  /\ UNCHANGED <<exams, result, audit, classbook, enrolled, cache, staff>>

GpaReadSection(r, c) ==
  LET points == reader[r].payload.points
  IN  /\ c \in reader[r].todo
      /\ ReaderMove(r, "sections",
           [reader[r] EXCEPT !.todo = @ \ {c},
              !.payload.points = [d \in DOMAIN points \cup {c} |->
                 IF d = c THEN [point |-> getSectionGradePoint(reader[r].student, c),
                                from |-> ExamsOf(c)]
                          ELSE points[d]]])
      /\ UNCHANGED <<exams, result, audit, classbook, enrolled, cache, staff>>

\* The payload is cached; Redis may fail.
GpaWrite(r) ==
  LET s == reader[r].student
  IN  /\ reader[r].step = "sections" /\ reader[r].todo = {}
      /\ ReaderMove(r, "sections", IdleReader)
      /\ cache' \in {cache, [t \in DOMAIN cache \cup {s} |->
                               IF t = s THEN reader[r].payload ELSE cache[t]]}
      /\ UNCHANGED <<exams, result, audit, classbook, enrolled, staff>>

ReaderDies(r) ==
  /\ reader[r].step # "idle"
  /\ reader' = [reader EXCEPT ![r] = IdleReader]
  /\ UNCHANGED <<exams, result, audit, classbook, enrolled, cache, staff>>

\* GPA_CACHE_TTL_SECONDS have passed since the key was set.
GpaExpires(s) ==
  /\ s \in DOMAIN cache
  /\ cache' = Restrict(cache, DOMAIN cache \ {s})
  /\ UNCHANGED <<exams, result, audit, classbook, enrolled, staff, reader>>

\* What module Enrollment does of a row: rows are never deleted, and a
\* withdrawal is final.
EnrollmentMoves(s, c, new) ==
  /\ <<enrolled[s][c], new>> \in
       {<<"NONE", "ENROLLED">>, <<"ENROLLED", "DROPPED">>, <<"DROPPED", "ENROLLED">>,
        <<"ENROLLED", "WITHDRAWN">>}
  /\ enrolled' = [enrolled EXCEPT ![s][c] = new]
  /\ UNCHANGED <<exams, result, audit, classbook, cache, staff, reader>>

-----------------------------------------------------------------------------
StaffNext ==
  \E g \in Staff :
    \/ \E e \in Exams, batch \in SUBSET Students \ {{}}, marks \in Marks :
         SubmitCheckEnrolled(g, e, batch, marks)
    \/ SubmitCheckPublished(g)
    \/ SubmitWrite(g)
    \/ \E e \in Exams : PublishCheckDrafts(g, e)
    \/ PublishWrite(g)
    \/ \E e \in Exams, s \in Students, marks \in Marks : OverrideRead(g, e, s, marks)
    \/ \E s \in Students : OverrideWrite(g, s) \/ Invalidate(g, s)
    \/ \E session \in Sections \X Days, batch \in SUBSET Students \ {{}} :
         MarkCheckEnrolled(g, session, batch)
    \/ MarkWrite(g)
    \/ StaffDies(g)

ReaderNext ==
  \E r \in Readers :
    \/ \E s \in Students : GpaCacheMiss(r, s)
    \/ GpaReadEnrollments(r)
    \/ GpaReadWithdrawals(r)
    \/ \E c \in Sections : GpaReadSection(r, c)
    \/ GpaWrite(r)
    \/ ReaderDies(r)

Next ==
  \/ \E new \in SUBSET Exams : createExams(new)
  \/ \E session \in Sections \X Days : createAttendanceSession(session)
  \/ StaffNext
  \/ ReaderNext
  \/ \E s \in Students : GpaExpires(s)
  \/ \E s \in Students, c \in Sections, new \in EnrollmentStatus :
       EnrollmentMoves(s, c, new)

Spec == Init /\ [][Next]_vars

-----------------------------------------------------------------------------
(***************************************************************************)
(* Properties.                                                             *)
(***************************************************************************)

\* A published result stays published, whatever is entered or published again
\* at the same time (result.service.ts:106).
PublishedForGood ==
  [][\A e \in Exams, s \in Students :
       result[e][s].status = "PUBLISHED" => result'[e][s].status = "PUBLISHED"]_vars

\* Results and attendance are of students who have, or had, a seat in the
\* section; withdrawing or dropping in between does not matter, as the row of
\* the enrollment is kept (result.service.ts:64, attendance.service.ts:91).
RecordsOfParticipants ==
  /\ \A e \in Exams, s \in Students :
       result[e][s].status # "NONE" => enrolled[s][SectionOf[e]] # "NONE"
  /\ \A mark \in attended : enrolled[mark[2]][mark[1][1]] # "NONE"

\* A cached GPA never discloses a draft: every exam whose marks entered a grade
\* point in the cache, however old the entry and whoever entered, published and
\* overrode results while it was computed, is an exam of the section with a
\* published result of the student (result.service.ts:258).
CacheShowsPublished ==
  \A s \in DOMAIN cache : \A c \in DOMAIN cache[s].points :
    cache[s].points[c].point # Incomplete =>
      /\ cache[s].points[c].from # {}
      /\ \A e \in cache[s].points[c].from :
           SectionOf[e] = c /\ result[e][s].status = "PUBLISHED"

\* The marks of a published result change only with a row in the audit log:
\* entering results "deliberately can't silently rewrite something already
\* locked" (result.service.ts:78).
PublishedChangesAreAudited ==
  [][\A e \in Exams, s \in Students :
       /\ result[e][s].status = "PUBLISHED"
       /\ result'[e][s].marks # result[e][s].marks
       => audit'[e][s] > audit[e][s]]_vars
==============================================================================
