----------------------------- MODULE Enrollment -----------------------------
(***************************************************************************)
(* The seats of the sections of one semester: enrolling, dropping and      *)
(* withdrawing (module/enrollment/enrollment.service.ts), the sections     *)
(* themselves (module/section/section.service.ts) and the semester's       *)
(* status (module/semester/semester.service.ts).                           *)
(*                                                                         *)
(* Every statement a handler awaits is an action, and so is each database  *)
(* transaction: inside one, the row lock the first UPDATE takes on the     *)
(* section orders it with the others.  What a handler has read stays in    *)
(* its record until it writes.                                             *)
(*                                                                         *)
(* Nothing keeps a student from having several requests in flight, and     *)
(* most guarantees fail when two of them are about the same seats.  The    *)
(* history variable raced tells which have overlapped.                     *)
(***************************************************************************)
EXTENDS Integers, FiniteSets

CONSTANTS
  Students, Sections, Courses,
  CourseOf,       \* the course a section teaches
  Prerequisites,  \* the courses a course requires
  Planned,        \* the sections that are not created yet
  Wants,          \* the sections a student may ask for
  Examined,       \* the students and sections that get results
  InitialCapacity, \* the capacity of the others
  Capacities,     \* what an administrator may set the capacity of a section to
  Announced,      \* the statuses an administrator gives the semester
  Handlers,       \* student requests in flight
  StudentOf,      \* the student a request is of
  Admins,         \* administrator requests in flight
  NoSection,      \* the section of an idle request
  Lowest          \* bound: no drop begins at a section whose counter is this low

ASSUME EnrollmentAssumption ==
  /\ IsFiniteSet(Students)
  /\ CourseOf \in [Sections -> Courses]
  /\ Prerequisites \in [Courses -> SUBSET Courses]
  /\ Wants \in [Students -> SUBSET Sections]
  /\ Planned \subseteq Sections /\ Examined \subseteq Students \X Sections
  /\ InitialCapacity \in Nat
  /\ Capacities \in [Sections -> SUBSET Nat]
  /\ Announced \subseteq {"UPCOMING", "OPEN", "CLOSED"}
  /\ StudentOf \in [Handlers -> Students]
  /\ NoSection \notin Sections
  /\ Lowest \in Int

VARIABLES
  section,   \* Section rows: state, capacity, enrolledCount; history: the largest
             \* capacity the section has had
  status,    \* Enrollment rows, "NONE" where there is none
  grade,     \* external: what the published results of a student say
  semester,  \* Semester.status
  handler,   \* student requests: where they are, what they have read
  admin,     \* administrator requests: likewise
  raced      \* history: <<s, c, d>> where requests of s for c and d were in flight together

vars == <<section, status, grade, semester, handler, admin, raced>>

EnrollmentStatus == {"NONE", "ENROLLED", "DROPPED", "WITHDRAWN"}
SemesterStatus == {"UPCOMING", "OPEN", "CLOSED"}
\* No published result, some but the course is not passed, all and passed.
Grades == {"none", "some", "passed"}
SectionRow == [state : {"new", "offered", "deleted"}, capacity : Nat, count : Int,
               largest : Nat]
StudentStep == {"idle", "located", "known", "single", "qualified",
                "dropping", "withdrawing", "ungraded"}
StudentRequest == [step : StudentStep, section : Sections \cup {NoSection},
                   capacity : Nat, existing : EnrollmentStatus]
AdminRequest == [step : {"idle", "resizing", "deleting", "switching"},
                 section : Sections \cup {NoSection}, capacity : Nat,
                 status : SemesterStatus]

\* No student has had two requests for this section in flight together.
OneAtATime(c) == \A s \in Students : <<s, c, c>> \notin raced

\* Rows, statuses and what requests remember are of the source's types, and the
\* counter of a section is negative only where a student's requests for it raced.
TypeOK ==
  /\ section \in [Sections -> SectionRow]
  /\ status \in [Students -> [Sections -> EnrollmentStatus]]
  /\ grade \in [Students -> [Sections -> Grades]]
  /\ semester \in SemesterStatus
  /\ handler \in [Handlers -> StudentRequest]
  /\ admin \in [Admins -> AdminRequest]
  /\ raced \subseteq Students \X Sections \X Sections
  /\ \A c \in Sections : OneAtATime(c) => section[c].count >= 0

IdleStudent == [step |-> "idle", section |-> NoSection, capacity |-> 0,
                existing |-> "NONE"]
IdleAdmin == [step |-> "idle", section |-> NoSection, capacity |-> 0,
              status |-> "UPCOMING"]

Init ==
  /\ section = [c \in Sections |->
       [state |-> IF c \in Planned THEN "new" ELSE "offered", capacity |-> InitialCapacity,
        count |-> 0, largest |-> InitialCapacity]]
  /\ status = [s \in Students |-> [c \in Sections |-> "NONE"]]
  /\ grade = [s \in Students |-> [c \in Sections |-> "none"]]
  /\ semester = "UPCOMING"
  /\ handler = [h \in Handlers |-> IdleStudent]
  /\ admin = [a \in Admins |-> IdleAdmin]
  /\ raced = {}

Mine(h) == StudentOf[h]
Target(h) == handler[h].section
Row(h) == status[Mine(h)][Target(h)]

\* The sections other requests of the same student in flight are about.
Pending(h) ==
  {Target(k) : k \in {i \in Handlers \ {h} : Mine(i) = Mine(h) /\ handler[i].step # "idle"}}

\* A request for c begins; those in flight with it are recorded.
Arrives(h, c, request) ==
  /\ handler[h].step = "idle"
  /\ handler' = [handler EXCEPT ![h] = request]
  /\ raced' = raced \cup ({Mine(h)} \X {c} \X Pending(h)) \cup ({Mine(h)} \X Pending(h) \X {c})
  /\ UNCHANGED <<section, status, grade, semester, admin>>

\* The request goes on to its next statement if the check holds, and is
\* answered with an error if not.
Check(h, from, check, to) ==
  /\ handler[h].step = from
  /\ handler' = IF check THEN [handler EXCEPT ![h].step = to]
                         ELSE [handler EXCEPT ![h] = IdleStudent]
  /\ UNCHANGED <<section, status, grade, semester, admin, raced>>

Answer(h, from) ==
  /\ handler[h].step = from
  /\ handler' = [handler EXCEPT ![h] = IdleStudent]

-----------------------------------------------------------------------------
(***************************************************************************)
(* createEnrollment.  Whether the gates on admission and dues, and the     *)
(* dates of the enrollment window, let the student pass is an input.       *)
(***************************************************************************)

\* The section is read, with its semester, and its capacity remembered.
EnrollReadSection(h, c) ==
  /\ c \in Wants[Mine(h)]
  /\ section[c].state = "offered" /\ semester = "OPEN"
  /\ Arrives(h, c, [IdleStudent EXCEPT !.step = "located", !.section = c,
                                        !.capacity = section[c].capacity])

EnrollReadExisting(h) ==
  /\ handler[h].step = "located"
  /\ handler' = IF Row(h) = "ENROLLED"
                  THEN [handler EXCEPT ![h] = IdleStudent]
                  ELSE [handler EXCEPT ![h].step = "known", ![h].existing = Row(h)]
  /\ UNCHANGED <<section, status, grade, semester, admin, raced>>

TakesCourse(s, course) ==
  \E c \in Sections : CourseOf[c] = course /\ status[s][c] = "ENROLLED"

\* Mutant: only a row in this very section is looked for.
EnrollCheckDuplicate_SameSection(h) == Check(h, "known", Row(h) # "ENROLLED", "single")

EnrollCheckDuplicate(h) ==
  Check(h, "known", ~TakesCourse(Mine(h), CourseOf[Target(h)]), "single")

\* Any enrollment counts, dropped and withdrawn ones too.
hasPassedCourse(s, course) ==
  \E c \in Sections : /\ CourseOf[c] = course /\ status[s][c] # "NONE"
                      /\ grade[s][c] = "passed"

EnrollCheckPrerequisites(h) ==
  Check(h, "single",
        \A p \in Prerequisites[CourseOf[Target(h)]] : hasPassedCourse(Mine(h), p),
        "qualified")

\* updateMany finds the row: the count is compared with the remembered capacity.
SeatFree(h) ==
  /\ section[Target(h)].state = "offered"
  /\ section[Target(h)].count < handler[h].capacity

\* Mutant: an existing row is taken for a dropped one whatever its status.
CanWriteRow_AnyExisting(h) == handler[h].existing # "NONE" \/ Row(h) = "NONE"

\* The unique key (studentId, sectionId): create fails when there is a row.
CanWriteRow(h) == handler[h].existing = "DROPPED" \/ Row(h) = "NONE"

\* The transaction: a seat is taken and the row written.
EnrollCommit(h) ==
  /\ Answer(h, "qualified")
  /\ SeatFree(h) /\ CanWriteRow(h)
  /\ section' = [section EXCEPT ![Target(h)].count = @ + 1]
  /\ status' = [status EXCEPT ![Mine(h)][Target(h)] = "ENROLLED"]
  /\ UNCHANGED <<grade, semester, admin, raced>>

\* The section is full, or the row cannot be created: all is rolled back.
EnrollAborts(h) ==
  /\ Answer(h, "qualified")
  /\ ~(SeatFree(h) /\ CanWriteRow(h))
  /\ UNCHANGED <<section, status, grade, semester, admin, raced>>

-----------------------------------------------------------------------------
(***************************************************************************)
(* dropEnrollment and withdrawEnrollment: check, then write by row id.     *)
(***************************************************************************)

Begin(h, c, step) ==
  /\ c \in Wants[Mine(h)] /\ status[Mine(h)][c] = "ENROLLED"
  /\ Arrives(h, c, [IdleStudent EXCEPT !.step = step, !.section = c])

\* Mutant: any row can be dropped.
DropRead_AnyRow(h, c) ==
  /\ semester = "OPEN" /\ c \in Wants[Mine(h)] /\ status[Mine(h)][c] # "NONE"
  /\ Arrives(h, c, [IdleStudent EXCEPT !.step = "dropping", !.section = c])

DropRead(h, c) == semester = "OPEN" /\ section[c].count > Lowest /\ Begin(h, c, "dropping")

\* Mutant: the seat is not given back.
DropCommit_KeepsSeat(h) ==
  /\ Answer(h, "dropping")
  /\ status' = [status EXCEPT ![Mine(h)][Target(h)] = "DROPPED"]
  /\ UNCHANGED <<section, grade, semester, admin, raced>>

DropCommit(h) ==
  /\ Answer(h, "dropping")
  /\ section' = [section EXCEPT ![Target(h)].count = @ - 1]
  /\ status' = [status EXCEPT ![Mine(h)][Target(h)] = "DROPPED"]
  /\ UNCHANGED <<grade, semester, admin, raced>>

WithdrawRead(h, c) == semester # "CLOSED" /\ Begin(h, c, "withdrawing")

WithdrawCheckResults(h) ==
  Check(h, "withdrawing", grade[Mine(h)][Target(h)] = "none", "ungraded")

\* Mutant: the seat is given back.
WithdrawWrite_FreesSeat(h) ==
  /\ Answer(h, "ungraded")
  /\ status' = [status EXCEPT ![Mine(h)][Target(h)] = "WITHDRAWN"]
  /\ section' = [section EXCEPT ![Target(h)].count = @ - 1]
  /\ UNCHANGED <<grade, semester, admin, raced>>

\* The seat stays spent.
WithdrawWrite(h) ==
  /\ Answer(h, "ungraded")
  /\ status' = [status EXCEPT ![Mine(h)][Target(h)] = "WITHDRAWN"]
  /\ UNCHANGED <<section, grade, semester, admin, raced>>

HandlerDies(h) ==
  /\ handler[h].step # "idle"
  /\ handler' = [handler EXCEPT ![h] = IdleStudent]
  /\ UNCHANGED <<section, status, grade, semester, admin, raced>>

-----------------------------------------------------------------------------
(***************************************************************************)
(* Sections and the semester.                                              *)
(***************************************************************************)

createSection(c, capacity) ==
  /\ section[c].state = "new" /\ capacity > 0
  /\ section' = [section EXCEPT ![c] = [state |-> "offered", capacity |-> capacity,
                                        count |-> 0, largest |-> capacity]]
  /\ UNCHANGED <<status, grade, semester, handler, admin, raced>>

AdminBegins(a, request) ==
  /\ admin[a].step = "idle"
  /\ admin' = [admin EXCEPT ![a] = request]
  /\ UNCHANGED <<section, status, grade, semester, handler, raced>>

AdminAnswers(a, from) ==
  /\ admin[a].step = from
  /\ admin' = [admin EXCEPT ![a] = IdleAdmin]

\* updateSection: the count is read and compared with the new capacity.
UpdateSectionRead(a, c, capacity) ==
  /\ section[c].state = "offered"
  /\ capacity >= section[c].count
  /\ AdminBegins(a, [IdleAdmin EXCEPT !.step = "resizing", !.section = c,
                                      !.capacity = capacity])

Larger(m, n) == IF m < n THEN n ELSE m

UpdateSectionWrite(a) ==
  /\ AdminAnswers(a, "resizing")
  /\ section' = IF section[admin[a].section].state = "offered"
                  THEN [section EXCEPT ![admin[a].section].capacity = admin[a].capacity,
                                       ![admin[a].section].largest = Larger(@, admin[a].capacity)]
                  ELSE section
  /\ UNCHANGED <<status, grade, semester, handler, raced>>

DeleteSectionRead(a, c) ==
  /\ section[c].state = "offered" /\ section[c].count <= 0
  /\ AdminBegins(a, [IdleAdmin EXCEPT !.step = "deleting", !.section = c])

\* The foreign key of the Enrollment rows stops a delete while there are any.
DeleteSectionWrite(a) ==
  LET c == admin[a].section
  IN  /\ AdminAnswers(a, "deleting")
      /\ section' = IF \A s \in Students : status[s][c] = "NONE"
                      THEN [section EXCEPT ![c].state = "deleted"]
                      ELSE section
      /\ UNCHANGED <<status, grade, semester, handler, raced>>

\* updateSemesterStatus: a closed semester is not reopened, as of this read.
SemesterStatusRead(a, new) ==
  /\ semester = "CLOSED" => new = "CLOSED"
  /\ AdminBegins(a, [IdleAdmin EXCEPT !.step = "switching", !.status = new])

SemesterStatusWrite(a) ==
  /\ AdminAnswers(a, "switching")
  /\ semester' = admin[a].status
  /\ UNCHANGED <<section, status, grade, handler, raced>>

\* Results are entered for enrolled students and published, overridden, or
\* made incomplete by another exam, at any later time.
ResultsChange(s, c, g) ==
  /\ status[s][c] # "NONE" /\ <<s, c>> \in Examined /\ g # "none"
  /\ grade' = [grade EXCEPT ![s][c] = g]
  /\ UNCHANGED <<section, status, semester, handler, admin, raced>>

-----------------------------------------------------------------------------
Next ==
  \/ \E h \in Handlers :
       \/ \E c \in Sections : EnrollReadSection(h, c) \/ DropRead(h, c) \/ WithdrawRead(h, c)
       \/ EnrollReadExisting(h) \/ EnrollCheckDuplicate(h) \/ EnrollCheckPrerequisites(h)
       \/ EnrollCommit(h) \/ EnrollAborts(h)
       \/ DropCommit(h)
       \/ WithdrawCheckResults(h) \/ WithdrawWrite(h)
       \/ HandlerDies(h)
  \/ \E c \in Sections : \E capacity \in Capacities[c] :
       createSection(c, capacity) \/ \E a \in Admins : UpdateSectionRead(a, c, capacity)
  \/ \E a \in Admins :
       \/ UpdateSectionWrite(a)
       \/ \E c \in Sections : DeleteSectionRead(a, c)
       \/ DeleteSectionWrite(a)
       \/ \E new \in Announced : SemesterStatusRead(a, new)
       \/ SemesterStatusWrite(a)
  \/ \E s \in Students, c \in Sections, g \in Grades : ResultsChange(s, c, g)

Spec == Init /\ [][Next]_vars

-----------------------------------------------------------------------------
(***************************************************************************)
(* Safety.  Requests of different students may interleave in any way; what *)
(* fails when those of one student do is said of the others.               *)
(***************************************************************************)

Seated(c) == {s \in Students : status[s][c] \in {"ENROLLED", "WITHDRAWN"}}

\* The counter of a section is the number of seats taken: those of enrolled
\* students and of withdrawn ones, whose seat stays spent, whatever requests of
\* other students, deletions and resizings come between the steps of one, unless
\* two requests of one student for this section were in flight together
\* (enrollment.service.ts:154, 209, 224).
SeatsMatch ==
  \A c \in Sections : OneAtATime(c) => section[c].count = Cardinality(Seated(c))

\* A student gets into two sections of a course in one way only, by requests for
\* the two that were in flight together: otherwise the check, made statements
\* before the row is written, holds when it is, and dropped rows that come back
\* make no exception (enrollment.service.ts:126).
TwiceOnlyByRace ==
  \A s \in Students, c, d \in Sections :
    /\ status[s][c] = "ENROLLED" /\ status[s][d] = "ENROLLED"
    /\ CourseOf[c] = CourseOf[d] /\ c # d
    => <<s, c, d>> \in raced

\* A spent seat is not sold again, and a check against a capacity that was read
\* before an administrator lowered it sells no seat the section never had: its
\* counter stays within the largest capacity there has been, and so do the
\* students seated unless two requests of one of them for it were in flight
\* together (enrollment.service.ts:150, section.service.ts:245).
SeatsBounded ==
  \A c \in Sections :
    /\ section[c].count <= section[c].largest
    /\ OneAtATime(c) => Cardinality(Seated(c)) <= section[c].largest

\* Expected to fail.  "The enrollment service already blocks duplicate-course
\* enrollments" (module/Fee/invoice.service.ts:56): two requests of one student
\* both find no other section before either writes its row.
OneSectionPerCourse ==
  \A s \in Students, c, d \in Sections :
    /\ status[s][c] = "ENROLLED" /\ status[s][d] = "ENROLLED"
    /\ CourseOf[c] = CourseOf[d]
    => c = d

\* Rows are only ever added, a section somebody has had a row in is never deleted,
\* and a withdrawal is final unless two requests of the student for the section
\* were in flight together (enrollment.service.ts:164, section.service.ts:295).
RowsAreKept ==
  [][\A s \in Students, c \in Sections :
       status[s][c] # "NONE" =>
         /\ status'[s][c] # "NONE" /\ section'[c].state = "offered"
         /\ status[s][c] = "WITHDRAWN" /\ <<s, c, c>> \notin raced
              => status'[s][c] = "WITHDRAWN"]_vars
==============================================================================
