-------------------------- MODULE EnrollmentProofs ---------------------------
(***************************************************************************)
(* The seats of a semester, for any students, sections and courses, any    *)
(* capacities, and any number of administrators and of requests, several   *)
(* of one student included: the counter of a section is the number of      *)
(* seats taken and stays within the capacities there have been, nobody     *)
(* takes a course twice, rows are kept, each but for what requests of one  *)
(* student that were in flight together do.                                *)
(***************************************************************************)
EXTENDS Enrollment, FiniteSetTheorems, TLAPS

-----------------------------------------------------------------------------
(***************************************************************************)
(* The invariant.                                                          *)
(***************************************************************************)

Enrolling == {"located", "known", "single", "qualified"}
Leaving == {"dropping", "withdrawing", "ungraded"}

\* The types, without what the seats say of the counters.
Typed ==
  /\ section \in [Sections -> SectionRow]
  /\ status \in [Students -> [Sections -> EnrollmentStatus]]
  /\ grade \in [Students -> [Sections -> Grades]]
  /\ semester \in SemesterStatus
  /\ handler \in [Handlers -> StudentRequest]
  /\ admin \in [Admins -> AdminRequest]
  /\ raced \subseteq Students \X Sections \X Sections

\* A student's requests in flight together are on record, both ways round.
RacesKnown ==
  /\ \A s \in Students, c, d \in Sections : <<s, c, d>> \in raced => <<s, d, c>> \in raced
  /\ \A h, k \in Handlers :
       /\ h # k /\ Mine(h) = Mine(k)
       /\ handler[h].step # "idle" /\ handler[k].step # "idle"
       => <<Mine(h), Target(h), Target(k)>> \in raced

\* No request of its student was in flight with this one for the same section.
Alone(h) == <<Mine(h), Target(h), Target(h)>> \notin raced

\* What a request has read of its student's rows is still so when it writes,
\* unless it is not alone: nobody else writes them.  What it has read of the
\* section may be stale, but the capacity it remembers is one the section has had.
Knows(h) ==
  /\ handler[h].step # "idle" =>
       Target(h) \in Sections /\ section[Target(h)].state # "new"
  /\ handler[h].step \in Enrolling => handler[h].capacity <= section[Target(h)].largest
  /\ handler[h].step \in Enrolling \ {"located"} /\ Alone(h) =>
       handler[h].existing = Row(h) /\ Row(h) # "ENROLLED"
  /\ handler[h].step \in {"single", "qualified"} =>
       \A d \in Sections \ {Target(h)} :
         CourseOf[d] = CourseOf[Target(h)] /\ status[Mine(h)][d] = "ENROLLED"
           => <<Mine(h), Target(h), d>> \in raced
  /\ handler[h].step \in Leaving => Row(h) # "NONE" /\ (Alone(h) => Row(h) = "ENROLLED")

HandlersKnow == \A h \in Handlers : Knows(h)

AdminsKnow ==
  \A a \in Admins : admin[a].step \in {"resizing", "deleting"} => admin[a].section \in Sections

\* There are rows of offered sections only.
RowsOffered ==
  \A s \in Students, c \in Sections : status[s][c] # "NONE" => section[c].state = "offered"

CapacitiesSound == \A c \in Sections : section[c].capacity <= section[c].largest

CountsBounded == \A c \in Sections : section[c].count <= section[c].largest

\* All that is about rows and sections, without the requests.
Seats == /\ SeatsMatch /\ CountsBounded /\ TwiceOnlyByRace
         /\ RowsOffered /\ CapacitiesSound

IInv == Typed /\ Seats /\ RacesKnown /\ HandlersKnow /\ AdminsKnow

-----------------------------------------------------------------------------
(***************************************************************************)
(* Lemmas on seats.                                                        *)
(***************************************************************************)

\* The students seated are finitely many.
LEMMA SeatedFinite ==
  ASSUME NEW c
  PROVE  IsFiniteSet(Seated(c)) /\ Cardinality(Seated(c)) \in Nat
<1>1. Seated(c) \subseteq Students
  BY DEF Seated
<1> QED BY <1>1, FS_Subset, FS_CardinalityType, EnrollmentAssumption

\* What holds of rows and sections still holds if they are the same.
LEMMA SeatsKept ==
  ASSUME Seats, UNCHANGED <<section, status>>, raced \subseteq raced'
  PROVE  Seats'
<1>1. \A c \in Sections : OneAtATime(c)' => OneAtATime(c)
  BY DEF OneAtATime
<1> QED BY <1>1 DEF Seats, SeatsMatch, CountsBounded, TwiceOnlyByRace, RowsOffered,
              CapacitiesSound, Seated

\* A request knows what it knew if it, its student's rows and the sections are
\* the same.
LEMMA KnowsKept ==
  ASSUME NEW h \in Handlers, Knows(h), handler'[h] = handler[h],
         status'[Mine(h)] = status[Mine(h)], UNCHANGED section, raced \subseteq raced'
  PROVE  Knows(h)'
BY DEF Knows, Alone, Target, Row, Mine, Enrolling, Leaving

\* An idle request knows nothing.
LEMMA IdleKnows ==
  ASSUME NEW h \in Handlers, handler'[h] = IdleStudent
  PROVE  Knows(h)'
BY DEF Knows, IdleStudent, Enrolling, Leaving

\* The idle request is a request.
LEMMA IdleTyped == IdleStudent \in StudentRequest /\ IdleAdmin \in AdminRequest
BY DEF IdleStudent, IdleAdmin, StudentRequest, AdminRequest, StudentStep, EnrollmentStatus,
       SemesterStatus

\* The races on record are kept while no request begins.
LEMMA RacesKept ==
  ASSUME RacesKnown, UNCHANGED raced,
         \A h \in Handlers :
           \/ handler'[h].step = "idle"
           \/ handler[h].step # "idle" /\ handler'[h].section = handler[h].section
  PROVE  RacesKnown'
BY DEF RacesKnown, Mine, Target

-----------------------------------------------------------------------------
(***************************************************************************)
(* Steps of requests that only read.                                       *)
(***************************************************************************)

\* A step that writes only the request and the races, with what they know, keeps
\* all.
LEMMA RequestKeeps ==
  ASSUME IInv, NEW h \in Handlers, NEW request \in StudentRequest,
         handler' = [handler EXCEPT ![h] = request],
         UNCHANGED <<section, status, grade, semester, admin>>,
         raced \subseteq raced', raced' \subseteq Students \X Sections \X Sections,
         RacesKnown', Knows(h)'
  PROVE  IInv'
<1>1. Typed'
  BY DEF IInv, Typed
<1>2. Seats'
  BY SeatsKept DEF IInv
<1>3. ASSUME NEW k \in Handlers PROVE Knows(k)'
  <2>1. CASE k = h BY <2>1
  <2>2. CASE k # h
    <3>1. handler'[k] = handler[k] /\ Knows(k)
      BY <2>2 DEF IInv, Typed, HandlersKnow
    <3> QED BY <3>1, KnowsKept
  <2> QED BY <2>1, <2>2
<1>4. AdminsKnow'
  BY DEF IInv, AdminsKnow
<1> QED BY <1>1, <1>2, <1>3, <1>4 DEF IInv, HandlersKnow

\* A step of a request in flight that writes only the request, with what it knows.
LEMMA ReadKeeps ==
  ASSUME IInv, NEW h \in Handlers, NEW request \in StudentRequest,
         handler' = [handler EXCEPT ![h] = request],
         UNCHANGED <<section, status, grade, semester, admin, raced>>, Knows(h)',
         \/ request.step = "idle"
         \/ handler[h].step # "idle" /\ request.section = handler[h].section
  PROVE  IInv'
<1>1. \A k \in Handlers : handler'[k] = IF k = h THEN request ELSE handler[k]
  BY DEF IInv, Typed
<1>2. RacesKnown'
  BY <1>1, RacesKept DEF IInv, RacesKnown, Mine, Target
<1>3. raced' \subseteq Students \X Sections \X Sections /\ raced \subseteq raced'
  BY DEF IInv, Typed
<1> QED BY <1>2, <1>3, RequestKeeps

\* Answering a request keeps all.
LEMMA AnswerKeeps ==
  ASSUME IInv, NEW h \in Handlers, handler' = [handler EXCEPT ![h] = IdleStudent],
         UNCHANGED <<section, status, grade, semester, admin, raced>>
  PROVE  IInv'
<1>1. handler'[h] = IdleStudent /\ IdleStudent.step = "idle"
  BY DEF IInv, Typed, IdleStudent
<1> QED BY <1>1, IdleKnows, IdleTyped, ReadKeeps

\* A check that leads to a step at which no more is known than what was.
LEMMA CheckKeeps ==
  ASSUME IInv, NEW h \in Handlers, NEW check, NEW from \in StudentStep \ {"idle"},
         NEW to \in StudentStep, Check(h, from, check, to),
         check => Knows(h)'
  PROVE  IInv'
<1>1. CASE check
  <2> DEFINE request == [handler[h] EXCEPT !.step = to]
  <2>1. request \in StudentRequest /\ handler' = [handler EXCEPT ![h] = request]
        /\ request.section = handler[h].section /\ handler[h].step # "idle"
    BY <1>1 DEF Check, IInv, Typed, StudentRequest
  <2> HIDE DEF request
  <2> QED BY <1>1, <2>1, ReadKeeps DEF Check
<1>2. CASE ~check
  BY <1>2, AnswerKeeps DEF Check
<1> QED BY <1>1, <1>2

\* A request that begins is on record with those in flight.
LEMMA ArrivesKeeps ==
  ASSUME IInv, NEW h \in Handlers, NEW c \in Sections, NEW request \in StudentRequest,
         request.section = c, Arrives(h, c, request), Knows(h)'
  PROVE  IInv'
<1>1. \A k \in Handlers : handler'[k] = IF k = h THEN request ELSE handler[k]
  BY DEF IInv, Typed, Arrives
<1>2. Mine(h) \in Students /\ Pending(h) \subseteq Sections
  <2>1. \A k \in Handlers : handler[k].step # "idle" => Target(k) \in Sections
    BY DEF IInv, HandlersKnow, Knows
  <2> QED BY <2>1, EnrollmentAssumption DEF Mine, Pending
<1>3. \A s \in Students, d, e \in Sections :
        <<s, d, e>> \in raced' <=>
          \/ <<s, d, e>> \in raced
          \/ s = Mine(h) /\ d = c /\ e \in Pending(h)
          \/ s = Mine(h) /\ d \in Pending(h) /\ e = c
  BY <1>2 DEF Arrives
<1>4. raced \subseteq raced' /\ raced' \subseteq Students \X Sections \X Sections
  BY <1>2 DEF Arrives, IInv, Typed
<1>5. RacesKnown'
  <2>1. \A s \in Students, d, e \in Sections : <<s, d, e>> \in raced' => <<s, e, d>> \in raced'
    BY <1>3 DEF IInv, RacesKnown
  <2>2. ASSUME NEW i \in Handlers, NEW k \in Handlers, i # k, Mine(i) = Mine(k),
               handler'[i].step # "idle", handler'[k].step # "idle"
        PROVE  <<Mine(i), handler'[i].section, handler'[k].section>> \in raced'
    <3>1. CASE i = h
      <4>1. Target(k) \in Pending(h) /\ handler'[k].section = Target(k)
            /\ handler'[i].section = c
        BY <1>1, <2>2, <3>1 DEF Pending, Target
      <4> QED BY <1>2, <1>3, <2>2, <3>1, <4>1
    <3>2. CASE k = h
      <4>1. Target(i) \in Pending(h) /\ handler'[i].section = Target(i)
            /\ handler'[k].section = c
        BY <1>1, <2>2, <3>2 DEF Pending, Target
      <4> QED BY <1>2, <1>3, <2>2, <3>2, <4>1
    <3>3. CASE i # h /\ k # h
      BY <1>1, <1>4, <2>2, <3>3 DEF IInv, RacesKnown, Target
    <3> QED BY <3>1, <3>2, <3>3
  <2> QED BY <2>1, <2>2 DEF RacesKnown, Mine, Target
<1> QED BY <1>4, <1>5, RequestKeeps DEF Arrives

\* EnrollReadSection remembers a capacity the section has.
LEMMA EnrollReadSectionKeeps ==
  ASSUME IInv, NEW h \in Handlers, NEW c \in Sections, EnrollReadSection(h, c)
  PROVE  IInv'
<1> DEFINE request == [IdleStudent EXCEPT !.step = "located", !.section = c,
                                          !.capacity = section[c].capacity]
<1>1. section[c] \in SectionRow
  BY DEF IInv, Typed
<1>2. request \in StudentRequest /\ Arrives(h, c, request)
  BY <1>1 DEF EnrollReadSection, IdleStudent, StudentRequest, StudentStep,
       EnrollmentStatus, SectionRow
<1>3. handler'[h] = request /\ request.step = "located" /\ request.section = c
        /\ request.capacity = section[c].capacity
  BY <1>2 DEF IInv, Typed, IdleStudent, Arrives
<1>4. section[c].capacity <= section[c].largest /\ section[c].state # "new"
  BY DEF IInv, Seats, CapacitiesSound, EnrollReadSection
<1>5. Knows(h)'
  BY <1>2, <1>3, <1>4 DEF Knows, Target, Enrolling, Leaving, Arrives
<1> HIDE DEF request
<1> QED BY <1>2, <1>3, <1>5, ArrivesKeeps

\* EnrollReadExisting reads the row, which is not enrolled.
LEMMA EnrollReadExistingKeeps ==
  ASSUME IInv, NEW h \in Handlers, EnrollReadExisting(h)
  PROVE  IInv'
<1>1. CASE Row(h) = "ENROLLED"
  BY <1>1, AnswerKeeps DEF EnrollReadExisting
<1>2. CASE Row(h) # "ENROLLED"
  <2> DEFINE request == [handler[h] EXCEPT !.step = "known", !.existing = Row(h)]
  <2>1. handler[h] \in StudentRequest /\ Knows(h) /\ handler[h].step = "located"
    BY DEF IInv, Typed, HandlersKnow, EnrollReadExisting
  <2>2. Target(h) \in Sections /\ Mine(h) \in Students
    BY <2>1, EnrollmentAssumption DEF Knows, Mine
  <2>3. Row(h) \in EnrollmentStatus
    BY <2>2 DEF IInv, Typed, Row
  <2>4. request \in StudentRequest /\ handler' = [handler EXCEPT ![h] = request]
    BY <1>2, <2>1, <2>3 DEF EnrollReadExisting, StudentRequest, StudentStep
  <2>5. handler'[h] = request /\ request.step = "known" /\ request.existing = Row(h)
          /\ request.section = Target(h) /\ request.capacity = handler[h].capacity
    BY <2>1, <2>4 DEF IInv, Typed, StudentRequest, Target
  <2>6. Knows(h)'
    BY <1>2, <2>1, <2>5 DEF Knows, Alone, Target, Row, Mine, Enrolling, Leaving,
          EnrollReadExisting
  <2> HIDE DEF request
  <2> QED BY <2>1, <2>4, <2>5, <2>6, ReadKeeps DEF EnrollReadExisting, Target
<1> QED BY <1>1, <1>2

\* The checks of an enrollment keep what was known and add what they found.
LEMMA EnrollChecksKeep ==
  ASSUME IInv, NEW h \in Handlers, EnrollCheckDuplicate(h) \/ EnrollCheckPrerequisites(h)
  PROVE  IInv'
<1>1. handler[h] \in StudentRequest /\ Knows(h)
  BY DEF IInv, Typed, HandlersKnow
<1>2. CASE EnrollCheckDuplicate(h)
  <2> DEFINE check == ~TakesCourse(Mine(h), CourseOf[Target(h)])
  <2>1. ASSUME check PROVE Knows(h)'
    <3>1. handler'[h] = [handler[h] EXCEPT !.step = "single"] /\ handler[h].step = "known"
      BY <1>2, <2>1 DEF EnrollCheckDuplicate, Check, IInv, Typed
    <3>2. /\ handler'[h].step = "single" /\ handler'[h].section = handler[h].section
          /\ handler'[h].capacity = handler[h].capacity
          /\ handler'[h].existing = handler[h].existing
      BY <1>1, <3>1 DEF StudentRequest
    <3> QED BY <1>1, <1>2, <2>1, <3>1, <3>2
         DEF Knows, Alone, Target, Row, Mine, TakesCourse, Enrolling, Leaving,
             EnrollCheckDuplicate, Check
  <2>2. Check(h, "known", check, "single")
    BY <1>2 DEF EnrollCheckDuplicate
  <2> HIDE DEF check
  <2> QED BY <2>1, <2>2, CheckKeeps DEF StudentStep
<1>3. CASE EnrollCheckPrerequisites(h)
  <2> DEFINE check == \A p \in Prerequisites[CourseOf[Target(h)]] : hasPassedCourse(Mine(h), p)
  <2>1. ASSUME check PROVE Knows(h)'
    <3>1. handler'[h] = [handler[h] EXCEPT !.step = "qualified"] /\ handler[h].step = "single"
      BY <1>3, <2>1 DEF EnrollCheckPrerequisites, Check, IInv, Typed
    <3>2. /\ handler'[h].step = "qualified" /\ handler'[h].section = handler[h].section
          /\ handler'[h].capacity = handler[h].capacity
          /\ handler'[h].existing = handler[h].existing
      BY <1>1, <3>1 DEF StudentRequest
    <3>3. UNCHANGED <<section, status, raced>>
      BY <1>3 DEF EnrollCheckPrerequisites, Check
    <3>4. /\ Target(h)' = Target(h) /\ Mine(h)' = Mine(h) /\ Alone(h)' = Alone(h)
          /\ Row(h)' = Row(h)
      BY <3>2, <3>3 DEF Target, Mine, Alone, Row
    <3> QED BY <1>1, <3>1, <3>2, <3>3, <3>4 DEF Knows, Enrolling, Leaving
  <2>2. Check(h, "single", check, "qualified")
    BY <1>3 DEF EnrollCheckPrerequisites
  <2> HIDE DEF check
  <2> QED BY <2>1, <2>2, CheckKeeps DEF StudentStep
<1> QED BY <1>2, <1>3

\* Dropping and withdrawing begin with a row that is enrolled.
LEMMA BeginKeeps ==
  ASSUME IInv, NEW h \in Handlers, NEW c \in Sections, NEW step \in {"dropping", "withdrawing"},
         Begin(h, c, step)
  PROVE  IInv'
<1> DEFINE request == [IdleStudent EXCEPT !.step = step, !.section = c]
<1>1. request \in StudentRequest /\ Arrives(h, c, request)
  BY DEF Begin, IdleStudent, StudentRequest, StudentStep, EnrollmentStatus
<1>2. handler'[h] = request /\ request.step = step /\ request.section = c
  BY <1>1 DEF IInv, Typed, IdleStudent, Arrives
<1>3. Mine(h) \in Students /\ status[Mine(h)][c] = "ENROLLED"
  BY EnrollmentAssumption DEF Mine, Begin
<1>4. section[c].state = "offered"
  BY <1>3 DEF IInv, Seats, RowsOffered
<1>5. Knows(h)'
  BY <1>1, <1>2, <1>3, <1>4 DEF Knows, Target, Row, Mine, Enrolling, Leaving, Arrives
<1> HIDE DEF request
<1> QED BY <1>1, <1>2, <1>5, ArrivesKeeps

\* The check of a withdrawal finds the row enrolled, as it was.
LEMMA WithdrawCheckKeeps ==
  ASSUME IInv, NEW h \in Handlers, WithdrawCheckResults(h)
  PROVE  IInv'
<1>1. handler[h] \in StudentRequest /\ Knows(h)
  BY DEF IInv, Typed, HandlersKnow
<1> DEFINE check == grade[Mine(h)][Target(h)] = "none"
<1>2. ASSUME check PROVE Knows(h)'
  <2>1. handler'[h] = [handler[h] EXCEPT !.step = "ungraded"] /\ handler[h].step = "withdrawing"
    BY <1>2 DEF WithdrawCheckResults, Check, IInv, Typed
  <2>2. handler'[h].step = "ungraded" /\ handler'[h].section = handler[h].section
    BY <1>1, <2>1 DEF StudentRequest
  <2> QED BY <1>1, <2>1, <2>2 DEF Knows, Alone, Target, Row, Mine, Enrolling, Leaving,
               WithdrawCheckResults, Check
<1>3. Check(h, "withdrawing", check, "ungraded")
  BY DEF WithdrawCheckResults
<1> HIDE DEF check
<1> QED BY <1>2, <1>3, CheckKeeps DEF StudentStep

-----------------------------------------------------------------------------
(***************************************************************************)
(* Steps of requests that write a row, and with it the counter.            *)
(***************************************************************************)

\* Sections that are there stay, and have had the capacities they have had.
SectionsGoOn ==
  \A c \in Sections : section[c].state # "new" =>
    section'[c].state # "new" /\ section[c].largest <= section'[c].largest

\* A request knows what it knew if nothing wrote its row while it was alone, and
\* what else was written of its student's was so by requests on record.
LEMMA KnowsOn ==
  ASSUME Typed, Typed', NEW h \in Handlers, Knows(h), handler'[h] = handler[h],
         SectionsGoOn, UNCHANGED raced,
         handler[h].step # "idle" =>
           /\ Row(h) # "NONE" => status'[Mine(h)][Target(h)] # "NONE"
           /\ Alone(h) => status'[Mine(h)][Target(h)] = Row(h)
           /\ \A d \in Sections \ {Target(h)} :
                status'[Mine(h)][d] = "ENROLLED" =>
                  status[Mine(h)][d] = "ENROLLED" \/ <<Mine(h), Target(h), d>> \in raced
  PROVE  Knows(h)'
<1>1. CASE handler[h].step = "idle"
  BY <1>1 DEF Knows, Enrolling, Leaving
<1>2. CASE handler[h].step # "idle"
  <2>1. /\ Target(h) \in Sections /\ section[Target(h)].state # "new"
        /\ handler[h].capacity \in Nat
    BY <1>2 DEF Knows, Typed, StudentRequest
  <2>2. section[Target(h)].largest \in Nat /\ section'[Target(h)].largest \in Nat
    BY <2>1 DEF Typed, SectionRow
  <2>3. section'[Target(h)].state # "new"
        /\ section[Target(h)].largest <= section'[Target(h)].largest
    BY <2>1 DEF SectionsGoOn
  <2>4. handler[h].capacity <= section[Target(h)].largest
          => handler[h].capacity <= section'[Target(h)].largest
    BY <2>1, <2>2, <2>3
  <2>5. Target(h)' = Target(h) /\ Mine(h)' = Mine(h) /\ Alone(h)' = Alone(h)
        /\ Row(h)' = status'[Mine(h)][Target(h)]
    BY DEF Target, Mine, Alone, Row
  <2> QED BY <1>2, <2>1, <2>3, <2>4, <2>5 DEF Knows, Enrolling, Leaving
<1> QED BY <1>1, <1>2

\* What writing a row, with a new value of the counter, does to the rest.
LEMMA RowWritten ==
  ASSUME IInv, NEW h \in Handlers, handler[h].step # "idle",
         NEW new \in EnrollmentStatus \ {"NONE"}, NEW count \in Int,
         section[Target(h)].state = "offered",
         handler' = [handler EXCEPT ![h] = IdleStudent],
         status' = [status EXCEPT ![Mine(h)][Target(h)] = new],
         section' = [section EXCEPT ![Target(h)].count = count],
         UNCHANGED <<grade, semester, admin, raced>>
  PROVE  /\ Typed' /\ RacesKnown' /\ HandlersKnow' /\ AdminsKnow'
         /\ RowsOffered' /\ CapacitiesSound'
         /\ Mine(h) \in Students /\ Target(h) \in Sections
         /\ \A s \in Students, c \in Sections :
              status'[s][c] = IF s = Mine(h) /\ c = Target(h) THEN new ELSE status[s][c]
         /\ \A c \in Sections :
              /\ section'[c].count = IF c = Target(h) THEN count ELSE section[c].count
              /\ section'[c].largest = section[c].largest
<1>1. Knows(h) /\ Typed
  BY DEF IInv, HandlersKnow
<1>2. Mine(h) \in Students /\ Target(h) \in Sections
  BY <1>1, EnrollmentAssumption DEF Knows, Mine
<1>3. \A s \in Students, c \in Sections :
        status'[s][c] = IF s = Mine(h) /\ c = Target(h) THEN new ELSE status[s][c]
  BY <1>1, <1>2 DEF Typed
<1>4. \A c \in Sections :
        /\ section'[c].count = IF c = Target(h) THEN count ELSE section[c].count
        /\ section'[c].largest = section[c].largest
        /\ section'[c].state = section[c].state
        /\ section'[c].capacity = section[c].capacity
  BY <1>1, <1>2 DEF Typed, SectionRow
<1>5. Typed'
  <2>1. section' \in [Sections -> SectionRow]
    BY <1>1, <1>2 DEF Typed, SectionRow
  <2>2. status' \in [Students -> [Sections -> EnrollmentStatus]]
    BY <1>1, <1>2 DEF Typed
  <2>3. handler' \in [Handlers -> StudentRequest]
    BY <1>1, IdleTyped DEF Typed
  <2> QED BY <1>1, <2>1, <2>2, <2>3 DEF Typed
<1>6. HandlersKnow'
  <2>1. SUFFICES ASSUME NEW k \in Handlers PROVE Knows(k)'
    BY DEF HandlersKnow
  <2>2. CASE k = h
    BY <1>1, <2>2, IdleKnows DEF Typed
  <2>3. CASE k # h
    <3>1. handler'[k] = handler[k] /\ Mine(k) \in Students /\ Knows(k)
      BY <1>1, <2>3, EnrollmentAssumption DEF IInv, HandlersKnow, Typed, Mine
    <3>2. SectionsGoOn
      BY <1>1, <1>4 DEF SectionsGoOn, Typed, SectionRow
    <3>3. ASSUME handler[k].step # "idle"
          PROVE  /\ Row(k) # "NONE" => status'[Mine(k)][Target(k)] # "NONE"
                 /\ Alone(k) => status'[Mine(k)][Target(k)] = Row(k)
                 /\ \A d \in Sections \ {Target(k)} :
                      status'[Mine(k)][d] = "ENROLLED" =>
                        status[Mine(k)][d] = "ENROLLED" \/ <<Mine(k), Target(k), d>> \in raced
      <4>1. Target(k) \in Sections
        BY <3>1, <3>3 DEF Knows
      <4>2. Mine(k) = Mine(h) => <<Mine(k), Target(k), Target(h)>> \in raced
        BY <2>3, <3>3 DEF IInv, RacesKnown
      <4>3. Alone(k) => status'[Mine(k)][Target(k)] = Row(k)
        BY <1>3, <3>1, <4>1, <4>2 DEF Alone, Row
      <4>4. Row(k) # "NONE" => status'[Mine(k)][Target(k)] # "NONE"
        BY <1>3, <3>1, <4>1 DEF Row
      <4> QED BY <1>3, <3>1, <4>2, <4>3, <4>4
    <3> QED BY <1>1, <1>5, <3>1, <3>2, <3>3, KnowsOn
  <2> QED BY <2>2, <2>3
<1>7. AdminsKnow'
  BY DEF IInv, AdminsKnow
<1>8. RowsOffered'
  BY <1>3, <1>4 DEF IInv, Seats, RowsOffered
<1>9. CapacitiesSound'
  BY <1>4 DEF IInv, Seats, CapacitiesSound
<1>10. RacesKnown'
  <2>1. \A k \in Handlers : handler'[k] = IF k = h THEN IdleStudent ELSE handler[k]
    BY <1>1 DEF Typed
  <2>2. \A k \in Handlers :
          \/ handler'[k].step = "idle"
          \/ handler[k].step # "idle" /\ handler'[k].section = handler[k].section
    BY <2>1 DEF IdleStudent
  <2> QED BY <2>2, RacesKept DEF IInv
<1> QED BY <1>2, <1>3, <1>4, <1>5, <1>6, <1>7, <1>8, <1>9, <1>10

\* EnrollCommit seats a student, below a capacity the section has had; one whose
\* request was alone had no seat, and gets into a second section of the course
\* only by a race on record.
LEMMA EnrollCommitKeeps ==
  ASSUME IInv, NEW h \in Handlers, EnrollCommit(h)
  PROVE  IInv'
<1>0. PICK s, c : s = Mine(h) /\ c = Target(h)
  OBVIOUS
<1>1. /\ Knows(h) /\ Typed /\ Seats /\ handler[h].step = "qualified"
      /\ SeatFree(h) /\ CanWriteRow(h) /\ raced' = raced
  BY DEF IInv, HandlersKnow, EnrollCommit, Answer
<1>2. /\ s \in Students /\ c \in Sections
      /\ OneAtATime(c) => status[s][c] \in {"NONE", "DROPPED"}
      /\ handler[h].capacity <= section[c].largest
  BY <1>0, <1>1, EnrollmentAssumption
     DEF Knows, Alone, OneAtATime, Mine, Row, CanWriteRow, Enrolling
<1>3. section[c].count \in Int /\ section[c].largest \in Nat /\ handler[h].capacity \in Nat
  BY <1>0, <1>1, <1>2 DEF Typed, SectionRow, StudentRequest
<1>4. section[c].state = "offered" /\ section[c].count < handler[h].capacity
  BY <1>0, <1>1 DEF SeatFree
<1>5. section' = [section EXCEPT ![Target(h)].count = section[c].count + 1]
  BY <1>0, <1>1, <1>2 DEF EnrollCommit, Typed, SectionRow
<1>6. /\ Typed' /\ RacesKnown' /\ HandlersKnow' /\ AdminsKnow'
      /\ RowsOffered' /\ CapacitiesSound'
      /\ \A t \in Students, d \in Sections :
           status'[t][d] = IF t = Mine(h) /\ d = Target(h) THEN "ENROLLED" ELSE status[t][d]
      /\ \A d \in Sections :
           /\ section'[d].count = IF d = Target(h) THEN section[c].count + 1 ELSE section[d].count
           /\ section'[d].largest = section[d].largest
  <2>1. section[c].count + 1 \in Int /\ "ENROLLED" \in EnrollmentStatus \ {"NONE"}
    BY <1>3 DEF EnrollmentStatus
  <2>2. /\ handler' = [handler EXCEPT ![h] = IdleStudent]
        /\ status' = [status EXCEPT ![Mine(h)][Target(h)] = "ENROLLED"]
        /\ UNCHANGED <<grade, semester, admin, raced>>
    BY DEF EnrollCommit, Answer
  <2> QED BY <1>0, <1>1, <1>4, <1>5, <2>1, <2>2, RowWritten
<1>7. \A d \in Sections \ {c} : Seated(d)' = Seated(d)
  BY <1>0, <1>6 DEF Seated
<1>8. OneAtATime(c) => Cardinality(Seated(c)') = Cardinality(Seated(c)) + 1
  <2> SUFFICES ASSUME OneAtATime(c) PROVE Cardinality(Seated(c)') = Cardinality(Seated(c)) + 1
    OBVIOUS
  <2>1. Seated(c)' = Seated(c) \cup {s} /\ s \notin Seated(c)
    BY <1>0, <1>2, <1>6 DEF Seated
  <2> QED BY <2>1, SeatedFinite, FS_AddElement
<1>9. SeatsMatch'
  <2>1. \A d \in Sections : OneAtATime(d)' = OneAtATime(d)
    BY <1>1 DEF OneAtATime
  <2>2. \A d \in Sections : OneAtATime(d) => section[d].count = Cardinality(Seated(d))
    BY <1>1 DEF Seats, SeatsMatch
  <2>3. OneAtATime(c) => section'[c].count = Cardinality(Seated(c)')
    BY <1>0, <1>2, <1>6, <1>8, <2>2
  <2>4. \A d \in Sections \ {c} : OneAtATime(d) => section'[d].count = Cardinality(Seated(d)')
    BY <1>0, <1>6, <1>7, <2>2
  <2> QED BY <2>1, <2>3, <2>4 DEF SeatsMatch
<1>10. CountsBounded'
  <2>1. section[c].count + 1 <= section[c].largest
    BY <1>2, <1>3, <1>4
  <2> QED BY <1>0, <1>1, <1>6, <2>1 DEF Seats, CountsBounded
<1>11. TwiceOnlyByRace'
  <2>1. \A d \in Sections \ {c} :
          CourseOf[d] = CourseOf[c] /\ status[s][d] = "ENROLLED"
            => <<s, c, d>> \in raced /\ <<s, d, c>> \in raced
    BY <1>0, <1>1, <1>2 DEF Knows, IInv, RacesKnown
  <2>2. SUFFICES ASSUME NEW t \in Students, NEW d \in Sections, NEW e \in Sections,
                        status'[t][d] = "ENROLLED", status'[t][e] = "ENROLLED",
                        CourseOf[d] = CourseOf[e], d # e
                 PROVE  <<t, d, e>> \in raced'
    BY DEF TwiceOnlyByRace
  <2>3. CASE t # s \/ (d # c /\ e # c)
    BY <1>0, <1>1, <1>6, <2>2, <2>3 DEF Seats, TwiceOnlyByRace
  <2>4. CASE t = s /\ d = c
    <3>1. status[s][e] = "ENROLLED"
      BY <1>0, <1>6, <2>2, <2>4
    <3> QED BY <1>1, <2>1, <2>2, <2>4, <3>1
  <2>5. CASE t = s /\ e = c
    <3>1. status[s][d] = "ENROLLED"
      BY <1>0, <1>6, <2>2, <2>5
    <3> QED BY <1>1, <2>1, <2>2, <2>5, <3>1
  <2> QED BY <2>3, <2>4, <2>5
<1> QED BY <1>6, <1>9, <1>10, <1>11 DEF IInv, Seats

\* DropCommit gives back a seat that, if the request was alone, was taken.
LEMMA DropCommitKeeps ==
  ASSUME IInv, NEW h \in Handlers, DropCommit(h)
  PROVE  IInv'
<1>0. PICK s, c : s = Mine(h) /\ c = Target(h)
  OBVIOUS
<1>1. Knows(h) /\ Typed /\ Seats /\ handler[h].step = "dropping" /\ raced' = raced
  BY DEF IInv, HandlersKnow, DropCommit, Answer
<1>2. /\ s \in Students /\ c \in Sections /\ status[s][c] # "NONE"
      /\ OneAtATime(c) => status[s][c] = "ENROLLED"
  BY <1>0, <1>1, EnrollmentAssumption DEF Knows, Alone, OneAtATime, Mine, Row, Leaving
<1>3. section[c].state = "offered" /\ section[c].count \in Int /\ section[c].largest \in Nat
  BY <1>1, <1>2 DEF Seats, RowsOffered, Typed, SectionRow
<1>4. section' = [section EXCEPT ![Target(h)].count = section[c].count - 1]
  BY <1>0, <1>1, <1>2 DEF DropCommit, Typed, SectionRow
<1>5. /\ Typed' /\ RacesKnown' /\ HandlersKnow' /\ AdminsKnow'
      /\ RowsOffered' /\ CapacitiesSound'
      /\ \A t \in Students, d \in Sections :
           status'[t][d] = IF t = Mine(h) /\ d = Target(h) THEN "DROPPED" ELSE status[t][d]
      /\ \A d \in Sections :
           /\ section'[d].count = IF d = Target(h) THEN section[c].count - 1 ELSE section[d].count
           /\ section'[d].largest = section[d].largest
  <2>1. section[c].count - 1 \in Int /\ "DROPPED" \in EnrollmentStatus \ {"NONE"}
    BY <1>3 DEF EnrollmentStatus
  <2>2. /\ handler' = [handler EXCEPT ![h] = IdleStudent]
        /\ status' = [status EXCEPT ![Mine(h)][Target(h)] = "DROPPED"]
        /\ UNCHANGED <<grade, semester, admin, raced>>
    BY DEF DropCommit, Answer
  <2> QED BY <1>0, <1>1, <1>3, <1>4, <2>1, <2>2, RowWritten
<1>6. \A d \in Sections \ {c} : Seated(d)' = Seated(d)
  BY <1>0, <1>5 DEF Seated
<1>7. OneAtATime(c) => Cardinality(Seated(c)') = Cardinality(Seated(c)) - 1
  <2> SUFFICES ASSUME OneAtATime(c) PROVE Cardinality(Seated(c)') = Cardinality(Seated(c)) - 1
    OBVIOUS
  <2>1. Seated(c)' = Seated(c) \ {s} /\ s \in Seated(c)
    BY <1>0, <1>2, <1>5 DEF Seated
  <2> QED BY <2>1, SeatedFinite, FS_RemoveElement
<1>8. SeatsMatch'
  <2>1. \A d \in Sections : OneAtATime(d)' = OneAtATime(d)
    BY <1>1 DEF OneAtATime
  <2>2. \A d \in Sections : OneAtATime(d) => section[d].count = Cardinality(Seated(d))
    BY <1>1 DEF Seats, SeatsMatch
  <2>3. OneAtATime(c) => section'[c].count = Cardinality(Seated(c)')
    BY <1>0, <1>2, <1>5, <1>7, <2>2
  <2>4. \A d \in Sections \ {c} : OneAtATime(d) => section'[d].count = Cardinality(Seated(d)')
    BY <1>0, <1>5, <1>6, <2>2
  <2> QED BY <2>1, <2>3, <2>4 DEF SeatsMatch
<1>9. CountsBounded'
  <2>1. section[c].count - 1 <= section[c].largest
    BY <1>1, <1>2, <1>3 DEF Seats, CountsBounded
  <2> QED BY <1>0, <1>1, <1>5, <2>1 DEF Seats, CountsBounded
<1>10. TwiceOnlyByRace'
  BY <1>0, <1>1, <1>2, <1>5 DEF Seats, TwiceOnlyByRace
<1> QED BY <1>5, <1>8, <1>9, <1>10 DEF IInv, Seats

\* WithdrawWrite leaves the seat taken.
LEMMA WithdrawWriteKeeps ==
  ASSUME IInv, NEW h \in Handlers, WithdrawWrite(h)
  PROVE  IInv'
<1>0. PICK s, c : s = Mine(h) /\ c = Target(h)
  OBVIOUS
<1>1. Knows(h) /\ Typed /\ Seats /\ handler[h].step = "ungraded" /\ raced' = raced
  BY DEF IInv, HandlersKnow, WithdrawWrite, Answer
<1>2. /\ s \in Students /\ c \in Sections /\ status[s][c] # "NONE"
      /\ OneAtATime(c) => status[s][c] = "ENROLLED"
  BY <1>0, <1>1, EnrollmentAssumption DEF Knows, Alone, OneAtATime, Mine, Row, Leaving
<1>3. section[c].state = "offered" /\ section[c].count \in Int
  BY <1>1, <1>2 DEF Seats, RowsOffered, Typed, SectionRow
<1>4. section' = [section EXCEPT ![Target(h)].count = section[c].count]
  BY <1>0, <1>1, <1>2 DEF WithdrawWrite, Typed, SectionRow
<1>5. /\ Typed' /\ RacesKnown' /\ HandlersKnow' /\ AdminsKnow'
      /\ RowsOffered' /\ CapacitiesSound'
      /\ \A t \in Students, d \in Sections :
           status'[t][d] = IF t = Mine(h) /\ d = Target(h) THEN "WITHDRAWN" ELSE status[t][d]
  <2>1. "WITHDRAWN" \in EnrollmentStatus \ {"NONE"}
    BY DEF EnrollmentStatus
  <2>2. /\ handler' = [handler EXCEPT ![h] = IdleStudent]
        /\ status' = [status EXCEPT ![Mine(h)][Target(h)] = "WITHDRAWN"]
        /\ UNCHANGED <<grade, semester, admin, raced>>
    BY DEF WithdrawWrite, Answer
  <2> QED BY <1>0, <1>1, <1>3, <1>4, <2>1, <2>2, RowWritten
<1>6. \A d \in Sections : OneAtATime(d)' = OneAtATime(d)
                          /\ (OneAtATime(d) => Seated(d)' = Seated(d))
  <2>1. \A d \in Sections : OneAtATime(d)' = OneAtATime(d)
    BY <1>1 DEF OneAtATime
  <2> QED BY <1>0, <1>2, <1>5, <2>1 DEF Seated
<1>7. SeatsMatch' /\ CountsBounded'
  BY <1>1, <1>6 DEF Seats, SeatsMatch, CountsBounded, WithdrawWrite
<1>8. TwiceOnlyByRace'
  BY <1>0, <1>1, <1>2, <1>5 DEF Seats, TwiceOnlyByRace
<1> QED BY <1>5, <1>7, <1>8 DEF IInv, Seats

-----------------------------------------------------------------------------
(***************************************************************************)
(* Administrators, results and the semester.                               *)
(***************************************************************************)

\* A step of an administrator that writes no section.
LEMMA AdminMoves ==
  ASSUME IInv, NEW a \in Admins, NEW request \in AdminRequest,
         request.step \in {"resizing", "deleting"} => request.section \in Sections,
         admin' = [admin EXCEPT ![a] = request], semester' \in SemesterStatus,
         UNCHANGED <<section, status, grade, handler, raced>>
  PROVE  IInv'
<1>1. Typed'
  BY DEF IInv, Typed
<1>2. Seats'
  BY SeatsKept DEF IInv
<1>3. HandlersKnow'
  <2>1. SUFFICES ASSUME NEW h \in Handlers PROVE Knows(h)'
    BY DEF HandlersKnow
  <2> QED BY KnowsKept DEF IInv, HandlersKnow
<1>4. AdminsKnow' /\ RacesKnown'
  BY DEF IInv, Typed, AdminsKnow, RacesKnown, Mine, Target
<1> QED BY <1>1, <1>2, <1>3, <1>4 DEF IInv

\* What an administrator asks for is read and remembered.
LEMMA AdminBeginsKeeps ==
  ASSUME IInv, NEW a \in Admins, NEW c \in Sections,
         \/ \E capacity \in Capacities[c] : UpdateSectionRead(a, c, capacity)
         \/ DeleteSectionRead(a, c)
         \/ \E new \in Announced : SemesterStatusRead(a, new)
  PROVE  IInv'
<1>1. Capacities[c] \subseteq Nat /\ Announced \subseteq SemesterStatus
  BY EnrollmentAssumption DEF SemesterStatus
<1>2. semester' \in SemesterStatus /\ UNCHANGED <<section, status, grade, handler, raced>>
  BY DEF IInv, Typed, UpdateSectionRead, DeleteSectionRead, SemesterStatusRead, AdminBegins
<1>3. PICK request \in AdminRequest :
        /\ admin' = [admin EXCEPT ![a] = request]
        /\ request.step \in {"resizing", "deleting"} => request.section \in Sections
  <2>1. CASE \E capacity \in Capacities[c] : UpdateSectionRead(a, c, capacity)
    <3>1. PICK capacity \in Nat : UpdateSectionRead(a, c, capacity)
      BY <1>1, <2>1
    <3>2. [IdleAdmin EXCEPT !.step = "resizing", !.section = c, !.capacity = capacity]
            \in AdminRequest
      BY <3>1 DEF IdleAdmin, AdminRequest, SemesterStatus
    <3> QED BY <3>1, <3>2 DEF UpdateSectionRead, AdminBegins, IdleAdmin
  <2>2. CASE DeleteSectionRead(a, c)
    <3>1. [IdleAdmin EXCEPT !.step = "deleting", !.section = c] \in AdminRequest
      BY DEF IdleAdmin, AdminRequest, SemesterStatus
    <3> QED BY <2>2, <3>1 DEF DeleteSectionRead, AdminBegins, IdleAdmin
  <2>3. CASE \E new \in Announced : SemesterStatusRead(a, new)
    <3>1. PICK new \in SemesterStatus : SemesterStatusRead(a, new)
      BY <1>1, <2>3
    <3>2. [IdleAdmin EXCEPT !.step = "switching", !.status = new] \in AdminRequest
      BY <3>1 DEF IdleAdmin, AdminRequest, SemesterStatus
    <3> QED BY <3>1, <3>2 DEF SemesterStatusRead, AdminBegins, IdleAdmin
  <2> QED BY <2>1, <2>2, <2>3
<1> QED BY <1>2, <1>3, AdminMoves

\* The semester takes the status that was asked for.
LEMMA SemesterStatusWriteKeeps ==
  ASSUME IInv, NEW a \in Admins, SemesterStatusWrite(a)
  PROVE  IInv'
<1>1. semester' \in SemesterStatus
  BY DEF IInv, Typed, SemesterStatusWrite, AdminRequest
<1>2. IdleAdmin.step = "idle"
  BY DEF IdleAdmin
<1> QED BY <1>1, <1>2, IdleTyped, AdminMoves DEF SemesterStatusWrite, AdminAnswers

\* A step that writes one section, keeping its counter and its capacities, and
\* its state unless it is a new one or one without rows.
LEMMA SectionWritten ==
  ASSUME IInv, NEW c \in Sections, NEW row \in SectionRow,
         section' = [section EXCEPT ![c] = row],
         OneAtATime(c) => row.count = section[c].count,
         row.count <= row.largest, row.capacity <= row.largest, row.state # "new",
         section[c].state = "new" \/ section[c].largest <= row.largest,
         (\A s \in Students : status[s][c] = "NONE") \/ row.state = "offered",
         admin' = admin \/ \E a \in Admins : admin' = [admin EXCEPT ![a] = IdleAdmin],
         UNCHANGED <<status, grade, semester, handler, raced>>
  PROVE  IInv'
<1>1. \A d \in Sections : section'[d] = IF d = c THEN row ELSE section[d]
  BY DEF IInv, Typed
<1>2. Typed'
  <2>1. section' \in [Sections -> SectionRow]
    BY DEF IInv, Typed
  <2>2. admin' \in [Admins -> AdminRequest]
    BY IdleTyped DEF IInv, Typed
  <2> QED BY <2>1, <2>2 DEF IInv, Typed
<1>3. SeatsMatch'
  <2>1. \A d \in Sections : OneAtATime(d)' = OneAtATime(d) /\ Seated(d)' = Seated(d)
    BY DEF OneAtATime, Seated
  <2> QED BY <1>1, <2>1 DEF IInv, Seats, SeatsMatch
<1>4. CountsBounded'
  BY <1>1 DEF IInv, Seats, CountsBounded
<1>5. TwiceOnlyByRace' /\ RowsOffered' /\ CapacitiesSound' /\ RacesKnown'
  BY <1>1 DEF IInv, Seats, TwiceOnlyByRace, RowsOffered, CapacitiesSound, RacesKnown,
              Mine, Target
<1>6. SectionsGoOn
  <2>1. \A d \in Sections : section[d].largest \in Nat
    BY DEF IInv, Typed, SectionRow
  <2> QED BY <1>1, <2>1 DEF SectionsGoOn
<1>7. HandlersKnow'
  <2>1. SUFFICES ASSUME NEW h \in Handlers PROVE Knows(h)'
    BY DEF HandlersKnow
  <2> QED BY <1>2, <1>6, KnowsOn DEF IInv, HandlersKnow, Row
<1>8. AdminsKnow'
  <2>1. \A a \in Admins : admin'[a] = admin[a] \/ admin'[a] = IdleAdmin
    BY DEF IInv, Typed
  <2> QED BY <2>1 DEF IInv, AdminsKnow, IdleAdmin
<1> QED BY <1>2, <1>3, <1>4, <1>5, <1>7, <1>8 DEF IInv, Seats

\* A section without rows has nobody seated, and its counter is zero.
LEMMA EmptySection ==
  ASSUME IInv, NEW c \in Sections, section[c].state # "offered"
  PROVE  (OneAtATime(c) => section[c].count = 0) /\ \A s \in Students : status[s][c] = "NONE"
<1>1. \A s \in Students : status[s][c] = "NONE"
  BY DEF IInv, Seats, RowsOffered
<1>2. Seated(c) = {}
  BY <1>1 DEF Seated
<1> QED BY <1>1, <1>2, FS_EmptySet DEF IInv, Seats, SeatsMatch

\* createSection makes a section without rows.
LEMMA CreateSectionKeeps ==
  ASSUME IInv, NEW c \in Sections, NEW capacity \in Nat, createSection(c, capacity)
  PROVE  IInv'
<1>1. OneAtATime(c) => section[c].count = 0
  BY EmptySection DEF createSection
<1> DEFINE row == [state |-> "offered", capacity |-> capacity, count |-> 0,
                   largest |-> capacity]
<1>2. /\ row \in SectionRow /\ row.state = "offered" /\ row.count = 0
      /\ row.count <= row.largest /\ row.capacity <= row.largest
      /\ section' = [section EXCEPT ![c] = row]
  BY <1>1 DEF SectionRow, createSection
<1> HIDE DEF row
<1> QED BY <1>1, <1>2, SectionWritten DEF createSection

\* A step that only answers an administrator.
LEMMA AdminAnswered ==
  ASSUME IInv, NEW a \in Admins, NEW from, AdminAnswers(a, from),
         UNCHANGED <<section, status, grade, semester, handler, raced>>
  PROVE  IInv'
<1>1. IdleAdmin.step = "idle" /\ semester' \in SemesterStatus
  BY DEF IdleAdmin, IInv, Typed
<1> QED BY <1>1, IdleTyped, AdminMoves DEF AdminAnswers

\* UpdateSectionWrite keeps the largest capacity there was.
LEMMA UpdateSectionWriteKeeps ==
  ASSUME IInv, NEW a \in Admins, UpdateSectionWrite(a)
  PROVE  IInv'
<1>1. CASE section' = section
  BY <1>1, AdminAnswered DEF UpdateSectionWrite
<1>2. CASE section' # section
  <2>1. PICK c \in Sections : c = admin[a].section
    BY DEF IInv, AdminsKnow, UpdateSectionWrite, AdminAnswers
  <2>2. PICK n \in Nat : n = admin[a].capacity
    BY DEF IInv, Typed, AdminRequest
  <2>3. section[c] \in SectionRow /\ section \in [Sections -> SectionRow]
        /\ section[c].largest \in Nat /\ section[c].capacity <= section[c].largest
        /\ section[c].count \in Int /\ section[c].count <= section[c].largest
    BY DEF IInv, Typed, SectionRow, Seats, CapacitiesSound, CountsBounded
  <2>4. section[c].state = "offered"
        /\ section' = [section EXCEPT ![c].capacity = n, ![c].largest = Larger(@, n)]
    BY <1>2, <2>1, <2>2 DEF UpdateSectionWrite
  <2>5. Larger(section[c].largest, n) \in Nat /\ n <= Larger(section[c].largest, n)
        /\ section[c].largest <= Larger(section[c].largest, n)
        /\ section[c].count <= Larger(section[c].largest, n)
    BY <2>3 DEF Larger
  <2> DEFINE row == [section[c] EXCEPT !.capacity = n,
                                       !.largest = Larger(section[c].largest, n)]
  <2>6. row \in SectionRow /\ row.count = section[c].count /\ row.state = "offered"
        /\ row.capacity = n /\ row.largest = Larger(section[c].largest, n)
    BY <2>3, <2>4, <2>5 DEF SectionRow
  <2>7. section' = [section EXCEPT ![c] = row]
    BY <2>3, <2>4
  <2> HIDE DEF row
  <2> QED BY <2>4, <2>5, <2>6, <2>7, SectionWritten DEF UpdateSectionWrite, AdminAnswers
<1> QED BY <1>1, <1>2

\* DeleteSectionWrite deletes no section with rows.
LEMMA DeleteSectionWriteKeeps ==
  ASSUME IInv, NEW a \in Admins, DeleteSectionWrite(a)
  PROVE  IInv'
<1>1. CASE section' = section
  BY <1>1, AdminAnswered DEF DeleteSectionWrite
<1>2. CASE section' # section
  <2>1. PICK c \in Sections : c = admin[a].section
    BY DEF IInv, AdminsKnow, DeleteSectionWrite, AdminAnswers
  <2>2. section[c] \in SectionRow /\ section \in [Sections -> SectionRow]
        /\ section[c].largest \in Nat /\ section[c].capacity <= section[c].largest
        /\ section[c].count \in Int /\ section[c].count <= section[c].largest
    BY DEF IInv, Typed, SectionRow, Seats, CapacitiesSound, CountsBounded
  <2>3. (\A s \in Students : status[s][c] = "NONE")
        /\ section' = [section EXCEPT ![c].state = "deleted"]
    BY <1>2, <2>1 DEF DeleteSectionWrite
  <2> DEFINE row == [section[c] EXCEPT !.state = "deleted"]
  <2>5. row \in SectionRow /\ row.count = section[c].count /\ row.state = "deleted"
        /\ row.count <= row.largest /\ row.capacity <= row.largest /\ section[c].largest <= row.largest
    BY <2>2 DEF SectionRow
  <2>6. section' = [section EXCEPT ![c] = row]
    BY <2>2, <2>3
  <2> HIDE DEF row
  <2> QED BY <2>2, <2>3, <2>5, <2>6, SectionWritten DEF DeleteSectionWrite, AdminAnswers
<1> QED BY <1>1, <1>2

\* What is published is no part of the rest.
LEMMA ResultsChangeKeeps ==
  ASSUME IInv, NEW s \in Students, NEW c \in Sections, NEW g \in Grades, ResultsChange(s, c, g)
  PROVE  IInv'
<1>1. Typed'
  BY DEF IInv, Typed, ResultsChange
<1>2. Seats'
  BY SeatsKept DEF IInv, ResultsChange
<1>3. HandlersKnow'
  <2>1. SUFFICES ASSUME NEW h \in Handlers PROVE Knows(h)'
    BY DEF HandlersKnow
  <2> QED BY KnowsKept DEF IInv, HandlersKnow, ResultsChange
<1>4. RacesKnown' /\ AdminsKnow'
  BY DEF IInv, RacesKnown, AdminsKnow, Mine, Target, ResultsChange
<1> QED BY <1>1, <1>2, <1>3, <1>4 DEF IInv

-----------------------------------------------------------------------------
(***************************************************************************)
(* The theorems.                                                           *)
(***************************************************************************)

\* At first there are no rows and no requests.
LEMMA Initially == Init => IInv
<1> SUFFICES ASSUME Init PROVE IInv
  OBVIOUS
<1>1. Typed
  BY IdleTyped, EnrollmentAssumption
     DEF Init, Typed, SectionRow, EnrollmentStatus, Grades, SemesterStatus
<1>2. \A c \in Sections : Seated(c) = {} /\ section[c].count = 0
                          /\ section[c].capacity \in Nat
                          /\ section[c].largest = section[c].capacity
  BY EnrollmentAssumption DEF Init, Seated
<1>3. Seats
  <2>1. SeatsMatch /\ CountsBounded
    BY <1>2, FS_EmptySet DEF SeatsMatch, CountsBounded
  <2>2. CapacitiesSound
    BY <1>2 DEF CapacitiesSound
  <2>3. TwiceOnlyByRace /\ RowsOffered
    BY DEF TwiceOnlyByRace, RowsOffered, Init
  <2> QED BY <2>1, <2>2, <2>3 DEF Seats
<1>4. HandlersKnow
  BY DEF HandlersKnow, Knows, Init, IdleStudent, Enrolling, Leaving
<1>5. AdminsKnow /\ RacesKnown
  BY DEF AdminsKnow, RacesKnown, Init, IdleAdmin, IdleStudent
<1> QED BY <1>1, <1>3, <1>4, <1>5 DEF IInv

\* Every step keeps the invariant.
LEMMA StepKeeps == IInv /\ [Next]_vars => IInv'
<1> SUFFICES ASSUME IInv, [Next]_vars PROVE IInv'
  OBVIOUS
<1>1. CASE UNCHANGED vars
  <2>1. Typed' /\ AdminsKnow' /\ RacesKnown'
    BY <1>1 DEF vars, IInv, Typed, AdminsKnow, RacesKnown, Mine, Target
  <2>2. Seats'
    BY <1>1, SeatsKept DEF vars, IInv
  <2>3. \A h \in Handlers : Knows(h)'
    BY <1>1, KnowsKept DEF vars, IInv, HandlersKnow
  <2> QED BY <2>1, <2>2, <2>3 DEF IInv, HandlersKnow
<1>2. ASSUME NEW h \in Handlers, NEW c \in Sections,
             EnrollReadSection(h, c) \/ DropRead(h, c) \/ WithdrawRead(h, c)
      PROVE  IInv'
  BY <1>2, EnrollReadSectionKeeps, BeginKeeps DEF DropRead, WithdrawRead
<1>3. ASSUME NEW h \in Handlers,
             \/ EnrollReadExisting(h) \/ EnrollCheckDuplicate(h) \/ EnrollCheckPrerequisites(h)
             \/ WithdrawCheckResults(h)
      PROVE  IInv'
  BY <1>3, EnrollReadExistingKeeps, EnrollChecksKeep, WithdrawCheckKeeps
<1>4. ASSUME NEW h \in Handlers, EnrollAborts(h) \/ HandlerDies(h) PROVE IInv'
  BY <1>4, AnswerKeeps DEF EnrollAborts, HandlerDies, Answer
<1>5. ASSUME NEW h \in Handlers, EnrollCommit(h) \/ DropCommit(h) \/ WithdrawWrite(h)
      PROVE  IInv'
  BY <1>5, EnrollCommitKeeps, DropCommitKeeps, WithdrawWriteKeeps
<1>6. ASSUME NEW c \in Sections, NEW capacity \in Capacities[c],
             createSection(c, capacity) \/ \E a \in Admins : UpdateSectionRead(a, c, capacity)
      PROVE  IInv'
  <2>1. capacity \in Nat
    BY EnrollmentAssumption
  <2> QED BY <1>6, <2>1, CreateSectionKeeps, AdminBeginsKeeps
<1>7. ASSUME NEW a \in Admins, NEW c \in Sections, DeleteSectionRead(a, c) PROVE IInv'
  BY <1>7, AdminBeginsKeeps
<1>8. ASSUME NEW a \in Admins, UpdateSectionWrite(a) \/ DeleteSectionWrite(a) PROVE IInv'
  BY <1>8, UpdateSectionWriteKeeps, DeleteSectionWriteKeeps
<1>9. ASSUME NEW a \in Admins, NEW new \in Announced, SemesterStatusRead(a, new) PROVE IInv'
  <2> DEFINE request == [IdleAdmin EXCEPT !.step = "switching", !.status = new]
  <2>1. request \in AdminRequest /\ request.step = "switching"
    BY EnrollmentAssumption DEF IdleAdmin, AdminRequest, SemesterStatus
  <2>2. /\ admin' = [admin EXCEPT ![a] = request] /\ semester' \in SemesterStatus
        /\ UNCHANGED <<section, status, grade, handler, raced>>
    BY <1>9 DEF SemesterStatusRead, AdminBegins, IInv, Typed
  <2> HIDE DEF request
  <2> QED BY <2>1, <2>2, AdminMoves
<1>10. ASSUME NEW a \in Admins, SemesterStatusWrite(a) PROVE IInv'
  BY <1>10, SemesterStatusWriteKeeps
<1>11. ASSUME NEW s \in Students, NEW c \in Sections, NEW g \in Grades, ResultsChange(s, c, g)
       PROVE  IInv'
  BY <1>11, ResultsChangeKeeps
<1> QED BY <1>1, <1>2, <1>3, <1>4, <1>5, <1>6, <1>7, <1>8, <1>9, <1>10, <1>11 DEF Next

\* The invariant holds in every state.
LEMMA Invariant == Spec => []IInv
BY Initially, StepKeeps, PTL DEF Spec

\* Rows and requests keep the types of the source; the counter of a section is
\* negative only where requests of one student for it were in flight together,
\* though a drop decrements it without looking (enrollment.service.ts:209).
THEOREM EnrollmentTypeCorrect == Spec => []TypeOK
<1>1. IInv => TypeOK
  BY SeatedFinite DEF IInv, Typed, TypeOK, Seats, SeatsMatch
<1> QED BY <1>1, Invariant, PTL

\* The counter of each section is the number of its seats that are taken, unless
\* requests of one student for it were in flight together
\* (enrollment.service.ts:154, 209, 224).
THEOREM CounterIsExact == Spec => []SeatsMatch
<1>1. IInv => SeatsMatch
  BY DEF IInv, Seats
<1> QED BY <1>1, Invariant, PTL

\* No counter exceeds the largest capacity its section has had, however many
\* requests and administrators are at work, and no more students than that are
\* seated, unless requests of one of them for it were in flight together
\* (enrollment.service.ts:155).
THEOREM SeatsStayBounded == Spec => []SeatsBounded
<1>1. IInv => SeatsBounded
  BY DEF IInv, Seats, SeatsMatch, CountsBounded, SeatsBounded
<1> QED BY <1>1, Invariant, PTL

\* A student enrolled in two sections of a course had requests for the two in
\* flight together (enrollment.service.ts:126).
THEOREM NoCourseTwiceWithoutRace == Spec => []TwiceOnlyByRace
<1>1. IInv => TwiceOnlyByRace
  BY DEF IInv, Seats
<1> QED BY <1>1, Invariant, PTL

\* Which rows a step writes, and over what.
LEMMA StepKeepsRows ==
  ASSUME IInv, Next, NEW s \in Students, NEW c \in Sections, status[s][c] # "NONE"
  PROVE  /\ status'[s][c] # "NONE"
         /\ status[s][c] = "WITHDRAWN" /\ <<s, c, c>> \notin raced
              => status'[s][c] = "WITHDRAWN"
<1> DEFINE Kept == /\ status'[s][c] # "NONE"
                   /\ status[s][c] = "WITHDRAWN" /\ <<s, c, c>> \notin raced
                        => status'[s][c] = "WITHDRAWN"
<1>1. ASSUME NEW h \in Handlers, NEW new \in {"ENROLLED", "DROPPED", "WITHDRAWN"},
             Alone(h) => Row(h) # "WITHDRAWN",
             status' = [status EXCEPT ![Mine(h)][Target(h)] = new]
      PROVE  Kept
  BY <1>1 DEF Row, Alone, IInv, Typed
<1>2. ASSUME NEW h \in Handlers, EnrollCommit(h) PROVE Kept
  <2>1. Alone(h) => Row(h) # "WITHDRAWN"
    BY <1>2 DEF IInv, HandlersKnow, Knows, EnrollCommit, Answer, CanWriteRow, Enrolling
  <2> QED BY <1>1, <1>2, <2>1 DEF EnrollCommit
<1>3. ASSUME NEW h \in Handlers, DropCommit(h) \/ WithdrawWrite(h) PROVE Kept
  <2>1. Alone(h) => Row(h) # "WITHDRAWN"
    BY <1>3 DEF IInv, HandlersKnow, Knows, DropCommit, WithdrawWrite, Answer, Leaving
  <2> QED BY <1>1, <1>3, <2>1 DEF DropCommit, WithdrawWrite
<1>4. CASE status' = status
  BY <1>4
<1>5. \/ status' = status
      \/ \E h \in Handlers : EnrollCommit(h) \/ DropCommit(h) \/ WithdrawWrite(h)
  BY DEF Next, EnrollReadSection, DropRead, WithdrawRead, Begin, Arrives,
         EnrollReadExisting,
         EnrollCheckDuplicate, EnrollCheckPrerequisites, Check, EnrollAborts,
         WithdrawCheckResults, HandlerDies, createSection, UpdateSectionRead, AdminBegins,
         UpdateSectionWrite, DeleteSectionRead, DeleteSectionWrite, SemesterStatusRead,
         SemesterStatusWrite, ResultsChange
<1> QED BY <1>2, <1>3, <1>4, <1>5

\* No row is ever deleted, nor a section with a row, and a withdrawal is final
\* unless requests of the student for the section were in flight together
\* (enrollment.service.ts:164, section.service.ts:303).
THEOREM RowsStay == Spec => RowsAreKept
<1>1. ASSUME IInv, IInv', Next
      PROVE  \A s \in Students, c \in Sections :
               status[s][c] # "NONE" =>
                 /\ status'[s][c] # "NONE" /\ section'[c].state = "offered"
                 /\ status[s][c] = "WITHDRAWN" /\ <<s, c, c>> \notin raced
                      => status'[s][c] = "WITHDRAWN"
  BY <1>1, StepKeepsRows DEF IInv, Seats, RowsOffered
<1> QED BY <1>1, Invariant, StepKeeps, PTL DEF Spec, RowsAreKept
=============================================================================
