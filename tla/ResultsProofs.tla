---------------------------- MODULE ResultsProofs ----------------------------
(***************************************************************************)
(* The results of any students, sections and exams, for any number of      *)
(* requests of staff and of GPA computations in flight, wherever they die  *)
(* and whatever Redis forgets: a published result stays published, results *)
(* and attendance are of participants, and a cached GPA is made from       *)
(* published results only.  Sums of marks are those of BillingProofs.      *)
(*                                                                         *)
(* What a request knows is stated of rows that are passed as values, so    *)
(* that it can be said of the rows before and the rows after a step.       *)
(***************************************************************************)
EXTENDS Results, BillingProofs

-----------------------------------------------------------------------------
(***************************************************************************)
(* The invariant.                                                          *)
(***************************************************************************)

Seated(rows, s, c) == rows[s][c] # "NONE"

\* A request of staff that is about to write results of some students, or mark
\* their attendance, was checked against enrollments there were.
Sound(q, rows, held) ==
  /\ q.step \in {"submitting", "upserting", "publishing", "overriding"} => q.exam \in Exams
  /\ q.step \in {"submitting", "upserting", "overriding"} =>
       \A s \in q.batch : Seated(rows, s, SectionOf[q.exam])
  /\ q.step = "marking" =>
       /\ q.session \in held
       /\ \A s \in q.batch : Seated(rows, s, q.session[1])

StaffSound == \A g \in Staff : Sound(staff[g], enrolled, sessions)

\* Each grade point is made from exams, all of the section and all published.
Disclosed(s, points, rows) ==
  \A c \in DOMAIN points : points[c].point # Incomplete =>
    /\ points[c].from # {}
    /\ \A e \in points[c].from : SectionOf[e] = c /\ rows[e][s].status = "PUBLISHED"

\* A computation holds what it may write to the cache.
ReadersSound ==
  \A r \in Readers : reader[r].step # "idle" =>
    /\ reader[r].student \in Students
    /\ Disclosed(reader[r].student, reader[r].payload.points, result)

CacheDisclosed ==
  \A s \in DOMAIN cache : Disclosed(s, cache[s].points, result)

IInv == /\ TypeOK /\ StaffSound /\ ReadersSound
        /\ RecordsOfParticipants /\ CacheDisclosed

\* The invariant says of the cache what the property says.
LEMMA InvariantImplies == IInv => CacheShowsPublished
BY DEF IInv, CacheDisclosed, Disclosed, CacheShowsPublished

-----------------------------------------------------------------------------
(***************************************************************************)
(* Grade points.                                                           *)
(***************************************************************************)

\* Some of the points there are have a greatest one.
LEMMA GreatestPoint ==
  ASSUME NEW T \in SUBSET {400, 375, 350, 325, 300, 275, 250, 225, 200, 0}, T # {}
  PROVE  Max(T) \in T
<1>1. \E x \in T : \A y \in T : x >= y
  <2>1. SUFFICES ASSUME \A x \in T : \E y \in T : ~(x >= y) PROVE FALSE
    OBVIOUS
  <2>2. 400 \notin T
    BY <2>1
  <2>3. 375 \notin T
    BY <2>1, <2>2
  <2>4. 350 \notin T
    BY <2>1, <2>2, <2>3
  <2>5. 325 \notin T
    BY <2>1, <2>2, <2>3, <2>4
  <2>6. 300 \notin T
    BY <2>1, <2>2, <2>3, <2>4, <2>5
  <2>7. 275 \notin T
    BY <2>1, <2>2, <2>3, <2>4, <2>5, <2>6
  <2>8. 250 \notin T
    BY <2>1, <2>2, <2>3, <2>4, <2>5, <2>6, <2>7
  <2>9. 225 \notin T
    BY <2>1, <2>2, <2>3, <2>4, <2>5, <2>6, <2>7, <2>8
  <2>10. 200 \notin T
    BY <2>1, <2>2, <2>3, <2>4, <2>5, <2>6, <2>7, <2>8, <2>9
  <2>11. \A x \in T : x = 0
    BY <2>2, <2>3, <2>4, <2>5, <2>6, <2>7, <2>8, <2>9, <2>10
  <2>12. PICK x \in T : TRUE
    OBVIOUS
  <2>13. PICK y \in T : ~(x >= y)
    BY <2>1
  <2> QED BY <2>11, <2>12, <2>13
<1> QED BY <1>1 DEF Max

\* Whatever the marks, a percentage has a grade point: the lowest band takes all.
LEMMA GradePointType ==
  ASSUME NEW obtained \in Nat, NEW total \in Nat
  PROVE  percentageToGradePoint(obtained, total) \in Points
<1> DEFINE T == {band[2] : band \in {b \in PERCENTAGE_TO_GRADE_POINT :
                                       obtained * 100 >= b[1] * total}}
<1>1. <<0, 0>> \in PERCENTAGE_TO_GRADE_POINT
  BY DEF PERCENTAGE_TO_GRADE_POINT
<1>2. 0 \in Points
  BY <1>1 DEF Points
<1>3. obtained * 100 >= <<0, 0>>[1] * total
  <2>1. obtained * 100 \in Nat /\ 0 * total = 0
    OBVIOUS
  <2>2. <<0, 0>>[1] = 0
    OBVIOUS
  <2> QED BY <2>1, <2>2
<1>4. <<0, 0>>[2] \in T
  BY <1>1, <1>3
<1>5. T \in SUBSET Points
  BY DEF Points
<1>6. Points = {400, 375, 350, 325, 300, 275, 250, 225, 200, 0}
  BY DEF Points, PERCENTAGE_TO_GRADE_POINT
<1>7. Max(T) \in Points
  <2>1. T \in SUBSET {400, 375, 350, 325, 300, 275, 250, 225, 200, 0}
    <3> HIDE DEF T
    <3> QED BY <1>5, <1>6
  <2>2. T # {}
    BY <1>4
  <2>3. Max(T) \in T
    <3> HIDE DEF T
    <3> QED BY <2>1, <2>2, GreatestPoint
  <2> QED BY <2>3, <1>5
<1> QED BY <1>2, <1>7 DEF percentageToGradePoint

\* A section read for a student gives a grade point only from published results.
LEMMA SectionPointSound ==
  ASSUME TypeOK, NEW s \in Students, NEW c \in Sections
  PROVE  /\ getSectionGradePoint(s, c) \in Points \cup {Incomplete}
         /\ ExamsOf(c) \subseteq Exams
         /\ getSectionGradePoint(s, c) # Incomplete =>
              /\ ExamsOf(c) # {}
              /\ \A e \in ExamsOf(c) : SectionOf[e] = c /\ result[e][s].status = "PUBLISHED"
<1> DEFINE marks == [e \in Exams |-> result[e][s].marks]
           T == ExamsOf(c)
<1>1. T \in SUBSET Exams /\ IsFiniteSet(T)
  <2>1. T \in SUBSET Exams
    BY DEF TypeOK, ExamsOf
  <2> QED BY <2>1, FS_Subset, ResultsAssumption
<1>2. \A e \in T : marks[e] \in Nat /\ TotalMarks[e] \in Nat
  BY <1>1, ResultsAssumption DEF TypeOK, Result
<1>3. SumFunctionOnSet(marks, T) \in Nat /\ SumFunctionOnSet(TotalMarks, T) \in Nat
  <2> HIDE DEF T, marks
  <2> QED BY <1>1, <1>2, SumNat
<1>4. SectionPoint(s, c) \in Points
  BY <1>3, GradePointType DEF SectionPoint
<1> QED BY <1>1, <1>4 DEF getSectionGradePoint, ExamsOf

-----------------------------------------------------------------------------
(***************************************************************************)
(* What other steps leave true.                                            *)
(***************************************************************************)

\* What a request knows stays true: rows and sessions are never taken away.
LEMMA SoundKept ==
  ASSUME NEW q \in StaffRequest, NEW rows, NEW rows2, NEW held, NEW held2,
         Sound(q, rows, held), held \subseteq held2, held \subseteq Sections \X Days,
         \A s \in Students, c \in Sections : Seated(rows, s, c) => Seated(rows2, s, c)
  PROVE  Sound(q, rows2, held2)
<1>1. q.batch \subseteq Students
  BY DEF StaffRequest
<1>2. q.exam \in Exams => SectionOf[q.exam] \in Sections
  BY ResultsAssumption
<1>3. q.session \in held => q.session[1] \in Sections
  OBVIOUS
<1> QED BY <1>1, <1>2, <1>3 DEF Sound

\* A payload is made from exams.
LEMMA PayloadFrom ==
  ASSUME NEW payload \in Payload
  PROVE  \A c \in DOMAIN payload.points : payload.points[c].from \subseteq Exams
BY DEF Payload, SectionRead

\* What was disclosed stays published.
LEMMA DisclosedKept ==
  ASSUME NEW s, NEW points, NEW rows, NEW rows2, Disclosed(s, points, rows),
         \A c \in DOMAIN points : points[c].from \subseteq Exams,
         \A e \in Exams : rows[e][s].status = "PUBLISHED" => rows2[e][s].status = "PUBLISHED"
  PROVE  Disclosed(s, points, rows2)
BY DEF Disclosed

\* Nothing is disclosed by an empty entry.
LEMMA NothingDisclosed ==
  ASSUME NEW s, NEW rows
  PROVE  NoEntry \in Payload /\ Disclosed(s, NoEntry.points, rows)
<1>1. NoEntry.points = [c \in {} |-> 0] /\ NoEntry.withdrawn = {}
  BY DEF NoEntry
<1>2. [c \in {} |-> 0] \in [{} -> SectionRead]
  OBVIOUS
<1> QED BY <1>1, <1>2 DEF Disclosed, Payload, NoEntry

\* The idle requests know nothing and are requests.
LEMMA IdleSound ==
  /\ IdleStaff \in StaffRequest /\ \A rows, held : Sound(IdleStaff, rows, held)
  /\ IdleReader \in ReaderRequest
<1>1. IdleStaff \in StaffRequest
  BY DEF IdleStaff, StaffRequest, StaffStep
<1>2. IdleReader \in ReaderRequest
  BY NothingDisclosed DEF IdleReader, ReaderRequest, ReaderStep
<1> QED BY <1>1, <1>2 DEF IdleStaff, Sound

\* A request that moves is another one; the others are as they were.
LEMMA StaffMoves ==
  ASSUME TypeOK, NEW g \in Staff, NEW from, NEW request \in StaffRequest,
         StaffMove(g, from, request)
  PROVE  /\ staff' \in [Staff -> StaffRequest] /\ staff'[g] = request
         /\ \A k \in Staff \ {g} : staff'[k] = staff[k]
         /\ staff[g] \in StaffRequest /\ staff[g].step = from
BY DEF TypeOK, StaffMove

LEMMA ReaderMoves ==
  ASSUME TypeOK, NEW r \in Readers, NEW from, NEW request \in ReaderRequest,
         ReaderMove(r, from, request)
  PROVE  /\ reader' \in [Readers -> ReaderRequest] /\ reader'[r] = request
         /\ \A k \in Readers \ {r} : reader'[k] = reader[k]
         /\ reader[r] \in ReaderRequest /\ reader[r].step = from
BY DEF TypeOK, ReaderMove

\* What is stored, and what computations hold, when a step changes none of it.
Book == <<exams, result, audit, classbook, enrolled>>

\* A step that writes only a request of staff keeps all, if what the request is
\* left to do is sound.
LEMMA StaffOnlyKeeps ==
  ASSUME IInv, NEW g \in Staff, NEW from, NEW request \in StaffRequest,
         StaffMove(g, from, request), Sound(request, enrolled, sessions),
         UNCHANGED <<Book, cache, reader>>
  PROVE  IInv'
<1> USE DEF Book, classbook
<1>1. /\ staff' \in [Staff -> StaffRequest] /\ staff'[g] = request
      /\ \A k \in Staff \ {g} : staff'[k] = staff[k]
  BY StaffMoves DEF IInv
<1>2. TypeOK'
  BY <1>1 DEF IInv, TypeOK
<1>3. StaffSound'
  BY <1>1 DEF IInv, StaffSound
<1>4. ReadersSound' /\ RecordsOfParticipants' /\ CacheDisclosed'
  BY DEF IInv, ReadersSound, RecordsOfParticipants, CacheDisclosed
<1> QED BY <1>2, <1>3, <1>4 DEF IInv

\* The same of a computation.
LEMMA ReaderOnlyKeeps ==
  ASSUME IInv, NEW r \in Readers, NEW from, NEW request \in ReaderRequest,
         ReaderMove(r, from, request),
         request.step # "idle" =>
           /\ request.student \in Students
           /\ Disclosed(request.student, request.payload.points, result),
         UNCHANGED <<Book, cache, staff>>
  PROVE  IInv'
<1> USE DEF Book, classbook
<1>1. /\ reader' \in [Readers -> ReaderRequest] /\ reader'[r] = request
      /\ \A k \in Readers \ {r} : reader'[k] = reader[k]
  BY ReaderMoves DEF IInv
<1>2. TypeOK'
  BY <1>1 DEF IInv, TypeOK
<1>3. ReadersSound'
  BY <1>1 DEF IInv, ReadersSound
<1>4. StaffSound' /\ RecordsOfParticipants' /\ CacheDisclosed'
  BY DEF IInv, StaffSound, RecordsOfParticipants, CacheDisclosed
<1> QED BY <1>2, <1>3, <1>4 DEF IInv

\* Results of participants may be written, if what is published stays so.
LEMMA ResultsWritten ==
  ASSUME IInv, NEW g \in Staff, NEW from, NEW request \in StaffRequest,
         StaffMove(g, from, request), Sound(request, enrolled, sessions),
         result' \in [Exams -> [Students -> Result]],
         audit' \in [Exams -> [Students -> Nat]],
         \A e \in Exams, s \in Students :
           /\ result[e][s].status = "PUBLISHED" => result'[e][s].status = "PUBLISHED"
           /\ result'[e][s].status # "NONE" =>
                result[e][s].status # "NONE" \/ Seated(enrolled, s, SectionOf[e]),
         UNCHANGED <<exams, classbook, enrolled, cache, reader>>
  PROVE  IInv'
<1> USE DEF classbook
<1>1. /\ staff' \in [Staff -> StaffRequest] /\ staff'[g] = request
      /\ \A k \in Staff \ {g} : staff'[k] = staff[k]
  BY StaffMoves DEF IInv
<1>2. TypeOK'
  BY <1>1 DEF IInv, TypeOK
<1>3. StaffSound'
  BY <1>1 DEF IInv, StaffSound
<1>4. \A s \in Students, e \in Exams :
        result[e][s].status = "PUBLISHED" => result'[e][s].status = "PUBLISHED"
  OBVIOUS
<1>5. ReadersSound'
  <2> SUFFICES ASSUME NEW r \in Readers, reader[r].step # "idle"
               PROVE  /\ reader[r].student \in Students
                      /\ Disclosed(reader[r].student, reader[r].payload.points, result')
    BY DEF ReadersSound
  <2>1. /\ reader[r].student \in Students
        /\ Disclosed(reader[r].student, reader[r].payload.points, result)
        /\ reader[r].payload \in Payload
    BY DEF IInv, ReadersSound, TypeOK, ReaderRequest
  <2>2. \A c \in DOMAIN reader[r].payload.points :
          reader[r].payload.points[c].from \subseteq Exams
    BY <2>1, PayloadFrom
  <2> QED BY <1>4, <2>1, <2>2, DisclosedKept
<1>6. CacheDisclosed'
  <2> SUFFICES ASSUME NEW s \in DOMAIN cache
               PROVE  Disclosed(s, cache[s].points, result')
    BY DEF CacheDisclosed
  <2>1. s \in Students /\ Disclosed(s, cache[s].points, result) /\ cache[s] \in Payload
    BY DEF IInv, TypeOK, CacheDisclosed
  <2>2. \A c \in DOMAIN cache[s].points : cache[s].points[c].from \subseteq Exams
    BY <2>1, PayloadFrom
  <2> QED BY <1>4, <2>1, <2>2, DisclosedKept
<1>7. RecordsOfParticipants'
  BY DEF IInv, RecordsOfParticipants, Seated
<1> QED BY <1>2, <1>3, <1>5, <1>6, <1>7 DEF IInv

-----------------------------------------------------------------------------
(***************************************************************************)
(* Exams and staff.                                                        *)
(***************************************************************************)

\* A new exam takes nothing away.
LEMMA CreateExamsKeeps ==
  ASSUME IInv, NEW new \in SUBSET Exams, createExams(new)
  PROVE  IInv'
<1>1. /\ exams' = exams \cup new
      /\ UNCHANGED <<result, audit, sessions, attended, enrolled, cache, staff, reader>>
  BY DEF createExams, classbook
<1>2. TypeOK'
  BY <1>1 DEF IInv, TypeOK
<1>3. StaffSound' /\ RecordsOfParticipants'
  BY <1>1 DEF IInv, StaffSound, RecordsOfParticipants
<1>4. ReadersSound' /\ CacheDisclosed'
  BY <1>1 DEF IInv, ReadersSound, CacheDisclosed, Disclosed
<1> QED BY <1>2, <1>3, <1>4 DEF IInv

\* The checks of submitResults, publishExamResults and overrideResult, and of
\* markAttendance: what they find is what the request knows.
LEMMA SubmitChecksKeep ==
  ASSUME IInv, NEW g \in Staff
  PROVE  /\ \A e \in Exams, batch \in SUBSET Students, marks \in Marks :
              SubmitCheckEnrolled(g, e, batch, marks) => IInv'
         /\ SubmitCheckPublished(g) => IInv'
<1> USE DEF Book
<1>1. ASSUME NEW e \in Exams, NEW batch \in SUBSET Students, NEW marks \in Marks,
             SubmitCheckEnrolled(g, e, batch, marks)
      PROVE  IInv'
  <2> DEFINE request == [IdleStaff EXCEPT !.step = "submitting", !.exam = e,
                                          !.batch = batch, !.marks = marks]
  <2>1. /\ request \in StaffRequest /\ request.step = "submitting"
        /\ request.exam = e /\ request.batch = batch
    BY ResultsAssumption DEF IdleStaff, StaffRequest, StaffStep
  <2>2. StaffMove(g, "idle", request) /\ UNCHANGED <<Book, cache, reader>>
    BY <1>1 DEF SubmitCheckEnrolled
  <2>3. Sound(request, enrolled, sessions)
    BY <1>1, <2>1 DEF SubmitCheckEnrolled, Sound, Seated
  <2> HIDE DEF request
  <2> QED BY <2>1, <2>2, <2>3, StaffOnlyKeeps
<1>2. ASSUME SubmitCheckPublished(g) PROVE IInv'
  <2> DEFINE request == [staff[g] EXCEPT !.step = "upserting"]
  <2>1. /\ staff[g] \in StaffRequest /\ Sound(staff[g], enrolled, sessions)
        /\ staff[g].step = "submitting"
    BY <1>2 DEF IInv, TypeOK, StaffSound, SubmitCheckPublished
  <2>2. /\ request \in StaffRequest /\ request.step = "upserting"
        /\ request.exam = staff[g].exam /\ request.batch = staff[g].batch
    BY <2>1 DEF StaffRequest, StaffStep
  <2>3. Sound(request, enrolled, sessions)
    BY <2>1, <2>2 DEF Sound
  <2>4. /\ StaffMove(g, "submitting", IdleStaff) \/ StaffMove(g, "submitting", request)
        /\ UNCHANGED <<Book, cache, reader>>
    BY <1>2 DEF SubmitCheckPublished
  <2> HIDE DEF request
  <2> QED BY <2>2, <2>3, <2>4, IdleSound, StaffOnlyKeeps
<1> QED BY <1>1, <1>2

LEMMA PublishCheckDraftsKeeps ==
  ASSUME IInv, NEW g \in Staff, NEW e \in Exams, PublishCheckDrafts(g, e)
  PROVE  IInv'
<1> USE DEF Book
<1> DEFINE request == [IdleStaff EXCEPT !.step = "publishing", !.exam = e]
<1>1. request \in StaffRequest /\ request.step = "publishing" /\ request.exam = e
  BY DEF IdleStaff, StaffRequest, StaffStep
<1>2. StaffMove(g, "idle", request) /\ UNCHANGED <<Book, cache, reader>>
  BY DEF PublishCheckDrafts
<1>3. Sound(request, enrolled, sessions)
  BY <1>1 DEF Sound
<1> HIDE DEF request
<1> QED BY <1>1, <1>2, <1>3, StaffOnlyKeeps

LEMMA OverrideReadKeeps ==
  ASSUME IInv, NEW g \in Staff, NEW e \in Exams, NEW s \in Students, NEW marks \in Marks,
         OverrideRead(g, e, s, marks)
  PROVE  IInv'
<1> USE DEF Book
<1> DEFINE request == [IdleStaff EXCEPT !.step = "overriding", !.exam = e,
                                        !.batch = {s}, !.marks = marks]
<1>1. /\ request \in StaffRequest /\ request.step = "overriding"
      /\ request.exam = e /\ request.batch = {s}
  BY ResultsAssumption DEF IdleStaff, StaffRequest, StaffStep
<1>2. StaffMove(g, "idle", request) /\ UNCHANGED <<Book, cache, reader>>
  BY DEF OverrideRead
<1>3. Seated(enrolled, s, SectionOf[e])
  BY DEF OverrideRead, IInv, RecordsOfParticipants, Seated
<1>4. Sound(request, enrolled, sessions)
  BY <1>1, <1>3 DEF Sound
<1> HIDE DEF request
<1> QED BY <1>1, <1>2, <1>4, StaffOnlyKeeps

LEMMA MarkCheckEnrolledKeeps ==
  ASSUME IInv, NEW g \in Staff, NEW session \in Sections \X Days,
         NEW batch \in SUBSET Students, MarkCheckEnrolled(g, session, batch)
  PROVE  IInv'
<1> USE DEF Book
<1> DEFINE request == [IdleStaff EXCEPT !.step = "marking", !.session = session,
                                        !.batch = batch]
<1>1. /\ request \in StaffRequest /\ request.step = "marking"
      /\ request.session = session /\ request.batch = batch
  BY DEF IdleStaff, StaffRequest, StaffStep
<1>2. StaffMove(g, "idle", request) /\ UNCHANGED <<Book, cache, reader>>
  BY DEF MarkCheckEnrolled
<1>3. Sound(request, enrolled, sessions)
  BY <1>1 DEF MarkCheckEnrolled, Sound, Seated
<1> HIDE DEF request
<1> QED BY <1>1, <1>2, <1>3, StaffOnlyKeeps

\* Entering results: what is published is entered again as published.
LEMMA SubmitWriteKeeps ==
  ASSUME IInv, NEW g \in Staff, SubmitWrite(g)
  PROVE  IInv'
<1> DEFINE e == staff[g].exam
           batch == staff[g].batch
<1>1. /\ staff[g] \in StaffRequest /\ Sound(staff[g], enrolled, sessions)
      /\ staff[g].step = "upserting"
  BY DEF IInv, TypeOK, StaffSound, SubmitWrite, StaffMove
<1>2. /\ e \in Exams /\ batch \subseteq Students /\ staff[g].marks \in Nat
      /\ \A s \in batch : Seated(enrolled, s, SectionOf[e])
  BY <1>1 DEF Sound, StaffRequest
<1>3. result \in [Exams -> [Students -> Result]]
  BY DEF IInv, TypeOK
<1>4. result' = [result EXCEPT ![e] = [s \in Students |->
                   IF s \in batch THEN Upserted(@[s], staff[g].marks) ELSE @[s]]]
  BY DEF SubmitWrite
<1>5. ASSUME NEW row \in Result
      PROVE  /\ Upserted(row, staff[g].marks) \in Result
             /\ row.status = "PUBLISHED" => Upserted(row, staff[g].marks).status = "PUBLISHED"
  BY <1>2 DEF Upserted, Result
<1> HIDE DEF e, batch
<1>6. result' \in [Exams -> [Students -> Result]]
  BY <1>2, <1>3, <1>4, <1>5
<1>7. ASSUME NEW d \in Exams, NEW s \in Students
      PROVE  /\ result[d][s].status = "PUBLISHED" => result'[d][s].status = "PUBLISHED"
             /\ result'[d][s].status # "NONE" =>
                  result[d][s].status # "NONE" \/ Seated(enrolled, s, SectionOf[d])
  <2>1. CASE d = e /\ s \in batch
    <3>1. result'[d][s] = Upserted(result[d][s], staff[g].marks) /\ result[d][s] \in Result
      BY <2>1, <1>3, <1>4
    <3> QED BY <2>1, <3>1, <1>2, <1>5
  <2>2. CASE ~(d = e /\ s \in batch)
    <3>1. result'[d][s] = result[d][s]
      BY <2>2, <1>3, <1>4
    <3> QED BY <3>1
  <2> QED BY <2>1, <2>2
<1>8. /\ StaffMove(g, "upserting", IdleStaff) /\ audit' \in [Exams -> [Students -> Nat]]
      /\ UNCHANGED <<exams, classbook, enrolled, cache, reader>>
  BY DEF SubmitWrite, IInv, TypeOK
<1> QED BY <1>6, <1>7, <1>8, IdleSound, ResultsWritten

\* Publishing writes rows there are.
LEMMA PublishWriteKeeps ==
  ASSUME IInv, NEW g \in Staff, PublishWrite(g)
  PROVE  IInv'
<1> DEFINE e == staff[g].exam
           request == [IdleStaff EXCEPT !.step = "invalidating",
                         !.batch = {s \in Students : result[e][s].status # "NONE"}]
<1>1. /\ staff[g] \in StaffRequest /\ Sound(staff[g], enrolled, sessions)
      /\ staff[g].step = "publishing"
  BY DEF IInv, TypeOK, StaffSound, PublishWrite, StaffMove
<1>2. e \in Exams
  BY <1>1 DEF Sound
<1>3. request \in StaffRequest /\ Sound(request, enrolled, sessions)
  BY DEF IdleStaff, StaffRequest, StaffStep, Sound
<1>4. result \in [Exams -> [Students -> Result]]
  BY DEF IInv, TypeOK
<1>5. result' = [result EXCEPT ![e] = [s \in Students |->
             IF @[s].status = "DRAFT" THEN [@[s] EXCEPT !.status = "PUBLISHED"] ELSE @[s]]]
  BY DEF PublishWrite
<1>6. /\ StaffMove(g, "publishing", request) /\ audit' \in [Exams -> [Students -> Nat]]
      /\ UNCHANGED <<exams, classbook, enrolled, cache, reader>>
  BY DEF PublishWrite, IInv, TypeOK
<1>7. ASSUME NEW row \in Result
      PROVE  /\ [row EXCEPT !.status = "PUBLISHED"] \in Result
             /\ [row EXCEPT !.status = "PUBLISHED"].status = "PUBLISHED"
  BY DEF Result
<1> HIDE DEF e, request
<1>8. result' \in [Exams -> [Students -> Result]]
  BY <1>2, <1>4, <1>5, <1>7
<1>9. ASSUME NEW d \in Exams, NEW s \in Students
      PROVE  /\ result[d][s].status = "PUBLISHED" => result'[d][s].status = "PUBLISHED"
             /\ result'[d][s].status # "NONE" =>
                  result[d][s].status # "NONE" \/ Seated(enrolled, s, SectionOf[d])
  <2>1. CASE d = e /\ result[d][s].status = "DRAFT"
    BY <2>1
  <2>2. CASE ~(d = e /\ result[d][s].status = "DRAFT")
    <3>1. result'[d][s] = result[d][s]
      BY <2>2, <1>4, <1>5
    <3> QED BY <3>1
  <2> QED BY <2>1, <2>2
<1> QED BY <1>3, <1>6, <1>8, <1>9, ResultsWritten

\* Overriding writes a row there is.
LEMMA OverrideWriteKeeps ==
  ASSUME IInv, NEW g \in Staff, NEW s \in Students, OverrideWrite(g, s)
  PROVE  IInv'
<1> DEFINE e == staff[g].exam
           request == [IdleStaff EXCEPT !.step = "invalidating", !.batch = {s}]
           row == [status |-> "PUBLISHED", marks |-> staff[g].marks]
<1>1. /\ staff[g] \in StaffRequest /\ Sound(staff[g], enrolled, sessions)
      /\ staff[g].step = "overriding" /\ s \in staff[g].batch
  BY DEF IInv, TypeOK, StaffSound, OverrideWrite, StaffMove
<1>2. e \in Exams /\ Seated(enrolled, s, SectionOf[e]) /\ row \in Result
  BY <1>1 DEF Sound, StaffRequest, Result
<1>3. request \in StaffRequest /\ Sound(request, enrolled, sessions)
  BY DEF IdleStaff, StaffRequest, StaffStep, Sound
<1>4. result \in [Exams -> [Students -> Result]] /\ audit \in [Exams -> [Students -> Nat]]
  BY DEF IInv, TypeOK
<1>5. /\ result' = [result EXCEPT ![e][s] = row]
      /\ audit' = [audit EXCEPT ![e][s] = @ + 1]
  BY DEF OverrideWrite
<1>6. /\ StaffMove(g, "overriding", request)
      /\ UNCHANGED <<exams, classbook, enrolled, cache, reader>>
  BY DEF OverrideWrite
<1>7. row.status = "PUBLISHED"
  OBVIOUS
<1> HIDE DEF e, request, row
<1>8. /\ result' \in [Exams -> [Students -> Result]]
      /\ audit' \in [Exams -> [Students -> Nat]]
  BY <1>2, <1>4, <1>5
<1>9. ASSUME NEW d \in Exams, NEW t \in Students
      PROVE  /\ result[d][t].status = "PUBLISHED" => result'[d][t].status = "PUBLISHED"
             /\ result'[d][t].status # "NONE" =>
                  result[d][t].status # "NONE" \/ Seated(enrolled, t, SectionOf[d])
  <2>1. CASE d = e /\ t = s
    <3>1. result'[d][t] = row
      BY <2>1, <1>2, <1>4, <1>5
    <3> QED BY <2>1, <3>1, <1>2, <1>7
  <2>2. CASE ~(d = e /\ t = s)
    <3>1. result'[d][t] = result[d][t]
      BY <2>2, <1>4, <1>5
    <3> QED BY <3>1
  <2> QED BY <2>1, <2>2
<1> QED BY <1>3, <1>6, <1>8, <1>9, ResultsWritten

\* A cache with fewer keys discloses no more.
LEMMA CacheShrinks ==
  ASSUME IInv, NEW s,
         cache' = Restrict(cache, DOMAIN cache \ {s}), UNCHANGED <<exams, result>>
  PROVE  /\ DOMAIN cache' \subseteq Students
         /\ \A t \in DOMAIN cache' : cache'[t] \in Payload
         /\ CacheDisclosed'
<1>1. DOMAIN cache' = DOMAIN cache \ {s} /\ \A t \in DOMAIN cache' : cache'[t] = cache[t]
  BY DEF Restrict
<1> QED BY <1>1 DEF IInv, TypeOK, CacheDisclosed

\* Deleting keys, whether Redis does or fails, keeps all.
LEMMA InvalidateKeeps ==
  ASSUME IInv, NEW g \in Staff, NEW s \in Students, Invalidate(g, s)
  PROVE  IInv'
<1> DEFINE request == [staff[g] EXCEPT !.batch = @ \ {s}]
<1>1. /\ staff[g] \in StaffRequest /\ staff[g].step = "invalidating"
  BY DEF IInv, TypeOK, Invalidate, StaffMove
<1>2. request \in StaffRequest /\ request.step = "invalidating"
  BY <1>1 DEF StaffRequest
<1>3. Sound(request, enrolled, sessions)
  BY <1>2 DEF Sound
<1>4. \/ StaffMove(g, "invalidating", IdleStaff)
      \/ StaffMove(g, "invalidating", request)
  BY DEF Invalidate
<1> HIDE DEF request
<1>5. /\ staff' \in [Staff -> StaffRequest] /\ Sound(staff'[g], enrolled, sessions)
      /\ \A k \in Staff \ {g} : staff'[k] = staff[k]
  BY <1>2, <1>3, <1>4, IdleSound, StaffMoves DEF IInv
<1>6. UNCHANGED <<exams, result, audit, sessions, attended, enrolled, reader>>
  BY DEF Invalidate, classbook
<1>7. /\ DOMAIN cache' \subseteq Students
      /\ \A t \in DOMAIN cache' : cache'[t] \in Payload
      /\ CacheDisclosed'
  <2>1. CASE cache' = cache
    BY <2>1, <1>6 DEF IInv, TypeOK, CacheDisclosed
  <2>2. CASE cache' = Restrict(cache, DOMAIN cache \ {s})
    BY <2>2, <1>6, CacheShrinks
  <2> QED BY <2>1, <2>2 DEF Invalidate
<1>8. TypeOK'
  BY <1>5, <1>6, <1>7 DEF IInv, TypeOK
<1>9. StaffSound'
  BY <1>5, <1>6 DEF IInv, StaffSound
<1>10. ReadersSound' /\ RecordsOfParticipants'
  BY <1>6 DEF IInv, ReadersSound, RecordsOfParticipants
<1> QED BY <1>7, <1>8, <1>9, <1>10 DEF IInv

\* A new session takes nothing away.
LEMMA CreateSessionKeeps ==
  ASSUME IInv, NEW session \in Sections \X Days, createAttendanceSession(session)
  PROVE  IInv'
<1>1. /\ sessions' = sessions \cup {session}
      /\ UNCHANGED <<exams, result, audit, attended, enrolled, cache, staff, reader>>
  BY DEF createAttendanceSession
<1>2. TypeOK'
  BY <1>1 DEF IInv, TypeOK
<1>3. StaffSound'
  <2> SUFFICES ASSUME NEW g \in Staff PROVE Sound(staff[g], enrolled, sessions')
    BY <1>1 DEF StaffSound
  <2>1. /\ staff[g] \in StaffRequest /\ Sound(staff[g], enrolled, sessions)
        /\ sessions \subseteq Sections \X Days
    BY DEF IInv, TypeOK, StaffSound
  <2> QED BY <1>1, <2>1, SoundKept
<1>4. ReadersSound' /\ RecordsOfParticipants' /\ CacheDisclosed'
  BY <1>1 DEF IInv, ReadersSound, RecordsOfParticipants, CacheDisclosed
<1> QED BY <1>2, <1>3, <1>4 DEF IInv

\* Those marked were checked against the enrollments.
LEMMA MarkWriteKeeps ==
  ASSUME IInv, NEW g \in Staff, MarkWrite(g)
  PROVE  IInv'
<1> DEFINE session == staff[g].session
           batch == staff[g].batch
<1>1. /\ staff[g] \in StaffRequest /\ Sound(staff[g], enrolled, sessions)
      /\ staff[g].step = "marking"
  BY DEF IInv, TypeOK, StaffSound, MarkWrite, StaffMove
<1>2. /\ session \in sessions /\ batch \subseteq Students
      /\ \A s \in batch : enrolled[s][session[1]] # "NONE"
  BY <1>1 DEF Sound, StaffRequest, Seated
<1>3. /\ StaffMove(g, "marking", IdleStaff)
      /\ attended' = attended \cup ({session} \X batch)
      /\ UNCHANGED <<exams, result, audit, sessions, enrolled, cache, reader>>
  BY DEF MarkWrite
<1> HIDE DEF session, batch
<1>4. /\ staff' \in [Staff -> StaffRequest] /\ staff'[g] = IdleStaff
      /\ \A k \in Staff \ {g} : staff'[k] = staff[k]
  BY <1>3, StaffMoves, IdleSound DEF IInv
<1>5. attended' \subseteq sessions' \X Students
  BY <1>2, <1>3 DEF IInv, TypeOK
<1>6. TypeOK'
  BY <1>3, <1>4, <1>5 DEF IInv, TypeOK
<1>7. StaffSound'
  BY <1>3, <1>4, IdleSound DEF IInv, StaffSound
<1>8. RecordsOfParticipants'
  <2>1. \A mark \in {session} \X batch : enrolled[mark[2]][mark[1][1]] # "NONE"
    BY <1>2
  <2> QED BY <1>3, <2>1 DEF IInv, RecordsOfParticipants
<1>9. ReadersSound' /\ CacheDisclosed'
  BY <1>3 DEF IInv, ReadersSound, CacheDisclosed
<1> QED BY <1>6, <1>7, <1>8, <1>9 DEF IInv

LEMMA StaffDiesKeeps ==
  ASSUME IInv, NEW g \in Staff, StaffDies(g)
  PROVE  IInv'
<1>1. StaffMove(g, staff[g].step, IdleStaff) /\ UNCHANGED <<Book, cache, reader>>
  BY DEF StaffDies, StaffMove, Book
<1> QED BY <1>1, IdleSound, StaffOnlyKeeps

-----------------------------------------------------------------------------
(***************************************************************************)
(* Computations of a GPA, the cache and enrollments.                       *)
(***************************************************************************)

\* What is read of the enrollments discloses nothing.
LEMMA GpaReadsKeep ==
  ASSUME IInv, NEW r \in Readers
  PROVE  /\ \A s \in Students : GpaCacheMiss(r, s) => IInv'
         /\ GpaReadEnrollments(r) => IInv'
         /\ GpaReadWithdrawals(r) => IInv'
<1> USE DEF Book
<1>0. /\ reader[r] \in ReaderRequest
      /\ reader[r].step # "idle" =>
           /\ reader[r].student \in Students
           /\ Disclosed(reader[r].student, reader[r].payload.points, result)
      /\ \A s, st : In(s, st) \subseteq Sections
  BY DEF IInv, TypeOK, ReadersSound, In
<1>1. ASSUME NEW s \in Students, GpaCacheMiss(r, s) PROVE IInv'
  <2> DEFINE request == [IdleReader EXCEPT !.step = "enrollments", !.student = s]
  <2>1. /\ request \in ReaderRequest /\ request.student = s
        /\ request.payload = NoEntry
    BY IdleSound DEF IdleReader, ReaderRequest, ReaderStep
  <2>2. ReaderMove(r, "idle", request) /\ UNCHANGED <<Book, cache, staff>>
    BY <1>1 DEF GpaCacheMiss
  <2>3. Disclosed(request.student, request.payload.points, result)
    BY <2>1, NothingDisclosed
  <2> HIDE DEF request
  <2> QED BY <2>1, <2>2, <2>3, ReaderOnlyKeeps
<1>2. ASSUME GpaReadEnrollments(r) PROVE IInv'
  <2> DEFINE request == [reader[r] EXCEPT !.step = "withdrawals",
                                          !.todo = In(reader[r].student, "ENROLLED")]
  <2>1. /\ request \in ReaderRequest /\ request.student = reader[r].student
        /\ request.payload = reader[r].payload
    BY <1>0 DEF ReaderRequest, ReaderStep
  <2>2. /\ ReaderMove(r, "enrollments", request) /\ UNCHANGED <<Book, cache, staff>>
        /\ reader[r].step = "enrollments"
    BY <1>2 DEF GpaReadEnrollments
  <2> HIDE DEF request
  <2> QED BY <1>0, <2>1, <2>2, ReaderOnlyKeeps
<1>3. ASSUME GpaReadWithdrawals(r) PROVE IInv'
  <2> DEFINE request == [reader[r] EXCEPT !.step = "sections",
                           !.payload.withdrawn = In(reader[r].student, "WITHDRAWN")]
  <2>1. /\ request \in ReaderRequest /\ request.student = reader[r].student
        /\ request.payload.points = reader[r].payload.points
    BY <1>0 DEF ReaderRequest, ReaderStep, Payload
  <2>2. /\ ReaderMove(r, "withdrawals", request) /\ UNCHANGED <<Book, cache, staff>>
        /\ reader[r].step = "withdrawals"
    BY <1>3 DEF GpaReadWithdrawals
  <2> HIDE DEF request
  <2> QED BY <1>0, <2>1, <2>2, ReaderOnlyKeeps
<1> QED BY <1>1, <1>2, <1>3

\* A section read adds its grade point, made from published results.
LEMMA GpaReadSectionKeeps ==
  ASSUME IInv, NEW r \in Readers, NEW c \in Sections, GpaReadSection(r, c)
  PROVE  IInv'
<1> USE DEF Book
<1> DEFINE s == reader[r].student
           points == reader[r].payload.points
           read == [point |-> getSectionGradePoint(s, c), from |-> ExamsOf(c)]
           new == [d \in DOMAIN points \cup {c} |-> IF d = c THEN read ELSE points[d]]
           request == [reader[r] EXCEPT !.todo = @ \ {c}, !.payload.points = new]
<1>1. /\ reader[r] \in ReaderRequest /\ reader[r].step = "sections"
      /\ s \in Students /\ Disclosed(s, points, result)
  BY DEF IInv, TypeOK, ReadersSound, GpaReadSection, ReaderMove
<1>2. /\ read \in SectionRead
      /\ read.point # Incomplete =>
           /\ read.from # {}
           /\ \A e \in read.from : SectionOf[e] = c /\ result[e][s].status = "PUBLISHED"
  BY <1>1, SectionPointSound DEF IInv, SectionRead
<1>3. /\ DOMAIN points \subseteq Sections
      /\ \A d \in DOMAIN points : points[d] \in SectionRead
  BY <1>1 DEF ReaderRequest, Payload
<1> HIDE DEF read, points, s
<1>4. new \in UNION {[d -> SectionRead] : d \in SUBSET Sections}
  <2>1. DOMAIN points \cup {c} \in SUBSET Sections
    BY <1>3
  <2>2. new \in [DOMAIN points \cup {c} -> SectionRead]
    BY <1>2, <1>3
  <2> HIDE DEF new
  <2> QED BY <2>1, <2>2
<1>5. Disclosed(s, new, result)
  BY <1>1, <1>2 DEF Disclosed
<1> HIDE DEF new
<1>6. /\ request \in ReaderRequest /\ request.student = s
      /\ request.payload.points = new
  BY <1>1, <1>4 DEF ReaderRequest, Payload, s
<1>7. ReaderMove(r, "sections", request) /\ UNCHANGED <<Book, cache, staff>>
  BY DEF GpaReadSection, new, read, points, s
<1> HIDE DEF request
<1> QED BY <1>1, <1>5, <1>6, <1>7, ReaderOnlyKeeps

\* A computation writes to the cache what it holds.
LEMMA GpaWriteKeeps ==
  ASSUME IInv, NEW r \in Readers, GpaWrite(r)
  PROVE  IInv'
<1> DEFINE s == reader[r].student
           payload == reader[r].payload
<1>1. /\ reader[r] \in ReaderRequest /\ s \in Students /\ payload \in Payload
      /\ Disclosed(s, payload.points, result)
  BY DEF IInv, TypeOK, ReadersSound, GpaWrite, ReaderRequest
<1>2. /\ reader' \in [Readers -> ReaderRequest] /\ reader'[r] = IdleReader
      /\ \A k \in Readers \ {r} : reader'[k] = reader[k]
  BY ReaderMoves, IdleSound DEF GpaWrite, IInv
<1>3. UNCHANGED <<exams, result, audit, sessions, attended, enrolled, staff>>
  BY DEF GpaWrite, classbook
<1>4. \/ cache' = cache
      \/ cache' = [t \in DOMAIN cache \cup {s} |-> IF t = s THEN payload ELSE cache[t]]
  BY DEF GpaWrite
<1> HIDE DEF s, payload
<1>5. /\ DOMAIN cache' \subseteq Students
      /\ \A t \in DOMAIN cache' : cache'[t] \in Payload
      /\ CacheDisclosed'
  <2>1. CASE cache' = cache
    BY <2>1, <1>3 DEF IInv, TypeOK, CacheDisclosed
  <2>2. CASE cache' = [t \in DOMAIN cache \cup {s} |-> IF t = s THEN payload ELSE cache[t]]
    <3>1. DOMAIN cache' = DOMAIN cache \cup {s}
      BY <2>2
    <3>2. ASSUME NEW t \in DOMAIN cache'
          PROVE  /\ t \in Students /\ cache'[t] \in Payload
                 /\ Disclosed(t, cache'[t].points, result)
      <4>1. CASE t = s
        BY <4>1, <2>2, <3>1, <1>1
      <4>2. CASE t # s
        <5>1. t \in DOMAIN cache /\ cache'[t] = cache[t]
          BY <4>2, <2>2, <3>1
        <5> QED BY <5>1 DEF IInv, TypeOK, CacheDisclosed
      <4> QED BY <4>1, <4>2
    <3> QED BY <3>2, <1>3 DEF CacheDisclosed
  <2> QED BY <1>4, <2>1, <2>2
<1>6. TypeOK'
  BY <1>2, <1>3, <1>5 DEF IInv, TypeOK
<1>7. ReadersSound'
  BY <1>2, <1>3 DEF IInv, ReadersSound, IdleReader
<1>8. StaffSound' /\ RecordsOfParticipants'
  BY <1>3 DEF IInv, StaffSound, RecordsOfParticipants
<1> QED BY <1>5, <1>6, <1>7, <1>8 DEF IInv

LEMMA ReaderDiesKeeps ==
  ASSUME IInv, NEW r \in Readers, ReaderDies(r)
  PROVE  IInv'
<1>1. ReaderMove(r, reader[r].step, IdleReader) /\ UNCHANGED <<Book, cache, staff>>
  BY DEF ReaderDies, ReaderMove, Book
<1>2. IdleReader.step = "idle"
  BY DEF IdleReader
<1> QED BY <1>1, <1>2, IdleSound, ReaderOnlyKeeps

LEMMA GpaExpiresKeeps ==
  ASSUME IInv, NEW s \in Students, GpaExpires(s)
  PROVE  IInv'
<1>1. /\ cache' = Restrict(cache, DOMAIN cache \ {s})
      /\ UNCHANGED <<exams, result, audit, sessions, attended, enrolled, staff, reader>>
  BY DEF GpaExpires, classbook
<1>2. /\ DOMAIN cache' \subseteq Students
      /\ \A t \in DOMAIN cache' : cache'[t] \in Payload
      /\ CacheDisclosed'
  BY <1>1, CacheShrinks
<1>3. TypeOK'
  BY <1>1, <1>2 DEF IInv, TypeOK
<1>4. StaffSound' /\ ReadersSound' /\ RecordsOfParticipants'
  BY <1>1 DEF IInv, StaffSound, ReadersSound, RecordsOfParticipants
<1> QED BY <1>2, <1>3, <1>4 DEF IInv

\* No row of an enrollment is taken away.
LEMMA EnrollmentMovesKeeps ==
  ASSUME IInv, NEW s \in Students, NEW c \in Sections, NEW new \in EnrollmentStatus,
         EnrollmentMoves(s, c, new)
  PROVE  IInv'
<1>1. /\ enrolled' = [enrolled EXCEPT ![s][c] = new] /\ new # "NONE"
      /\ UNCHANGED <<exams, result, audit, sessions, attended, cache, staff, reader>>
  BY DEF EnrollmentMoves, classbook
<1>2. enrolled \in [Students -> [Sections -> EnrollmentStatus]]
  BY DEF IInv, TypeOK
<1>3. enrolled' \in [Students -> [Sections -> EnrollmentStatus]]
  BY <1>1, <1>2
<1>4. \A t \in Students, d \in Sections : Seated(enrolled, t, d) => Seated(enrolled', t, d)
  BY <1>1, <1>2 DEF Seated
<1>5. TypeOK'
  BY <1>1, <1>3 DEF IInv, TypeOK
<1>6. StaffSound'
  <2> SUFFICES ASSUME NEW g \in Staff PROVE Sound(staff[g], enrolled', sessions)
    BY <1>1 DEF StaffSound
  <2>1. /\ staff[g] \in StaffRequest /\ Sound(staff[g], enrolled, sessions)
        /\ sessions \subseteq Sections \X Days
    BY DEF IInv, TypeOK, StaffSound
  <2> QED BY <1>4, <2>1, SoundKept
<1>7. RecordsOfParticipants'
  <2>1. \A e \in Exams : SectionOf[e] \in Sections
    BY ResultsAssumption
  <2>2. \A mark \in attended : mark[2] \in Students /\ mark[1][1] \in Sections
    BY DEF IInv, TypeOK
  <2> QED BY <1>1, <1>4, <2>1, <2>2 DEF IInv, RecordsOfParticipants, Seated
<1>8. ReadersSound' /\ CacheDisclosed'
  BY <1>1 DEF IInv, ReadersSound, CacheDisclosed
<1> QED BY <1>5, <1>6, <1>7, <1>8 DEF IInv

-----------------------------------------------------------------------------
(***************************************************************************)
(* The theorems.                                                           *)
(***************************************************************************)

LEMMA Initially == Init => IInv
<1> SUFFICES ASSUME Init PROVE IInv
  OBVIOUS
<1>1. /\ exams = {} /\ sessions = {} /\ attended = {}
      /\ \A e \in Exams, s \in Students : result[e][s].status = "NONE"
      /\ DOMAIN cache = {}
      /\ \A g \in Staff : staff[g] = IdleStaff
      /\ \A r \in Readers : reader[r] = IdleReader
  BY DEF Init, NoRow
<1>2. TypeOK
  BY <1>1, IdleSound DEF Init, TypeOK, NoRow, Result, EnrollmentStatus
<1>3. StaffSound
  BY <1>1, IdleSound DEF StaffSound
<1>4. ReadersSound /\ RecordsOfParticipants /\ CacheDisclosed
  BY <1>1 DEF ReadersSound, RecordsOfParticipants, CacheDisclosed, IdleReader
<1> QED BY <1>2, <1>3, <1>4 DEF IInv

LEMMA StepKeeps == IInv /\ [Next]_vars => IInv'
<1> SUFFICES ASSUME IInv, [Next]_vars PROVE IInv'
  OBVIOUS
<1>1. ASSUME NEW g \in Staff, NEW e \in Exams, NEW batch \in SUBSET Students \ {{}},
             NEW marks \in Marks, SubmitCheckEnrolled(g, e, batch, marks)
      PROVE  IInv'
  BY <1>1, SubmitChecksKeep
<1>2. ASSUME NEW g \in Staff,
             \/ SubmitCheckPublished(g) \/ SubmitWrite(g) \/ PublishWrite(g)
             \/ MarkWrite(g) \/ StaffDies(g)
      PROVE  IInv'
  BY <1>2, SubmitChecksKeep, SubmitWriteKeeps, PublishWriteKeeps, MarkWriteKeeps,
     StaffDiesKeeps
<1>3. ASSUME NEW g \in Staff, NEW e \in Exams, PublishCheckDrafts(g, e) PROVE IInv'
  BY <1>3, PublishCheckDraftsKeeps
<1>4. ASSUME NEW g \in Staff, NEW e \in Exams, NEW s \in Students, NEW marks \in Marks,
             OverrideRead(g, e, s, marks)
      PROVE  IInv'
  BY <1>4, OverrideReadKeeps
<1>5. ASSUME NEW g \in Staff, NEW s \in Students, OverrideWrite(g, s) \/ Invalidate(g, s)
      PROVE  IInv'
  BY <1>5, OverrideWriteKeeps, InvalidateKeeps
<1>6. ASSUME NEW g \in Staff, NEW session \in Sections \X Days,
             NEW batch \in SUBSET Students \ {{}}, MarkCheckEnrolled(g, session, batch)
      PROVE  IInv'
  BY <1>6, MarkCheckEnrolledKeeps
<1>7. CASE StaffNext
  BY <1>1, <1>2, <1>3, <1>4, <1>5, <1>6, <1>7 DEF StaffNext
<1>8. CASE ReaderNext
  BY <1>8, GpaReadsKeep, GpaReadSectionKeeps, GpaWriteKeeps, ReaderDiesKeeps DEF ReaderNext
<1>9. CASE UNCHANGED vars
  <2>1. /\ UNCHANGED <<exams, result, audit, sessions, attended>>
        /\ UNCHANGED <<enrolled, cache, staff, reader>>
    BY <1>9 DEF vars, classbook
  <2> QED BY <2>1 DEF IInv, TypeOK, StaffSound, ReadersSound, RecordsOfParticipants,
       CacheDisclosed
<1> QED BY <1>7, <1>8, <1>9, CreateExamsKeeps, CreateSessionKeeps, GpaExpiresKeeps,
       EnrollmentMovesKeeps DEF Next

LEMMA Invariant == Spec => []IInv
BY Initially, StepKeeps, PTL DEF Spec

\* Rows, requests and cache entries keep the types of the source; in
\* particular every percentage of every exam has a grade point, and an entry of
\* the cache holds nothing else (result.service.ts:258).
THEOREM ResultsTypeCorrect == Spec => []TypeOK
BY Invariant, PTL DEF IInv

\* Nobody who never had a seat in the section has a result or an attendance
\* record, however requests interleave with drops and withdrawals
\* (result.service.ts:64, attendance.service.ts:91).
THEOREM RecordsAreOfParticipants == Spec => []RecordsOfParticipants
<1>1. IInv => RecordsOfParticipants
  BY DEF IInv
<1> QED BY <1>1, Invariant, PTL

\* A cached GPA never discloses a draft: every exam whose marks entered it has a
\* published result, however old the entry is and whoever entered, published and
\* overrode results while it was computed (result.service.ts:258).
THEOREM CacheNeverDisclosesDrafts == Spec => []CacheShowsPublished
BY InvariantImplies, Invariant, PTL

\* Which rows a step writes, and over what.
LEMMA StepKeepsPublished ==
  ASSUME IInv, Next, NEW e \in Exams, NEW s \in Students, result[e][s].status = "PUBLISHED"
  PROVE  result'[e][s].status = "PUBLISHED"
<1> DEFINE Kept == result'[e][s].status = "PUBLISHED"
<1>0. result \in [Exams -> [Students -> Result]]
  BY DEF IInv, TypeOK
<1>1. ASSUME NEW g \in Staff, SubmitWrite(g) PROVE Kept
  <2>1. \/ result'[e][s] = result[e][s]
        \/ result'[e][s] = Upserted(result[e][s], staff[g].marks)
    BY <1>0, <1>1 DEF SubmitWrite
  <2> QED BY <2>1 DEF Upserted
<1>2. ASSUME NEW g \in Staff, PublishWrite(g) PROVE Kept
  <2>1. result'[e][s] = result[e][s]
    BY <1>0, <1>2 DEF PublishWrite
  <2> QED BY <2>1
<1>3. ASSUME NEW g \in Staff, NEW t \in Students, OverrideWrite(g, t) PROVE Kept
  <2>1. \/ result'[e][s] = result[e][s]
        \/ result'[e][s] = [status |-> "PUBLISHED", marks |-> staff[g].marks]
    BY <1>0, <1>3 DEF OverrideWrite
  <2> QED BY <2>1
<1>4. CASE result' = result
  BY <1>4
<1>5. \/ result' = result
      \/ \E g \in Staff : \/ SubmitWrite(g) \/ PublishWrite(g)
                          \/ \E t \in Students : OverrideWrite(g, t)
  <2>1. StaffNext => \/ result' = result
                     \/ \E g \in Staff : \/ SubmitWrite(g) \/ PublishWrite(g)
                                         \/ \E t \in Students : OverrideWrite(g, t)
    BY DEF StaffNext, SubmitCheckEnrolled, SubmitCheckPublished, PublishCheckDrafts,
           OverrideRead, Invalidate, MarkCheckEnrolled, MarkWrite, StaffDies
  <2>2. ReaderNext => result' = result
    BY DEF ReaderNext, GpaCacheMiss, GpaReadEnrollments, GpaReadWithdrawals, GpaReadSection,
           GpaWrite, ReaderDies
  <2> QED BY <2>1, <2>2 DEF Next, createExams, createAttendanceSession, GpaExpires,
       EnrollmentMoves
<1> QED BY <1>1, <1>2, <1>3, <1>4, <1>5

\* A published result stays published, whoever enters, publishes or overrides
\* results at the same time (result.service.ts:106).
THEOREM PublishedIsFinal == Spec => PublishedForGood
<1>1. ASSUME IInv, Next
      PROVE  \A e \in Exams, s \in Students :
               result[e][s].status = "PUBLISHED" => result'[e][s].status = "PUBLISHED"
  BY <1>1, StepKeepsPublished
<1> QED BY <1>1, Invariant, PTL DEF Spec, PublishedForGood
==============================================================================
