---------------------------- MODULE MCEnrollment ----------------------------
(***************************************************************************)
(* An instance of Enrollment: course A taught in two sections, and course  *)
(* B, which requires it.  A behaviour is about a section and all that the  *)
(* office does to it, about the requests of students for it, or about the  *)
(* three sections, so that the states explored are the sum and not the     *)
(* product.                                                                *)
(***************************************************************************)
EXTENDS Enrollment

CONSTANTS s1, s2, a1, a2, b1, A, B, h1, h2, h3, adm

VARIABLE focus     \* what the behaviour is about

MCCourseOf == [c \in Sections |-> IF c = b1 THEN B ELSE A]
MCPrerequisites == [c \in Courses |-> IF c = B THEN {A} ELSE {}]
MCWants == [s \in Students |-> IF s = s1 THEN Sections ELSE {a1}]
MCCapacities == [c \in Sections |-> IF c = a1 THEN {1, 2} ELSE {}]
MCExamined == {<<s2, a1>>}
\* The first student has two requests in flight.
MCStudentOf == [h \in Handlers |-> IF h = h3 THEN s2 ELSE s1]

EnrollmentInit == Init /\ focus \in {"section", "students", "courses"}

\* The requests in flight are about these sections.
StudentsAskFor(sections) ==
  \A h \in Handlers : handler'[h].section \in sections[h] \cup {NoSection}
OfficeRequests == {admin'[a] : a \in Admins}

\* The section is created before the office only opens the semester.
OfficeRests ==
  /\ \/ createSection(a1, 1)
     \/ section[a1].state = "offered" /\ Next
  /\ \A request \in OfficeRequests :
       request.section = NoSection /\ request.status # "CLOSED"

\* A section that is planned, and a request of each of two students.
SectionNext ==
  /\ Next
  /\ \A request \in OfficeRequests : request.section \in {a1, NoSection}
  /\ StudentsAskFor([h \in Handlers |-> IF h = h2 THEN {} ELSE {a1}])

\* Two requests of one of them.
StudentsNext ==
  OfficeRests /\ StudentsAskFor([h \in Handlers |-> {a1}])

\* Two requests of one student, for all there is.
CoursesNext ==
  OfficeRests /\ StudentsAskFor([h \in Handlers |-> IF h = h3 THEN {} ELSE Sections])

EnrollmentNext ==
  /\ UNCHANGED focus
  /\ \/ focus = "section" /\ SectionNext
     \/ focus = "students" /\ StudentsNext
     \/ focus = "courses" /\ CoursesNext

EnrollmentSpec == EnrollmentInit /\ [][EnrollmentNext]_<<vars, focus>>
==============================================================================
