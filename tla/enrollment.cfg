\* Two requests in flight of one student and one of another, an administrator who
\* creates, resizes and deletes a section, and a course taught in two.
SPECIFICATION EnrollmentSpec
CONSTANTS
  s1 = s1
  s2 = s2
  a1 = a1
  a2 = a2
  b1 = b1
  A = A
  B = B
  h1 = h1
  h2 = h2
  h3 = h3
  adm = adm
  NoSection = NoSection
  Lowest = 0
  Students = {s1, s2}
  Sections = {a1, a2, b1}
  Courses = {A, B}
  Handlers = {h1, h2, h3}
  Admins = {adm}
  Planned = {a1}
  InitialCapacity = 1
  Examined <- MCExamined
  Announced = {"OPEN", "CLOSED"}
  Capacities <- MCCapacities
  CourseOf <- MCCourseOf
  Prerequisites <- MCPrerequisites
  Wants <- MCWants
  StudentOf <- MCStudentOf
INVARIANTS TypeOK SeatsMatch SeatsBounded TwiceOnlyByRace
PROPERTIES RowsAreKept
CHECK_DEADLOCK FALSE
