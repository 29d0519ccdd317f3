\* A student with two requests in flight, and a course taught in two sections.
SPECIFICATION EnrollmentSpec
CONSTANTS
  s1 = s1
  s2 = s2
  a1 = a1
  a2 = a2
  b1 = b1
  A = A
  B = B
  h1 = h1
  h2 = h2
  h3 = h3
  adm = adm
  NoSection = NoSection
  Lowest = 0
  Students = {s1}
  Sections = {a1, a2}
  Courses = {A}
  Handlers = {h1, h2}
  Admins = {adm}
  Planned = {}
  InitialCapacity = 2
  Examined = {}
  Announced = {"OPEN"}
  Capacities <- MCCapacities
  CourseOf <- MCCourseOf
  Prerequisites <- MCPrerequisites
  Wants <- MCWants
  StudentOf <- MCStudentOf
INVARIANTS OneSectionPerCourse
CHECK_DEADLOCK FALSE
