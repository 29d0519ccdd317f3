\* One student, two exams of a section; two requests of staff and one reader.
SPECIFICATION Spec
CONSTANTS
  s1 = s1
  c1 = c1
  c2 = c2
  x1 = x1
  x2 = x2
  y1 = y1
  g1 = g1
  g2 = g2
  r1 = r1
  Nobody = Nobody
  Students = {s1}
  Sections = {c1}
  Exams = {x1, x2}
  Staff = {g1, g2}
  Readers = {r1}
  Days = {1}
  Marks = {1}
  MaxOverrides = 1
  SectionOf <- MCSectionOf
  TotalMarks <- MCTotalMarks
INVARIANTS TypeOK RecordsOfParticipants CacheShowsPublished
PROPERTIES PublishedForGood
CHECK_DEADLOCK FALSE
