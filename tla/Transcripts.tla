---------------------------- MODULE Transcripts ----------------------------
(***************************************************************************)
(* The two transcripts of a student - the one shown, from the GPAs of the  *)
(* semesters (module/result/result.service.ts), and the official PDF       *)
(* (module/transcript/transcript.service.ts) - and the result sheet of a   *)
(* section.  Each reads the enrollments and the results anew and has grade *)
(* bands of its own.                                                       *)
(*                                                                         *)
(* All read what Enrollment and Results have written: the book below moves *)
(* as they move it.  The transcript shown goes through the cache of GPAs;  *)
(* an entry is stored here when it is computed, and how it is overtaken in *)
(* between is in Results.  A GPA is its points and credits: the two        *)
(* services round the quotient to hundredths in ways that differ at some   *)
(* ties (toFixed, Math.round).                                             *)
(***************************************************************************)
EXTENDS Grades, FiniteSets, Functions

CONSTANTS
  Taken,         \* sections, of a course each
  CreditHours,   \* Course.creditHours of a section
  Semesters,
  Papers,        \* exams a section may have
  PaperMarks,    \* Exam.totalMarks
  Scores         \* marks entered

ASSUME TranscriptsAssumption ==
  /\ IsFiniteSet(Taken) /\ IsFiniteSet(Papers)
  /\ CreditHours \in [Taken -> Nat \ {0}]
  /\ PaperMarks \in Nat \ {0} /\ Scores \subseteq 0..PaperMarks
  /\ Semesters \subseteq Nat \ {0}

VARIABLES
  book,   \* of a section: semester, enrollment, exams and results
  cache   \* Redis: the payload of the key gpa:<student>:<semester>

transcriptsVars == <<book, cache>>

Sheet == [semester : Semesters \cup {0}, status : {"NONE", "ENROLLED", "DROPPED", "WITHDRAWN"},
          exams : SUBSET Papers, marks : [Papers -> 0..PaperMarks],
          results : [Papers -> {"NONE", "DRAFT", "PUBLISHED"}]]

\* The courses of a semester that have a grade point, with it.
GpaPayload == UNION {[courses -> Points] : courses \in SUBSET Taken}

TranscriptsTypeOK ==
  /\ book \in [Taken -> Sheet]
  /\ DOMAIN cache \subseteq Semesters
  /\ \A t \in DOMAIN cache : cache[t] \in GpaPayload

NotOffered == 0   \* no semester

TranscriptsInit ==
  /\ book = [c \in Taken |->
               [semester |-> NotOffered, status |-> "NONE", exams |-> {},
                marks |-> [x \in Papers |-> 0], results |-> [x \in Papers |-> "NONE"]]]
  /\ cache = [t \in {} |-> <<>>]

-----------------------------------------------------------------------------
Statuses(c) == {book[c].results[x] : x \in book[c].exams}
Obtained(c) == SumFunctionOnSet(book[c].marks, book[c].exams)
Possible(c) == PaperMarks * Cardinality(book[c].exams)

\* What computeSemesterGpa computes when nothing is cached.
GpaNow(t) ==
  LET graded == {c \in Taken : /\ book[c].semester = t /\ book[c].status = "ENROLLED"
                               /\ Statuses(c) = {"PUBLISHED"}}
  IN  [c \in graded |-> percentageToGradePoint(Obtained(c), Possible(c))]

computeSemesterGpa(t) == IF t \in DOMAIN cache THEN cache[t] ELSE GpaNow(t)

\* A miss is computed, and cached unless Redis fails.
Caches(t) ==
  /\ t \notin DOMAIN cache
  /\ cache' = [u \in DOMAIN cache \cup {t} |-> computeSemesterGpa(u)]
  /\ UNCHANGED book

Without(t) == Restrict(cache, DOMAIN cache \ {t})

Expires(t) ==
  /\ t \in DOMAIN cache
  /\ cache' = Without(t)
  /\ UNCHANGED book

-----------------------------------------------------------------------------
(***************************************************************************)
(* What other services do to the book.  Only publishing and overriding     *)
(* delete the cached GPA, if Redis lets them.                              *)
(***************************************************************************)

Opens(c, t) ==
  /\ book[c].semester = NotOffered
  /\ book' = [book EXCEPT ![c].semester = t]
  /\ UNCHANGED cache

Enrolls(c) ==
  /\ book[c].semester # NotOffered /\ book[c].status \in {"NONE", "DROPPED"}
  /\ book' = [book EXCEPT ![c].status = "ENROLLED"]
  /\ UNCHANGED cache

Leaves(c, new) ==
  /\ book[c].status = "ENROLLED" /\ new \in {"DROPPED", "WITHDRAWN"}
  /\ book' = [book EXCEPT ![c].status = new]
  /\ UNCHANGED cache

Examined(c, x) ==
  /\ book[c].semester # NotOffered /\ x \notin book[c].exams
  /\ book' = [book EXCEPT ![c].exams = @ \cup {x}]
  /\ UNCHANGED cache

Entered(c, x, marks) ==
  /\ x \in book[c].exams /\ book[c].results[x] # "PUBLISHED"
  /\ book[c].status = "ENROLLED"
  /\ book' = [book EXCEPT ![c].marks[x] = marks, ![c].results[x] = "DRAFT"]
  /\ UNCHANGED cache

Published(c, x) ==
  /\ book[c].results[x] = "DRAFT"
  /\ book' = [book EXCEPT ![c].results[x] = "PUBLISHED"]
  /\ cache' \in {cache, Without(book[c].semester)}

Overridden(c, x, marks) ==
  /\ book[c].results[x] # "NONE"
  /\ book' = [book EXCEPT ![c].marks[x] = marks, ![c].results[x] = "PUBLISHED"]
  /\ cache' \in {cache, Without(book[c].semester)}

TranscriptsNext ==
  \/ \E c \in Taken :
       \/ \E t \in Semesters : Opens(c, t)
       \/ Enrolls(c)
       \/ \E new \in {"DROPPED", "WITHDRAWN"} : Leaves(c, new)
       \/ \E x \in Papers :
            \/ Examined(c, x)
            \/ \E marks \in Scores : Entered(c, x, marks) \/ Overridden(c, x, marks)
            \/ Published(c, x)
  \/ \E t \in Semesters : Caches(t) \/ Expires(t)

TranscriptsSpec == TranscriptsInit /\ [][TranscriptsNext]_transcriptsVars

-----------------------------------------------------------------------------
\* Grade points weighted with the credits of their courses: a GPA is the quotient.
Weighted(point, courses) ==
  [points  |-> SumFunctionOnSet([c \in courses |-> point[c] * CreditHours[c]], courses),
   credits |-> SumFunctionOnSet(CreditHours, courses)]

\* No GPA is null in the one service, and the number 0 in the other.
Null == <<>>
Zero == [points |-> 0, credits |-> 1]
GpaOr(none, gpa) == IF gpa.credits > 0 THEN gpa ELSE none

\* All semesters of any enrollment, also of one that was left; those without a
\* GPA do not count.
getTranscript ==
  LET semesterIds == {book[c].semester : c \in {d \in Taken : book[d].status # "NONE"}}
      graded(t)   == DOMAIN computeSemesterGpa(t)
      gpa         == [t \in semesterIds |->
                        GpaOr(Null, Weighted(computeSemesterGpa(t), graded(t)))]
      courses     == UNION {graded(t) : t \in {u \in semesterIds : gpa[u] # Null}}
      point       == [c \in courses |-> computeSemesterGpa(book[c].semester)[c]]
  IN  [semesters |-> gpa, cgpa |-> GpaOr(Null, Weighted(point, courses))]

(***************************************************************************)
(* buildTranscriptData.                                                    *)
(***************************************************************************)

PERCENTAGE_TO_GRADE ==
  {[min |-> 80, letter |-> "A+", point |-> 400], [min |-> 75, letter |-> "A", point |-> 375],
   [min |-> 70, letter |-> "A-", point |-> 350], [min |-> 65, letter |-> "B+", point |-> 325],
   [min |-> 60, letter |-> "B", point |-> 300], [min |-> 55, letter |-> "B-", point |-> 275],
   [min |-> 50, letter |-> "C+", point |-> 250], [min |-> 45, letter |-> "C", point |-> 225],
   [min |-> 40, letter |-> "D", point |-> 200], [min |-> 0, letter |-> "F", point |-> 0]}

gradeForPercentage(obtained, total) ==
  CHOOSE band \in PERCENTAGE_TO_GRADE :
    /\ obtained * 100 >= band.min * total
    /\ \A higher \in PERCENTAGE_TO_GRADE :
         higher.min > band.min => obtained * 100 < higher.min * total

\* Mutant: courses the student has left are printed, too.
Enrollments_All(semesterIds) ==
  {c \in Taken : book[c].status # "NONE" /\ book[c].semester \in semesterIds}

\* The enrollments a transcript of these semesters is made from.
Enrollments(semesterIds) ==
  {c \in Taken : book[c].status = "ENROLLED" /\ book[c].semester \in semesterIds}

\* Without an enrollment it is refused; a course appears when all its exams
\* are published, a semester when one of its courses does.
buildTranscriptData(semesterIds) ==
  LET courses == {c \in Enrollments(semesterIds) :
                    book[c].exams # {} /\ Statuses(c) = {"PUBLISHED"}}
      point   == [c \in courses |-> gradeForPercentage(Obtained(c), Possible(c)).point]
      Of(t)   == {c \in courses : book[c].semester = t}
      total   == Weighted(point, courses)
  IN  [found |-> Enrollments(semesterIds) # {},
       semesters |-> [t \in {book[c].semester : c \in courses} |-> Weighted(point, Of(t))],
       cumulativeGpa |-> GpaOr(Zero, total),
       totalCreditsEarned |-> total.credits]

\* buildResultSheetPdfBuffer: refused without an enrollment of any status, or
\* while an exam has no result.
MayPrintSheet(c) == book[c].status # "NONE" /\ "NONE" \notin Statuses(c)

-----------------------------------------------------------------------------
\* Semesters whose cached GPA, if there is one, is what would be computed now.
Fresh == {t \in Semesters : computeSemesterGpa(t) = GpaNow(t)}

\* The transcript shown and the official one are made from the same grades,
\* whatever was left, taken up again, half published, overridden or never
\* examined.  A semester whose cached GPA is not out of date is printed exactly
\* when it is shown with a GPA, and with that GPA; when none is out of date the
\* total is the same, where nothing is graded null here and 0 of no credits there
\* (result.service.ts:400, transcript.service.ts:141), and null as well if the
\* official one is refused.  The official one of a single semester is that part of
\* the whole, and a semester printed is of courses whose result sheet can be had
\* (transcript.service.ts:69, result.service.ts:381).
TranscriptsAgree ==
  LET official == buildTranscriptData(Semesters)
      shown    == getTranscript
      printed  == DOMAIN official.semesters
  IN  /\ \A t \in Fresh :
           /\ t \in printed <=> t \in DOMAIN shown.semesters /\ shown.semesters[t] # Null
           /\ t \in printed => shown.semesters[t] = official.semesters[t]
      /\ Fresh = Semesters =>
           /\ shown.cgpa = Null <=> official.totalCreditsEarned = 0
           /\ shown.cgpa # Null => shown.cgpa = official.cumulativeGpa
           /\ shown.cgpa = Null => official.cumulativeGpa = Zero
           /\ ~official.found => shown.cgpa = Null
      /\ \A t \in Semesters :
           LET single == buildTranscriptData({t})
           IN  /\ DOMAIN single.semesters = {t} \cap printed
               /\ t \in printed => single.cumulativeGpa = official.semesters[t]
               /\ \A c \in DOMAIN GpaNow(t) : MayPrintSheet(c)
==============================================================================
