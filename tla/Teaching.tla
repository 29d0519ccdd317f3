------------------------------ MODULE Teaching ------------------------------
(***************************************************************************)
(* Who teaches a section (module/section/section.service.ts,               *)
(* lib/sectionaccess.ts) and when its classes are                          *)
(* (module/routine/routine.service.ts).  The classes are those of one day  *)
(* of the week: on other days nothing overlaps them.                       *)
(*                                                                         *)
(* The statements of createRoutineEntry and updateSection are actions of   *)
(* their own, the transaction of updateSection one action.                 *)
(***************************************************************************)
EXTENDS Integers, FiniteSets

CONSTANTS
  Offered,       \* sections
  Instructors,   \* approved instructors
  NoInstructor,
  Times,         \* minutes of the day at which classes start and end
  Planners,      \* requests for a routine entry in flight
  Editors,       \* updates of a section in flight
  MaxClasses     \* bound on the routine entries there are at a time

ASSUME TeachingAssumption ==
  /\ Times \subseteq Nat /\ MaxClasses \in Nat
  /\ NoInstructor \notin Instructors

VARIABLES
  lead,        \* Section.instructorId; NoInstructor: the section is not created
  co,          \* SectionInstructor rows of a section
  classes,     \* ClassRoutine rows
  planner,     \* requests for a routine entry: what they have read
  editor,      \* updates of a section: likewise
  disturbed    \* history: teachers were changed, or two entries planned at once

teachingVars == <<lead, co, classes, planner, editor, disturbed>>

Entry == [section : Offered, startTime : Times, endTime : Times]
PlannerStep == {"idle", "teachers", "sections", "routines", "creating"}
Planning == [step : PlannerStep, entry : Entry, teachers : SUBSET Instructors,
             sections : SUBSET Offered]
Edit == [step : {"idle", "writing"}, section : Offered,
         lead : Instructors \cup {NoInstructor}, co : SUBSET Instructors, sent : BOOLEAN]

TeachingTypeOK ==
  /\ lead \in [Offered -> Instructors \cup {NoInstructor}]
  /\ co \in [Offered -> SUBSET Instructors]
  /\ classes \subseteq Entry
  /\ planner \in [Planners -> Planning]
  /\ editor \in [Editors -> Edit]
  /\ disturbed \in BOOLEAN

AnyEntry == CHOOSE e \in Entry : TRUE
NotPlanning == [step |-> "idle", entry |-> AnyEntry, teachers |-> {}, sections |-> {}]
NotEditing == [step |-> "idle", section |-> AnyEntry.section, lead |-> NoInstructor,
               co |-> {}, sent |-> FALSE]

TeachingInit ==
  /\ lead = [s \in Offered |-> NoInstructor]
  /\ co = [s \in Offered |-> {}]
  /\ classes = {}
  /\ planner = [p \in Planners |-> NotPlanning]
  /\ editor = [e \in Editors |-> NotEditing]
  /\ disturbed = FALSE

IsOffered(s) == lead[s] # NoInstructor

getSectionInstructorIds(s) == IF IsOffered(s) THEN {lead[s]} \cup co[s] ELSE {}
canTeachSection(s, i) == i \in getSectionInstructorIds(s)
Teaches(teachers) == {s \in Offered : getSectionInstructorIds(s) \cap teachers # {}}

\* The lead is taken out of the co-instructors.
resolveCoInstructors(leadId, ids) == ids \ {leadId}

-----------------------------------------------------------------------------
OfferSection(s, i, ids) ==
  /\ ~IsOffered(s)
  /\ lead' = [lead EXCEPT ![s] = i]
  /\ co' = [co EXCEPT ![s] = resolveCoInstructors(i, ids)]
  /\ UNCHANGED <<classes, planner, editor, disturbed>>

\* updateSection reads the section; a lead, and co-instructors, may be sent.
EditRead(e, s, i, ids, sent) ==
  LET leadId == IF i = NoInstructor THEN lead[s] ELSE i
  IN  /\ IsOffered(s) /\ editor[e].step = "idle"
      /\ editor' = [editor EXCEPT ![e] =
           [step |-> "writing", section |-> s, lead |-> i, sent |-> sent,
            co |-> IF sent THEN resolveCoInstructors(leadId, ids) ELSE {}]]
      /\ UNCHANGED <<lead, co, classes, planner, disturbed>>

\* The co-instructors are replaced when they were sent; otherwise a new lead
\* is taken out of them.
NewCo(edit) ==
  IF edit.sent THEN edit.co ELSE co[edit.section] \ {edit.lead}

EditWrite(e) ==
  LET edit == editor[e]  s == edit.section
  IN  /\ edit.step = "writing"
      /\ co' = [co EXCEPT ![s] = NewCo(edit)]
      /\ lead' = [lead EXCEPT ![s] = IF edit.lead = NoInstructor THEN @ ELSE edit.lead]
      /\ editor' = [editor EXCEPT ![e] = NotEditing]
      /\ disturbed' = TRUE
      /\ UNCHANGED <<classes, planner>>

-----------------------------------------------------------------------------
(***************************************************************************)
(* createRoutineEntry and deleteRoutineEntry.                              *)
(***************************************************************************)

PlanMove(p, from, request) ==
  /\ planner[p].step = from
  /\ planner' = [planner EXCEPT ![p] = request]

PlanRead(p, i, entry) ==
  /\ canTeachSection(entry.section, i) /\ entry.endTime > entry.startTime
  /\ PlanMove(p, "idle", [NotPlanning EXCEPT !.step = "teachers", !.entry = entry])
  /\ disturbed' = (disturbed \/ \E q \in Planners : planner[q].step # "idle")
  /\ UNCHANGED <<lead, co, classes, editor>>

PlanTeachers(p) ==
  /\ PlanMove(p, "teachers", [planner[p] EXCEPT !.step = "sections",
       !.teachers = getSectionInstructorIds(planner[p].entry.section)])
  /\ UNCHANGED <<lead, co, classes, editor, disturbed>>

\* Mutant: only the classes of this section are looked at.
PlanSections_Own(p) ==
  /\ PlanMove(p, "sections", [planner[p] EXCEPT !.step = "routines",
       !.sections = {planner[p].entry.section}])
  /\ UNCHANGED <<lead, co, classes, editor, disturbed>>

PlanSections(p) ==
  /\ PlanMove(p, "sections", [planner[p] EXCEPT !.step = "routines",
       !.sections = Teaches(planner[p].teachers)])
  /\ UNCHANGED <<lead, co, classes, editor, disturbed>>

Overlap(c, d) == c.startTime < d.endTime /\ d.startTime < c.endTime

PlanRoutines(p) ==
  LET conflict == \E c \in classes : /\ c.section \in planner[p].sections
                                     /\ Overlap(c, planner[p].entry)
  IN  /\ PlanMove(p, "routines", IF conflict THEN NotPlanning
                                 ELSE [planner[p] EXCEPT !.step = "creating"])
      /\ UNCHANGED <<lead, co, classes, editor, disturbed>>

\* Section, day and start time are unique.
PlanCreate(p) ==
  LET entry == planner[p].entry
      taken == \E c \in classes : /\ c.section = entry.section
                                  /\ c.startTime = entry.startTime
  IN  /\ PlanMove(p, "creating", NotPlanning)
      /\ Cardinality(classes) < MaxClasses
      /\ classes' = IF taken THEN classes ELSE classes \cup {entry}
      /\ UNCHANGED <<lead, co, editor, disturbed>>

\* Only the lead may; the entry is deleted by its id.
deleteRoutineEntry(i, c) ==
  /\ c \in classes /\ lead[c.section] = i
  /\ classes' = classes \ {c}
  /\ UNCHANGED <<lead, co, planner, editor, disturbed>>

PlannerDies(p) ==
  /\ planner[p].step # "idle"
  /\ planner' = [planner EXCEPT ![p] = NotPlanning]
  /\ UNCHANGED <<lead, co, classes, editor, disturbed>>

TeachingNext ==
  \/ \E s \in Offered, i \in Instructors, ids \in SUBSET Instructors :
       OfferSection(s, i, ids)
  \/ \E e \in Editors :
       \/ \E s \in Offered, i \in Instructors \cup {NoInstructor},
            ids \in SUBSET Instructors : EditRead(e, s, i, ids, TRUE)
       \/ \E s \in Offered, i \in Instructors \cup {NoInstructor} : EditRead(e, s, i, {}, FALSE)
       \/ EditWrite(e)
  \/ \E p \in Planners :
       \/ \E i \in Instructors, entry \in Entry : PlanRead(p, i, entry)
       \/ PlanTeachers(p) \/ PlanSections(p) \/ PlanRoutines(p) \/ PlanCreate(p)
       \/ PlannerDies(p)
  \/ \E i \in Instructors, c \in classes : deleteRoutineEntry(i, c)

TeachingSpec == TeachingInit /\ [][TeachingNext]_teachingVars

-----------------------------------------------------------------------------
\* "An instructor can't be in two classes at once" (routine.service.ts:37):
\* lead or co-instructor, in the same section or another, as long as nobody
\* changes who teaches and no two entries are planned at once - what is deleted,
\* offered or abandoned meanwhile does not matter.  And with one administrator
\* at work, nobody is both lead and co-instructor of a section, whichever of
\* them a request sends (section.service.ts:274).
OneEditor == \A e, f \in Editors : e = f
TimetableIsSound ==
  /\ ~disturbed =>
       \A c, d \in classes :
         /\ c # d
         /\ getSectionInstructorIds(c.section) \cap getSectionInstructorIds(d.section) # {}
         => ~Overlap(c, d)
  /\ OneEditor => \A s \in Offered : lead[s] \notin co[s]
==============================================================================
