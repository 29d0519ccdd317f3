------------------------------ MODULE FeePlans ------------------------------
(***************************************************************************)
(* The installment policies (module/feePolicy/feePolicy.service.ts) and    *)
(* the one a semester's invoices are split by (lib/invoiceCore.ts          *)
(* resolvePlanSnapshot).  Each statement of a request is an action.        *)
(*                                                                         *)
(* Of a policy's terms the number of installments and the number of its    *)
(* customPercents are kept: their sum and the advance are checked on what  *)
(* is sent alone.                                                          *)
(***************************************************************************)
EXTENDS Integers, Sequences, FiniteSetsExt

CONSTANTS
  Terms,        \* semesters
  NoTerm,       \* semesterId null
  Counts,       \* numbers of installments an administrator sends
  Office,       \* requests in flight
  MaxPolicies,  \* bound on the policies created
  Kept          \* a field that was not sent

ASSUME FeePlansAssumption ==
  /\ NoTerm \notin Terms
  /\ Counts \subseteq Nat \ {0} /\ Kept \notin Nat
  /\ MaxPolicies \in Nat

VARIABLES
  policies,    \* InstallmentPolicy rows in order of creation
  office       \* requests: where they are, what they have read

feePlansVars == <<policies, office>>

\* percents: the length of customPercents, 0 for null.
Policy == [semesterId : Terms \cup {NoTerm}, isDefault : BOOLEAN, isActive : BOOLEAN,
           count : Nat, percents : Nat]
OfficeStep == {"idle", "checking", "inserting", "updating"}
Paper == [step : OfficeStep, id : Nat, row : Policy, percents : Nat \cup {Kept},
          isActive : BOOLEAN \cup {Kept}]

SinglePayment == [semesterId |-> NoTerm, isDefault |-> FALSE, isActive |-> TRUE,
                  count |-> 1, percents |-> 0]
NoPaper == [step |-> "idle", id |-> 0, row |-> SinglePayment, percents |-> Kept,
            isActive |-> Kept]

FeePlansTypeOK ==
  /\ policies \in Seq(Policy)
  /\ office \in [Office -> Paper]

FeePlansInit ==
  /\ policies = <<>>
  /\ office = [o \in Office |-> NoPaper]

\* validatePlan.
ValidTerms(count, percents) == percents \in {0, count}

OfTerm(t) == {i \in DOMAIN policies : policies[i].semesterId = t}
ActiveDefaults == {i \in DOMAIN policies : policies[i].isDefault /\ policies[i].isActive}

\* Both checkPlan and the schema let the request pass: exactly one of isDefault
\* and semesterId.  The default ones there are are switched off.
CreatePolicy(o, t, count, percents) ==
  LET row == [semesterId |-> t, isDefault |-> t = NoTerm, isActive |-> TRUE,
              count |-> count, percents |-> percents]
  IN  /\ office[o].step = "idle" /\ ValidTerms(count, percents)
      /\ office' = [office EXCEPT ![o] = [NoPaper EXCEPT !.step = "checking", !.row = row]]
      /\ policies' = [i \in DOMAIN policies |->
           IF t = NoTerm /\ i \in ActiveDefaults
             THEN [policies[i] EXCEPT !.isActive = FALSE] ELSE policies[i]]

CreateCheckTerm(o) ==
  LET t == office[o].row.semesterId
  IN  /\ office[o].step = "checking"
      /\ office' = [office EXCEPT ![o] = IF t \in Terms /\ OfTerm(t) # {} THEN NoPaper
                                           ELSE [@ EXCEPT !.step = "inserting"]]
      /\ UNCHANGED policies

\* semesterId is unique.
CreateInsert(o) ==
  LET row == office[o].row
  IN  /\ office[o].step = "inserting"
      /\ Len(policies) < MaxPolicies
      /\ office' = [office EXCEPT ![o] = NoPaper]
      /\ policies' = IF row.semesterId \in Terms /\ OfTerm(row.semesterId) # {}
                       THEN policies ELSE Append(policies, row)

\* Mutant: what was sent is checked alone.
Merged_SentOnly(sent, old) == IF sent = Kept THEN 0 ELSE sent

\* What is checked: what was sent, and the rest as it was read.
Merged(sent, old) == IF sent = Kept THEN old ELSE sent

\* The schema puts its default, one installment, where no number was sent.
UpdatePolicy(o, i, count, percents, isActive) ==
  LET sent == IF count = Kept THEN 1 ELSE count
  IN  /\ office[o].step = "idle" /\ i \in DOMAIN policies
      /\ ValidTerms(sent, Merged(percents, policies[i].percents))
      /\ office' = [office EXCEPT ![o] =
           [step |-> "updating", id |-> i, percents |-> percents, isActive |-> isActive,
            row |-> [SinglePayment EXCEPT !.count = sent]]]
      /\ UNCHANGED policies

\* Only what was sent is written.
UpdateWrite(o) ==
  LET paper == office[o]  i == paper.id
  IN  /\ paper.step = "updating"
      /\ policies' = [policies EXCEPT
           ![i].count = paper.row.count,
           ![i].percents = IF paper.percents = Kept THEN @ ELSE paper.percents,
           ![i].isActive = IF paper.isActive = Kept THEN @ ELSE paper.isActive]
      /\ office' = [office EXCEPT ![o] = NoPaper]

OfficeDies(o) ==
  /\ office[o].step # "idle"
  /\ office' = [office EXCEPT ![o] = NoPaper]
  /\ UNCHANGED policies

FeePlansNext ==
  \E o \in Office :
    \/ \E t \in Terms \cup {NoTerm}, count \in Counts, percents \in Counts \cup {0} :
         CreatePolicy(o, t, count, percents)
    \/ CreateCheckTerm(o) \/ CreateInsert(o)
    \/ \E i \in 1..MaxPolicies, count \in Counts \cup {Kept},
          percents \in Counts \cup {Kept}, isActive \in BOOLEAN \cup {Kept} :
         UpdatePolicy(o, i, count, percents, isActive)
    \/ UpdateWrite(o)
    \/ OfficeDies(o)

FeePlansSpec == FeePlansInit /\ [][FeePlansNext]_feePlansVars

-----------------------------------------------------------------------------
\* The semester's own policy, else the newest default, else a single payment.
resolvePlanSnapshot(t) ==
  LET own == {i \in OfTerm(t) : policies[i].isActive}
  IN  IF own # {} THEN policies[CHOOSE i \in own : TRUE]
      ELSE IF ActiveDefaults # {} THEN policies[Max(ActiveDefaults)]
      ELSE SinglePayment

\* With one administrator at work, whatever sequence of creations, partial
\* updates and switchings there was, the plan an invoice of a semester is split
\* by is one buildInstallments accepts, and the semester has one at most of its
\* own: else no invoice of the semester can be issued (invoiceCore.ts:93).
OneOffice == \A o, p \in Office : o = p
PlansStayValid ==
  OneOffice => \A t \in Terms :
    /\ ValidTerms(resolvePlanSnapshot(t).count, resolvePlanSnapshot(t).percents)
    /\ \A i, j \in OfTerm(t) : i = j
==============================================================================
