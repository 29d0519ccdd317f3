--------------------------- MODULE AdmissionProofs ---------------------------
(***************************************************************************)
(* The admission, for any students and any number of requests in flight,   *)
(* any settings, fee policies and number of invoices: nobody is charged    *)
(* twice, nobody gets a student ID without an approval, no two students    *)
(* get the same one, and a decision stands.                                *)
(*                                                                         *)
(* What a request knows is stated of rows that are passed as values, so    *)
(* that it can be said of the rows before and the rows after a step.       *)
(***************************************************************************)
EXTENDS Admission, BillingProofs

-----------------------------------------------------------------------------
(***************************************************************************)
(* The invariant.                                                          *)
(***************************************************************************)

\* Steps of a review that come after its approval.
Approving == {"issuing", "finding", "looking", "confirming", "numbering"}

Sound(r, rowsOfBills, ok) ==
  /\ r.step # "idle" => r.student \in Students
  /\ r.step \in Approving => r.student \in ok
  /\ r.step = "billing" => r.kind # "ADMISSION"
  /\ r.step = "settling" =>
       /\ r.bill \in DOMAIN rowsOfBills[r.student][r.kind]
       /\ rowsOfBills[r.student][r.kind][r.bill] # "CANCELLED"

HandlersSound == \A h \in Handlers : Sound(handler[h], bills, approved)

SameBill(r, q) ==
  /\ r.step = "settling" /\ q.step = "settling"
  /\ r.student = q.student /\ r.kind = q.kind /\ r.bill = q.bill

\* The lock of an invoice has one holder.
LocksHeld == \A h, k \in Handlers : SameBill(handler[h], handler[k]) => h = k

AtMostOneLive ==
  \A s \in Students, k \in Kinds : \A i, j \in DOMAIN bills[s][k] :
    bills[s][k][i] # "CANCELLED" /\ bills[s][k][j] # "CANCELLED" => i = j

ApprovedFirst ==
  \A s \in Students : code[s] # 0 \/ bills[s]["ADMISSION"] # <<>> => s \in approved

\* A student ID is of one student.
IdsAreUnique ==
  \A s, t \in Students : code[s] # 0 /\ code[s] = code[t] => s = t

IInv == /\ TypeOK /\ HandlersSound /\ LocksHeld
        /\ AtMostOneLive /\ ApprovedFirst /\ IdsAreUnique

\* The parts of the invariant say what the properties say.
LEMMA InvariantImplies == IInv => OneLiveBill /\ NothingBeforeApproval
<1> SUFFICES ASSUME IInv PROVE OneLiveBill /\ NothingBeforeApproval
  OBVIOUS
<1>1. OneLiveBill
  <2>1. SUFFICES ASSUME NEW s \in Students, NEW k \in Kinds
                 PROVE  Cardinality({i \in DOMAIN bills[s][k] : bills[s][k][i] # "CANCELLED"}) <= 1
    BY DEF OneLiveBill
  <2> DEFINE L == {i \in DOMAIN bills[s][k] : bills[s][k][i] # "CANCELLED"}
  <2>2. \A i, j \in L : i = j
    BY DEF IInv, AtMostOneLive
  <2>3. CASE L = {}
    BY <2>3, FS_EmptySet
  <2>4. CASE L # {}
    <3>1. PICK i \in L : L = {i}
      BY <2>2, <2>4
    <3>2. Cardinality({i}) = 1
      BY FS_Singleton
    <3> QED BY <3>1, <3>2
  <2> QED BY <2>3, <2>4
<1>2. NothingBeforeApproval
  BY DEF IInv, ApprovedFirst, NothingBeforeApproval, MayEnroll, MayPrintCard
<1> QED BY <1>1, <1>2

-----------------------------------------------------------------------------
(***************************************************************************)
(* The next student number.                                                *)
(***************************************************************************)

\* The next number is above every number given.
LEMMA NextNumber ==
  ASSUME TypeOK
  PROVE  nextStudentIdCode \in Nat \ {0} /\ \A s \in Students : code[s] < nextStudentIdCode
<1> DEFINE T == {code[s] : s \in Students} \cup {0}
<1>1. T \in SUBSET Nat /\ T # {}
  BY DEF TypeOK
<1>2. IsFiniteSet(T)
  <2> DEFINE given == {code[s] : s \in Students}
  <2>0. code \in Surjection(Students, given)
    BY DEF TypeOK, Surjection
  <2>1. IsFiniteSet(given)
    BY <2>0, AdmissionAssumption, FS_Surjection DEF ExistsSurjection
  <2> QED BY <2>1, FS_AddElement
<1>3. \E x \in T : \A y \in T : x >= y
  <2> HIDE DEF T
  <2> QED BY <1>1, <1>2, GreatestExists
<1>4. Max(T) \in T /\ \A y \in T : Max(T) >= y
  <2> HIDE DEF T
  <2> QED BY <1>3 DEF Max
<1>5. nextStudentIdCode = 1 + Max(T)
  BY DEF nextStudentIdCode
<1>6. Max(T) \in Nat /\ \A s \in Students : code[s] \in Nat /\ Max(T) >= code[s]
  BY <1>1, <1>4
<1> HIDE DEF T
<1> QED BY <1>5, <1>6

-----------------------------------------------------------------------------
(***************************************************************************)
(* Steps of requests.                                                      *)
(***************************************************************************)

\* The idle request is a request, and knows nothing.
LEMMA IdleSound ==
  /\ Idle \in Request /\ Idle.step = "idle"
  /\ \A b, ok : Sound(Idle, b, ok)
BY DEF Idle, Request, Step, Kinds, ApplicationStatus, Sound, Approving

\* What a step of one request has to keep for the requests to stay sound.
LEMMA RequestsKept ==
  ASSUME IInv, NEW h \in Handlers, NEW request \in Request,
         handler' = [handler EXCEPT ![h] = request],
         Sound(request, bills', approved'),
         \A k \in Handlers \ {h} : Sound(handler[k], bills', approved'),
         \A k \in Handlers \ {h} : ~SameBill(request, handler[k])
  PROVE  handler' \in [Handlers -> Request] /\ HandlersSound' /\ LocksHeld'
<1>1. \A k \in Handlers : handler'[k] = IF k = h THEN request ELSE handler[k]
  BY DEF IInv, TypeOK
<1>2. handler' \in [Handlers -> Request]
  BY DEF IInv, TypeOK
<1>3. HandlersSound'
  BY <1>1 DEF HandlersSound
<1>4. LocksHeld'
  BY <1>1 DEF IInv, LocksHeld, SameBill
<1> QED BY <1>2, <1>3, <1>4

\* A step that only writes a request, which does not take a lock.
LEMMA RequestMoves ==
  ASSUME IInv, NEW h \in Handlers, NEW request \in Request,
         handler' = [handler EXCEPT ![h] = request], UNCHANGED rows,
         Sound(request, bills, approved), request.step # "settling"
  PROVE  IInv'
<1>1. UNCHANGED <<application, bills, code, setting, fees, approved>>
  BY DEF rows
<1>2. \A k \in Handlers \ {h} : ~SameBill(request, handler[k])
  BY DEF SameBill
<1>3. handler' \in [Handlers -> Request] /\ HandlersSound' /\ LocksHeld'
  BY <1>1, <1>2, RequestsKept DEF IInv, HandlersSound
<1> QED BY <1>1, <1>3 DEF IInv, TypeOK, AtMostOneLive, ApprovedFirst, IdsAreUnique

\* A request goes on, or is answered, without writing a row.
LEMMA GoesOn ==
  ASSUME IInv, NEW h \in Handlers, NEW from \in Step \ {"idle"}, NEW to \in Step,
         Goes(h, from, to), UNCHANGED rows, to \notin {"settling", "billing"},
         to \in Approving => from \in Approving
  PROVE  IInv'
<1>1. CASE to = "idle"
  BY <1>1, IdleSound, RequestMoves DEF Goes
<1>2. CASE to # "idle"
  <2> DEFINE request == [handler[h] EXCEPT !.step = to]
  <2>1. handler[h] \in Request /\ Sound(handler[h], bills, approved)
    BY DEF IInv, TypeOK, HandlersSound
  <2>2. /\ request \in Request /\ handler' = [handler EXCEPT ![h] = request]
        /\ request.step = to /\ request.student = handler[h].student
    BY <1>2, <2>1 DEF Goes, Request
  <2>3. Sound(request, bills, approved)
    BY <2>1, <2>2 DEF Sound, Goes
  <2> HIDE DEF request
  <2> QED BY <2>2, <2>3, RequestMoves
<1> QED BY <1>1, <1>2

\* The requests of students and of reviewers are read and remembered.
LEMMA ReadsKeep ==
  ASSUME IInv, NEW h \in Handlers, NEW s \in Students,
         \/ SubmitRead(h, s) \/ UpdateRead(h, s)
         \/ \E verdict \in {"APPROVED", "REJECTED"} : ReviewRead(h, s, verdict)
         \/ ApplicationInvoiceRead(h, s) \/ IdCardInvoiceRead(h, s)
  PROVE  IInv'
<1>1. UNCHANGED rows /\ setting \in Setting
  BY DEF SubmitRead, UpdateRead, ReviewRead, ApplicationInvoiceRead, IdCardInvoiceRead,
         IInv, TypeOK
<1>2. ASSUME NEW request \in Request, request.student = s,
             request.step \in {"submitting", "updating", "reviewing", "flipping", "billing"},
             request.step = "billing" => request.kind # "ADMISSION",
             Begin(h, request)
      PROVE  IInv'
  <2>1. Sound(request, bills, approved)
    BY <1>2 DEF Sound, Approving
  <2> QED BY <1>1, <1>2, <2>1, RequestMoves DEF Begin
<1>3. CASE SubmitRead(h, s)
  <2> DEFINE fee == setting.applicationFeeRequired /\ HasSchedule("APPLICATION")
             request == [Idle EXCEPT !.step = "submitting", !.student = s, !.required = fee]
  <2>1. fee \in BOOLEAN
    BY <1>1 DEF Setting, HasSchedule
  <2>2. request \in Request /\ request.student = s /\ request.step = "submitting"
    BY <2>1, IdleSound DEF Idle, Request, Step, Kinds, ApplicationStatus
  <2>3. Begin(h, request)
    BY <1>3 DEF SubmitRead
  <2> HIDE DEF request
  <2> QED BY <1>2, <2>2, <2>3
<1>4. CASE UpdateRead(h, s)
  <2> DEFINE request == [Idle EXCEPT !.step = "updating", !.student = s]
  <2>1. request \in Request /\ request.student = s /\ request.step = "updating"
    BY DEF Idle, Request, Step, Kinds, ApplicationStatus
  <2>2. Begin(h, request)
    BY <1>4 DEF UpdateRead
  <2> HIDE DEF request
  <2> QED BY <1>2, <2>1, <2>2
<1>5. ASSUME NEW verdict \in {"APPROVED", "REJECTED"}, ReviewRead(h, s, verdict) PROVE IInv'
  <2> DEFINE step == IF verdict = "APPROVED" THEN "reviewing" ELSE "flipping"
             request == [Idle EXCEPT !.student = s, !.verdict = verdict, !.step = step,
                           !.required = setting.admissionPaymentRequiredToEnroll]
  <2>1. setting.admissionPaymentRequiredToEnroll \in BOOLEAN
    BY <1>1 DEF Setting
  <2>2. /\ request \in Request /\ request.student = s
        /\ request.step \in {"reviewing", "flipping"}
    BY <2>1 DEF Idle, Request, Step, Kinds, ApplicationStatus
  <2>3. Begin(h, request)
    BY <1>5 DEF ReviewRead
  <2> HIDE DEF request
  <2> QED BY <1>2, <2>2, <2>3
<1>6. ASSUME NEW k \in Kinds \ {"ADMISSION"},
             Begin(h, [Idle EXCEPT !.step = "billing", !.student = s, !.kind = k])
      PROVE  IInv'
  <2> DEFINE request == [Idle EXCEPT !.step = "billing", !.student = s, !.kind = k]
  <2>1. request \in Request /\ request.student = s /\ request.step = "billing"
        /\ request.kind = k
    BY DEF Idle, Request, Step, Kinds, ApplicationStatus
  <2>2. Begin(h, request)
    BY <1>6
  <2> HIDE DEF request
  <2> QED BY <1>2, <1>6, <2>1, <2>2
<1>7. CASE ApplicationInvoiceRead(h, s) \/ IdCardInvoiceRead(h, s)
  <2>1. CASE ApplicationInvoiceRead(h, s)
    <3>1. Begin(h, [Idle EXCEPT !.step = "billing", !.student = s, !.kind = "APPLICATION"])
      BY <2>1 DEF ApplicationInvoiceRead
    <3>2. "APPLICATION" \in Kinds \ {"ADMISSION"}
      BY DEF Kinds
    <3> QED BY <1>6, <3>1, <3>2
  <2>2. CASE IdCardInvoiceRead(h, s)
    <3>1. Begin(h, [Idle EXCEPT !.step = "billing", !.student = s, !.kind = "ID_CARD"])
      BY <2>2 DEF IdCardInvoiceRead
    <3>2. "ID_CARD" \in Kinds \ {"ADMISSION"}
      BY DEF Kinds
    <3> QED BY <1>6, <3>1, <3>2
  <2> QED BY <1>7, <2>1, <2>2
<1> QED BY <1>3, <1>4, <1>5, <1>7

\* A settlement takes the lock of a live invoice nobody holds.
LEMMA SettleReadKeeps ==
  ASSUME IInv, NEW h \in Handlers, NEW s \in Students, NEW k \in Kinds, NEW i \in Nat,
         SettleRead(h, s, k, i)
  PROVE  IInv'
<1> DEFINE request == [Idle EXCEPT !.step = "settling", !.student = s, !.kind = k,
                                   !.bill = i, !.known = code[s]]
<1>1. code[s] \in Nat
  BY DEF IInv, TypeOK
<1>2. request \in Request /\ handler' = [handler EXCEPT ![h] = request]
  BY <1>1 DEF SettleRead, Begin, Idle, Request, Step, Kinds, ApplicationStatus
<1>3. /\ request.step = "settling" /\ request.student = s
      /\ request.kind = k /\ request.bill = i
  BY DEF Idle
<1> HIDE DEF request
<1>4. UNCHANGED <<application, bills, code, setting, fees, approved>>
  BY DEF SettleRead, rows
<1>5. Sound(request, bills, approved)
  BY <1>3 DEF Sound, Approving, SettleRead, Free
<1>6. \A g \in Handlers \ {h} : ~SameBill(request, handler[g])
  BY <1>3 DEF SameBill, SettleRead, Free, Locked
<1>7. handler' \in [Handlers -> Request] /\ HandlersSound' /\ LocksHeld'
  BY <1>2, <1>4, <1>5, <1>6, RequestsKept DEF IInv, HandlersSound
<1> QED BY <1>4, <1>7 DEF IInv, TypeOK, AtMostOneLive, ApprovedFirst, IdsAreUnique

-----------------------------------------------------------------------------
(***************************************************************************)
(* Steps that write rows.                                                  *)
(***************************************************************************)

\* Writing the application, and answering.
LEMMA ApplicationWritten ==
  ASSUME IInv, NEW h \in Handlers, SubmitCreate(h) \/ UpdateWrite(h)
  PROVE  IInv'
<1>1. handler' = [handler EXCEPT ![h] = Idle] /\ handler[h].step # "idle"
      /\ UNCHANGED <<bills, code, setting, fees, approved>>
  BY DEF SubmitCreate, UpdateWrite, Goes
<1>2. application' \in [Students -> ApplicationStatus]
  BY DEF SubmitCreate, UpdateWrite, IInv, TypeOK, ApplicationStatus
<1>3. handler' \in [Handlers -> Request] /\ HandlersSound' /\ LocksHeld'
  BY <1>1, IdleSound, RequestsKept DEF IInv, HandlersSound, SameBill
<1> QED BY <1>1, <1>2, <1>3 DEF IInv, TypeOK, AtMostOneLive, ApprovedFirst, IdsAreUnique

\* The review's decision; from an approval on the student is approved.
LEMMA ReviewFlipKeeps ==
  ASSUME IInv, NEW h \in Handlers, ReviewFlip(h)
  PROVE  IInv'
<1>1. PICK s, verdict : s = handler[h].student /\ verdict = handler[h].verdict
  OBVIOUS
<1>2. handler[h] \in Request /\ handler[h].step = "flipping" /\ s \in Students
      /\ verdict \in ApplicationStatus
  BY <1>1 DEF IInv, TypeOK, HandlersSound, Sound, ReviewFlip, Goes, Request
<1>3. UNCHANGED <<bills, code, setting, fees>>
  BY DEF ReviewFlip
<1>4. /\ application' \in [Students -> ApplicationStatus]
      /\ approved' \subseteq Students /\ approved \subseteq approved'
  BY <1>1, <1>2 DEF ReviewFlip, IInv, TypeOK
<1>5. handler' \in [Handlers -> Request] /\ HandlersSound' /\ LocksHeld'
  <2>1. \A k \in Handlers : Sound(handler[k], bills', approved')
    BY <1>3, <1>4 DEF IInv, HandlersSound, Sound
  <2>2. CASE StillSubmitted(s) /\ verdict = "APPROVED"
    <3> DEFINE request == [handler[h] EXCEPT !.step = "issuing"]
    <3>1. /\ request \in Request /\ request.step = "issuing" /\ request.student = s
          /\ handler' = [handler EXCEPT ![h] = request]
      BY <1>1, <1>2, <2>2 DEF ReviewFlip, Goes, Request, Step
    <3> HIDE DEF request
    <3>2. s \in approved'
      BY <1>1, <2>2 DEF ReviewFlip
    <3>3. Sound(request, bills', approved') /\ \A q : ~SameBill(request, q)
      BY <1>2, <3>1, <3>2 DEF Sound, Approving, SameBill
    <3> QED BY <2>1, <3>1, <3>3, RequestsKept
  <2>3. CASE ~(StillSubmitted(s) /\ verdict = "APPROVED")
    <3>1. handler' = [handler EXCEPT ![h] = Idle]
      BY <1>1, <2>3 DEF ReviewFlip, Goes
    <3>2. \A q : ~SameBill(Idle, q)
      BY IdleSound DEF SameBill
    <3> QED BY <2>1, <3>1, <3>2, IdleSound, RequestsKept
  <2> QED BY <2>2, <2>3
<1> QED BY <1>3, <1>4, <1>5 DEF IInv, TypeOK, AtMostOneLive, ApprovedFirst, IdsAreUnique

\* An invoice is added only when none is live, and those there are stay.
LEMMA BillAdded ==
  ASSUME IInv, NEW s \in Students, NEW k \in Kinds, bills' = WithBill(s, k)
  PROVE  /\ bills' \in [Students -> [Kinds -> Seq(BillStatus)]] /\ AtMostOneLive'
         /\ \A t \in Students, l \in Kinds :
              /\ (t # s \/ l # k) => bills'[t][l] = bills[t][l]
              /\ DOMAIN bills[t][l] \subseteq DOMAIN bills'[t][l]
              /\ \A i \in DOMAIN bills[t][l] : bills'[t][l][i] = bills[t][l][i]
<1>1. bills \in [Students -> [Kinds -> Seq(BillStatus)]] /\ bills[s][k] \in Seq(BillStatus)
  BY DEF IInv, TypeOK
<1>2. CASE bills' = bills
  BY <1>1, <1>2 DEF IInv, AtMostOneLive
<1>3. CASE ~Live(s, k) /\ bills' = [bills EXCEPT ![s][k] = Append(@, "UNPAID")]
  <2> DEFINE new == Append(bills[s][k], "UNPAID")
  <2>1. /\ new \in Seq(BillStatus) /\ DOMAIN new = (DOMAIN bills[s][k]) \cup {Len(bills[s][k]) + 1}
        /\ \A i \in DOMAIN bills[s][k] : new[i] = bills[s][k][i]
    BY <1>1 DEF BillStatus
  <2>2. bills' = [bills EXCEPT ![s][k] = new]
    BY <1>1, <1>3
  <2>3. \A i \in DOMAIN bills[s][k] : bills[s][k][i] = "CANCELLED"
    BY <1>1, <1>3 DEF Live, HasBill, BillStatus
  <2> HIDE DEF new
  <2>4. /\ bills' \in [Students -> [Kinds -> Seq(BillStatus)]]
        /\ \A t \in Students, l \in Kinds :
             bills'[t][l] = IF t = s /\ l = k THEN new ELSE bills[t][l]
    BY <1>1, <2>1, <2>2
  <2>5. AtMostOneLive'
    <3>1. \A i, j \in DOMAIN new : new[i] # "CANCELLED" /\ new[j] # "CANCELLED" => i = j
      BY <2>1, <2>3
    <3>2. \A t \in Students, l \in Kinds : t # s \/ l # k => bills'[t][l] = bills[t][l]
      BY <2>4
    <3>3. bills'[s][k] = new
      BY <2>4
    <3> QED BY <3>1, <3>2, <3>3 DEF IInv, AtMostOneLive
  <2> QED BY <2>1, <2>4, <2>5
<1> QED BY <1>2, <1>3 DEF WithBill

\* The requests stay sound when an invoice is added.
LEMMA AddedSound ==
  ASSUME IInv, NEW s \in Students, NEW k \in Kinds, bills' = WithBill(s, k),
         UNCHANGED approved, NEW g \in Handlers
  PROVE  Sound(handler[g], bills', approved')
<1>1. Sound(handler[g], bills, approved) /\ handler[g] \in Request
  BY DEF IInv, TypeOK, HandlersSound
<1>2. handler[g].step = "settling" =>
        handler[g].student \in Students /\ handler[g].kind \in Kinds
  BY <1>1 DEF Sound, Request
<1> QED BY <1>1, <1>2, BillAdded DEF Sound

\* The admission invoice is issued to an approved student.
LEMMA ReviewIssueKeeps ==
  ASSUME IInv, NEW h \in Handlers, ReviewIssue(h)
  PROVE  IInv'
<1>1. PICK s : s = handler[h].student
  OBVIOUS
<1>2. handler[h] \in Request /\ handler[h].step = "issuing" /\ s \in Students /\ s \in approved
  BY <1>1 DEF IInv, TypeOK, HandlersSound, Sound, ReviewIssue, Approving
<1>3. bills' = WithBill(s, "ADMISSION") /\ UNCHANGED <<application, code, setting, fees, approved>>
  BY <1>1 DEF ReviewIssue
<1>5. "ADMISSION" \in Kinds
  BY DEF Kinds
<1>4. PICK request \in Request :
        /\ request.step \in {"finding", "looking"} /\ request.student = s
        /\ handler' = [handler EXCEPT ![h] = request]
  <2>1. PICK to \in {"finding", "looking"}, bill \in {0, Len(bills'[s]["ADMISSION"])} :
          handler' = [handler EXCEPT ![h] = [@ EXCEPT !.step = to, !.bill = bill]]
    BY <1>1 DEF ReviewIssue, ReviewGoes
  <2>2. bills'[s]["ADMISSION"] \in Seq(BillStatus)
    BY <1>2, <1>3, <1>5, BillAdded
  <2>3. bill \in Nat
    BY <2>1, <2>2
  <2>4. [handler[h] EXCEPT !.step = to, !.bill = bill] \in Request
    BY <1>2, <2>1, <2>3 DEF Request, Step
  <2> QED BY <1>1, <1>2, <2>1, <2>4 DEF Request
<1>6. Sound(request, bills', approved') /\ \A q : ~SameBill(request, q)
  BY <1>2, <1>3, <1>4 DEF Sound, SameBill
<1>7. handler' \in [Handlers -> Request] /\ HandlersSound' /\ LocksHeld'
  BY <1>2, <1>3, <1>4, <1>5, <1>6, AddedSound, RequestsKept
<1>8. /\ bills' \in [Students -> [Kinds -> Seq(BillStatus)]] /\ AtMostOneLive'
      /\ \A t \in Students : t # s => bills'[t]["ADMISSION"] = bills[t]["ADMISSION"]
  BY <1>2, <1>3, <1>5, BillAdded
<1>9. ApprovedFirst'
  BY <1>2, <1>3, <1>8 DEF IInv, ApprovedFirst
<1> QED BY <1>3, <1>7, <1>8, <1>9 DEF IInv, TypeOK, IdsAreUnique

\* A review that looks at invoices only moves on.
LEMMA ReviewLooksKeep ==
  ASSUME IInv, NEW h \in Handlers, ReviewFind(h) \/ ReviewLook(h)
  PROVE  IInv'
<1>1. CASE Goes(h, "looking", "idle") /\ UNCHANGED rows
  BY <1>1, GoesOn DEF Step, Approving
<1>2. handler[h] \in Request /\ handler[h].step \in {"finding", "looking"}
      /\ handler[h].student \in Students /\ handler[h].student \in approved
      /\ UNCHANGED rows
  BY DEF IInv, TypeOK, HandlersSound, Sound, Approving, ReviewFind, ReviewLook
<1>3. ASSUME NEW to \in {"looking", "confirming"}, NEW bill \in Nat, ReviewGoes(h, to, bill)
      PROVE  IInv'
  <2> DEFINE request == [handler[h] EXCEPT !.step = to, !.bill = bill]
  <2>1. handler' = [handler EXCEPT ![h] = request]
    BY <1>3 DEF ReviewGoes
  <2>2. request \in Request /\ request.step = to /\ request.student = handler[h].student
    BY <1>2 DEF Request, Step
  <2> HIDE DEF request
  <2>3. Sound(request, bills, approved)
    BY <1>2, <2>2 DEF Sound
  <2> QED BY <1>2, <2>1, <2>2, <2>3, RequestMoves
<1>4. ASSUME ReviewFind(h) PROVE IInv'
  <2>1. DOMAIN bills[handler[h].student]["ADMISSION"] \subseteq Nat
    <3>1. "ADMISSION" \in Kinds
      BY DEF Kinds
    <3>2. bills[handler[h].student]["ADMISSION"] \in Seq(BillStatus)
      BY <1>2, <3>1 DEF IInv, TypeOK
    <3> QED BY <3>2
  <2>2. PICK to \in {"looking", "confirming"}, bill \in Nat : ReviewGoes(h, to, bill)
    BY <1>4, <2>1 DEF ReviewFind
  <2> QED BY <1>3, <2>2
<1>5. ASSUME ReviewLook(h) PROVE IInv'
  BY <1>1, <1>2, <1>3, <1>5 DEF ReviewLook
<1> QED BY <1>4, <1>5

\* Other invoices are issued by requests of their own.
LEMMA IssueBillKeeps ==
  ASSUME IInv, NEW h \in Handlers, IssueBill(h)
  PROVE  IInv'
<1>1. PICK s, k : s = handler[h].student /\ k = handler[h].kind
  OBVIOUS
<1>2. s \in Students /\ k \in Kinds /\ k # "ADMISSION"
  BY <1>1 DEF IInv, TypeOK, HandlersSound, Sound, IssueBill, Goes, Request
<1>3. bills' = WithBill(s, k) /\ UNCHANGED <<application, code, setting, fees, approved>>
      /\ handler' = [handler EXCEPT ![h] = Idle]
  BY <1>1 DEF IssueBill, Goes
<1>4. \A q : ~SameBill(Idle, q)
  BY IdleSound DEF SameBill
<1>5. handler' \in [Handlers -> Request] /\ HandlersSound' /\ LocksHeld'
  BY <1>2, <1>3, <1>4, IdleSound, AddedSound, RequestsKept
<1>6. /\ bills' \in [Students -> [Kinds -> Seq(BillStatus)]] /\ AtMostOneLive'
      /\ \A t \in Students : bills'[t]["ADMISSION"] = bills[t]["ADMISSION"]
  BY <1>2, <1>3, BillAdded DEF Kinds
<1>7. ApprovedFirst'
  BY <1>3, <1>6 DEF IInv, ApprovedFirst
<1> QED BY <1>3, <1>5, <1>6, <1>7 DEF IInv, TypeOK, IdsAreUnique

\* A new student ID is of nobody else.
LEMMA CodeGiven ==
  ASSUME IInv, NEW s \in Students, s \in approved, UNCHANGED approved,
         code' = [code EXCEPT ![s] = nextStudentIdCode],
         \A t \in Students : bills'[t]["ADMISSION"] # <<>> => bills[t]["ADMISSION"] # <<>>
  PROVE  code' \in [Students -> Nat] /\ IdsAreUnique' /\ ApprovedFirst'
<1>1. PICK n \in Nat \ {0} : n = nextStudentIdCode /\ \A t \in Students : code[t] < n
  BY NextNumber DEF IInv
<1>2. code \in [Students -> Nat] /\ code' = [code EXCEPT ![s] = n]
  BY <1>1 DEF IInv, TypeOK
<1>3. \A t \in Students : code'[t] = IF t = s THEN n ELSE code[t]
  BY <1>2
<1>4. IdsAreUnique'
  BY <1>1, <1>2, <1>3 DEF IInv, IdsAreUnique
<1>5. ApprovedFirst'
  BY <1>3 DEF IInv, ApprovedFirst
<1> QED BY <1>2, <1>4, <1>5

\* A confirmation numbers an approved student.
LEMMA ConfirmWriteKeeps ==
  ASSUME IInv, NEW h \in Handlers, ConfirmWrite(h)
  PROVE  IInv'
<1>1. PICK s : s = handler[h].student
  OBVIOUS
<1>2. s \in Students /\ s \in approved
  BY <1>1 DEF IInv, TypeOK, HandlersSound, Sound, ConfirmWrite, Goes, Approving
<1>3. code' = [code EXCEPT ![s] = nextStudentIdCode] /\ handler' = [handler EXCEPT ![h] = Idle]
      /\ UNCHANGED <<application, bills, setting, fees, approved>>
  BY <1>1 DEF ConfirmWrite, Goes
<1>4. \A q : ~SameBill(Idle, q)
  BY IdleSound DEF SameBill
<1>5. handler' \in [Handlers -> Request] /\ HandlersSound' /\ LocksHeld'
  BY <1>3, <1>4, IdleSound, RequestsKept DEF IInv, HandlersSound
<1>6. code' \in [Students -> Nat] /\ IdsAreUnique' /\ ApprovedFirst'
  BY <1>2, <1>3, CodeGiven
<1> QED BY <1>3, <1>5, <1>6 DEF IInv, TypeOK, AtMostOneLive

\* A live invoice changes its status, and no other does.
LEMMA BillMarked ==
  ASSUME IInv, NEW s \in Students, NEW k \in Kinds, NEW i \in DOMAIN bills[s][k],
         bills[s][k][i] # "CANCELLED", NEW to \in BillStatus,
         bills' = [bills EXCEPT ![s][k][i] = to]
  PROVE  /\ bills' \in [Students -> [Kinds -> Seq(BillStatus)]] /\ AtMostOneLive'
         /\ \A t \in Students, l \in Kinds :
              /\ DOMAIN bills'[t][l] = DOMAIN bills[t][l]
              /\ \A j \in DOMAIN bills[t][l] :
                   t # s \/ l # k \/ j # i => bills'[t][l][j] = bills[t][l][j]
              /\ bills'[t][l] # <<>> => bills[t][l] # <<>>
<1>1. bills \in [Students -> [Kinds -> Seq(BillStatus)]] /\ bills[s][k] \in Seq(BillStatus)
  BY DEF IInv, TypeOK
<1> DEFINE new == [bills[s][k] EXCEPT ![i] = to]
<1>2. /\ new \in Seq(BillStatus) /\ DOMAIN new = DOMAIN bills[s][k]
      /\ \A j \in DOMAIN bills[s][k] : j # i => new[j] = bills[s][k][j]
      /\ new # <<>> /\ bills[s][k] # <<>>
  BY <1>1
<1>3. bills' = [bills EXCEPT ![s][k] = new]
  BY <1>1
<1> HIDE DEF new
<1>4. /\ bills' \in [Students -> [Kinds -> Seq(BillStatus)]]
      /\ \A t \in Students, l \in Kinds :
           bills'[t][l] = IF t = s /\ l = k THEN new ELSE bills[t][l]
  BY <1>1, <1>2, <1>3
<1>5. AtMostOneLive'
  <2>1. \A j \in DOMAIN bills[s][k] : j # i => bills[s][k][j] = "CANCELLED"
    BY DEF IInv, AtMostOneLive
  <2>2. \A j, l \in DOMAIN new : new[j] # "CANCELLED" /\ new[l] # "CANCELLED" => j = l
    BY <1>2, <2>1
  <2>3. \A t \in Students, l \in Kinds : t # s \/ l # k => bills'[t][l] = bills[t][l]
    BY <1>4
  <2>4. bills'[s][k] = new
    BY <1>4
  <2> QED BY <2>2, <2>3, <2>4 DEF IInv, AtMostOneLive
<1> QED BY <1>2, <1>4, <1>5

\* A settlement marks the invoice whose lock it holds, and may confirm.
LEMMA SettleWriteKeeps ==
  ASSUME IInv, NEW h \in Handlers, SettleWrite(h)
  PROVE  IInv'
<1>1. PICK s, k, i : s = handler[h].student /\ k = handler[h].kind /\ i = handler[h].bill
  OBVIOUS
<1>2. /\ handler[h] \in Request /\ handler[h].step = "settling" /\ s \in Students /\ k \in Kinds
      /\ i \in DOMAIN bills[s][k] /\ bills[s][k][i] # "CANCELLED"
  BY <1>1 DEF IInv, TypeOK, HandlersSound, Sound, SettleWrite, Goes, Request
<1>3. /\ handler' = [handler EXCEPT ![h] = Idle] /\ bills' = [bills EXCEPT ![s][k][i] = "PAID"]
      /\ UNCHANGED <<application, setting, fees, approved>>
  BY <1>1 DEF SettleWrite, Goes
<1>4. /\ bills' \in [Students -> [Kinds -> Seq(BillStatus)]] /\ AtMostOneLive'
      /\ \A t \in Students, l \in Kinds :
           /\ DOMAIN bills'[t][l] = DOMAIN bills[t][l]
           /\ \A j \in DOMAIN bills[t][l] :
                t # s \/ l # k \/ j # i => bills'[t][l][j] = bills[t][l][j]
           /\ bills'[t][l] # <<>> => bills[t][l] # <<>>
  BY <1>2, <1>3, BillMarked DEF BillStatus
<1>5. handler' \in [Handlers -> Request] /\ HandlersSound' /\ LocksHeld'
  <2>1. ASSUME NEW g \in Handlers \ {h} PROVE Sound(handler[g], bills', approved')
    <3>1. Sound(handler[g], bills, approved) /\ handler[g] \in Request
          /\ ~SameBill(handler[h], handler[g])
      BY DEF IInv, TypeOK, HandlersSound, LocksHeld
    <3>2. handler[g].step = "settling" =>
            /\ handler[g].student \in Students /\ handler[g].kind \in Kinds
            /\ handler[g].student # s \/ handler[g].kind # k \/ handler[g].bill # i
      BY <1>1, <1>2, <3>1 DEF Sound, SameBill, Request
    <3> QED BY <1>3, <1>4, <3>1, <3>2 DEF Sound
  <2>2. \A q : ~SameBill(Idle, q)
    BY IdleSound DEF SameBill
  <2> QED BY <1>3, <2>1, <2>2, IdleSound, RequestsKept
<1>6. code' \in [Students -> Nat] /\ IdsAreUnique' /\ ApprovedFirst'
  <2>0. "ADMISSION" \in Kinds
    BY DEF Kinds
  <2>1. CASE code' = code
    BY <1>3, <1>4, <2>0, <2>1 DEF IInv, TypeOK, IdsAreUnique, ApprovedFirst
  <2>2. CASE Confirms(h) /\ code' = [code EXCEPT ![s] = nextStudentIdCode]
    <3>1. bills[s]["ADMISSION"] # <<>>
      BY <1>1, <1>2, <2>2 DEF Confirms
    <3>2. s \in approved
      BY <1>2, <3>1 DEF IInv, ApprovedFirst
    <3> QED BY <1>2, <1>3, <1>4, <2>0, <2>2, <3>2, CodeGiven
  <2> QED BY <1>1, <2>1, <2>2 DEF SettleWrite
<1> QED BY <1>3, <1>4, <1>5, <1>6 DEF IInv, TypeOK

\* Corrections, refunds and cancellations wait for the lock.
LEMMA BillMovesKeeps ==
  ASSUME IInv, NEW s \in Students, NEW k \in Kinds, NEW i, NEW to \in BillStatus,
         BillMoves(s, k, i, to)
  PROVE  IInv'
<1>1. /\ i \in DOMAIN bills[s][k] /\ bills[s][k][i] # "CANCELLED" /\ ~Locked(s, k, i)
      /\ bills' = [bills EXCEPT ![s][k][i] = to]
      /\ UNCHANGED <<application, code, setting, fees, handler, approved>>
  BY DEF BillMoves, Free
<1>2. /\ bills' \in [Students -> [Kinds -> Seq(BillStatus)]] /\ AtMostOneLive'
      /\ \A t \in Students, l \in Kinds :
           /\ DOMAIN bills'[t][l] = DOMAIN bills[t][l]
           /\ \A j \in DOMAIN bills[t][l] :
                t # s \/ l # k \/ j # i => bills'[t][l][j] = bills[t][l][j]
           /\ bills'[t][l] # <<>> => bills[t][l] # <<>>
  BY <1>1, BillMarked
<1>3. HandlersSound'
  <2>1. SUFFICES ASSUME NEW g \in Handlers PROVE Sound(handler[g], bills', approved)
    BY <1>1 DEF HandlersSound
  <2>2. Sound(handler[g], bills, approved) /\ handler[g] \in Request
    BY DEF IInv, TypeOK, HandlersSound
  <2>3. handler[g].step = "settling" =>
          /\ handler[g].student \in Students /\ handler[g].kind \in Kinds
          /\ handler[g].student # s \/ handler[g].kind # k \/ handler[g].bill # i
    BY <1>1, <2>2 DEF Sound, Locked, Request
  <2> QED BY <1>2, <2>2, <2>3 DEF Sound
<1>4. ApprovedFirst'
  BY <1>1, <1>2 DEF IInv, ApprovedFirst, Kinds
<1> QED BY <1>1, <1>2, <1>3, <1>4 DEF IInv, TypeOK, LocksHeld, IdsAreUnique

-----------------------------------------------------------------------------
(***************************************************************************)
(* The theorems.                                                           *)
(***************************************************************************)

\* At first there is nothing.
LEMMA Initially == Init => IInv
<1> SUFFICES ASSUME Init PROVE IInv
  OBVIOUS
<1>1. TypeOK
  BY IdleSound, AdmissionAssumption DEF Init, TypeOK, ApplicationStatus
<1>2. HandlersSound /\ LocksHeld
  BY IdleSound DEF Init, HandlersSound, LocksHeld, SameBill
<1>3. AtMostOneLive /\ ApprovedFirst /\ IdsAreUnique
  BY DEF Init, AtMostOneLive, ApprovedFirst, IdsAreUnique, Kinds
<1> QED BY <1>1, <1>2, <1>3 DEF IInv

\* Every step keeps the invariant.
LEMMA StepKeeps == IInv /\ [Next]_vars => IInv'
<1> SUFFICES ASSUME IInv, [Next]_vars PROVE IInv'
  OBVIOUS
<1>1. ASSUME UNCHANGED <<application, bills, code, handler, approved>>,
             setting' \in Setting, fees' \subseteq Policies
      PROVE  IInv'
  BY <1>1 DEF IInv, TypeOK, HandlersSound, LocksHeld, AtMostOneLive, ApprovedFirst, IdsAreUnique
<1>2. CASE UNCHANGED vars
  BY <1>1, <1>2 DEF vars, IInv, TypeOK
<1>3. ASSUME NEW h \in Handlers, NEW s \in Students,
             \/ SubmitRead(h, s) \/ UpdateRead(h, s)
             \/ \E verdict \in {"APPROVED", "REJECTED"} : ReviewRead(h, s, verdict)
             \/ ApplicationInvoiceRead(h, s) \/ IdCardInvoiceRead(h, s)
      PROVE  IInv'
  BY <1>3, ReadsKeep
<1>4. ASSUME NEW h \in Handlers, NEW s \in Students, NEW k \in Kinds, NEW i \in 1..MaxBills,
             SettleRead(h, s, k, i)
      PROVE  IInv'
  BY <1>4, SettleReadKeeps, AdmissionAssumption
<1>5. ASSUME NEW h \in Handlers,
             SubmitCheckFee(h) \/ ReviewCheckFees(h) \/ ReviewFind(h) \/ ReviewLook(h)
      PROVE  IInv'
  <2>1. CASE SubmitCheckFee(h)
    BY <2>1, GoesOn DEF SubmitCheckFee, Step, Approving
  <2>2. CASE ReviewCheckFees(h)
    BY <2>2, GoesOn DEF ReviewCheckFees, Step, Approving
  <2>3. CASE ReviewFind(h) \/ ReviewLook(h)
    BY <2>3, ReviewLooksKeep
  <2> QED BY <1>5, <2>1, <2>2, <2>3
<1>6. ASSUME NEW h \in Handlers, ConfirmRead(h) PROVE IInv'
  <2>1. Goes(h, "confirming", "idle") \/ Goes(h, "confirming", "numbering")
    BY <1>6 DEF ConfirmRead, Goes
  <2> QED BY <1>6, <2>1, GoesOn DEF ConfirmRead, Step, Approving
<1>7. ASSUME NEW h \in Handlers, HandlerDies(h) PROVE IInv'
  BY <1>7, IdleSound, RequestMoves DEF HandlerDies
<1>8. ASSUME NEW h \in Handlers,
             \/ SubmitCreate(h) \/ UpdateWrite(h) \/ ReviewFlip(h) \/ ReviewIssue(h)
             \/ ConfirmWrite(h) \/ IssueBill(h) \/ SettleWrite(h)
      PROVE  IInv'
  BY <1>8, ApplicationWritten, ReviewFlipKeeps, ReviewIssueKeeps, ConfirmWriteKeeps,
     IssueBillKeeps, SettleWriteKeeps
<1>9. ASSUME NEW s \in Students, NEW k \in Kinds, NEW i \in 1..MaxBills,
             NEW to \in BillStatus, BillMoves(s, k, i, to)
      PROVE  IInv'
  BY <1>9, BillMovesKeeps
<1>10. ASSUME NEW new \in Settings, updateSettings(new) PROVE IInv'
  <2>1. fees \subseteq Policies
    BY DEF IInv, TypeOK
  <2> QED BY <1>1, <1>10, <2>1, AdmissionAssumption DEF updateSettings
<1>11. ASSUME NEW new \in FeeSets, FeePoliciesChange(new) PROVE IInv'
  <2>1. setting \in Setting
    BY DEF IInv, TypeOK
  <2> QED BY <1>1, <1>11, <2>1, AdmissionAssumption DEF FeePoliciesChange
<1> QED BY <1>2, <1>3, <1>4, <1>5, <1>6, <1>7, <1>8, <1>9, <1>10, <1>11 DEF Next

\* The invariant holds in every state.
LEMMA Invariant == Spec => []IInv
BY Initially, StepKeeps, PTL DEF Spec

\* Rows and requests keep the types of the source, through every race of
\* reviews, settlements and confirmations.
THEOREM AdmissionTypeCorrect == Spec => []TypeOK
BY Invariant, PTL DEF IInv

\* Nobody owes, or has paid, a one-off fee twice (invoice.service.ts:77, 166).
THEOREM OneInvoiceOfAKind == Spec => []OneLiveBill
BY Invariant, InvariantImplies, PTL

\* Charges, student IDs and gates come after an approval, whichever of reviews
\* and payments confirms (admission.service.ts:278, payment.service.ts:257).
THEOREM ApprovalComesFirst == Spec => []NothingBeforeApproval
BY Invariant, InvariantImplies, PTL

\* "Two students can never be handed the same sequence number"
\* (lib/admission.ts:12), although one student may be handed two.
THEOREM StudentIdsAreUnique == Spec => []IdsAreUnique
BY Invariant, PTL DEF IInv

\* A decision is never turned into the other one by a second review
\* (admission.service.ts:261).
THEOREM DecisionsAreFinal == Spec => DecisionsStand
<1>1. ASSUME IInv, Next
      PROVE  \A s \in Students :
               application[s] \in {"APPROVED", "REJECTED"}
                 => application'[s] \in {application[s], "SUBMITTED"}
  <2>1. SUFFICES ASSUME NEW s \in Students, application[s] \in {"APPROVED", "REJECTED"}
                 PROVE  application'[s] \in {application[s], "SUBMITTED"}
    OBVIOUS
  <2>2. application \in [Students -> ApplicationStatus]
    BY <1>1 DEF IInv, TypeOK
  <2>3. \/ UNCHANGED application
        \/ \E h \in Handlers : SubmitCreate(h) \/ UpdateWrite(h) \/ ReviewFlip(h)
    BY <1>1 DEF Next, rows, SubmitRead, UpdateRead, ReviewRead, ApplicationInvoiceRead,
           IdCardInvoiceRead, SettleRead, SubmitCheckFee, ReviewCheckFees, ReviewIssue,
           ReviewFind, ReviewLook, ConfirmRead, ConfirmWrite, IssueBill, SettleWrite, HandlerDies,
           BillMoves, updateSettings, FeePoliciesChange
  <2>4. ASSUME NEW h \in Handlers, SubmitCreate(h) \/ UpdateWrite(h) \/ ReviewFlip(h)
        PROVE  application'[s] \in {application[s], "SUBMITTED"}
    BY <2>1, <2>2, <2>4 DEF SubmitCreate, UpdateWrite, ReviewFlip, StillSubmitted
  <2> QED BY <2>3, <2>4
<1> QED BY <1>1, Invariant, PTL DEF Spec, DecisionsStand

-----------------------------------------------------------------------------
(***************************************************************************)
(* What the student is told.                                               *)
(***************************************************************************)

\* The list of steps marks the one the next step is about, and no other.
LEMMA OneCurrentStep ==
  ASSUME TypeOK, NEW s \in Students
  PROVE  {step \in DOMAIN steps(s) : steps(s)[step] = "current"}
           = {StepOf[kind] : kind \in {nextStep(s)} \cap DOMAIN StepOf}
<1> DEFINE shown   == ApplicationFeeShown(s)
           isPaid  == HasBill(s, "APPLICATION", {"PAID"})
           owes    == HasBill(s, "ADMISSION", {"UNPAID"})
           status  == application[s]
           marked  == {step \in DOMAIN steps(s) : steps(s)[step] = "current"}
<1>1. status \in ApplicationStatus
  BY DEF TypeOK
<1>2. /\ DOMAIN steps(s) = {"application_fee", "application", "review", "admission_payment",
                            "student_id"}
      /\ steps(s)["application_fee"] = "current" <=> status = "NONE" /\ shown /\ ~isPaid
      /\ steps(s)["application"] = "current" <=> status = "NONE" /\ ~(shown /\ ~isPaid)
      /\ steps(s)["review"] = "current" <=> status = "SUBMITTED"
      /\ steps(s)["admission_payment"] = "current" <=> status = "APPROVED" /\ owes
      /\ steps(s)["student_id"] # "current"
  <2> HIDE DEF shown, isPaid, owes
  <2> QED BY <1>1 DEF steps, ApplicationStatus, shown, isPaid, owes
<1>3. /\ DOMAIN StepOf = {"PAY_APPLICATION_FEE", "START_APPLICATION",
                          "APPLICATION_UNDER_REVIEW", "PAY_ADMISSION"}
      /\ StepOf["PAY_APPLICATION_FEE"] = "application_fee"
      /\ StepOf["START_APPLICATION"] = "application"
      /\ StepOf["APPLICATION_UNDER_REVIEW"] = "review"
      /\ StepOf["PAY_ADMISSION"] = "admission_payment"
  BY DEF StepOf
<1>4. CASE status = "NONE" /\ shown /\ ~isPaid
  <2>1. nextStep(s) = "PAY_APPLICATION_FEE"
    BY <1>4 DEF nextStep
  <2>2. marked = {"application_fee"}
    <3> HIDE DEF shown, isPaid, owes, status
    <3> QED BY <1>2, <1>4
  <2> QED BY <2>1, <2>2, <1>3
<1>5. CASE status = "NONE" /\ ~(shown /\ ~isPaid)
  <2>1. nextStep(s) = "START_APPLICATION"
    BY <1>5 DEF nextStep
  <2>2. marked = {"application"}
    <3> HIDE DEF shown, isPaid, owes, status
    <3> QED BY <1>2, <1>5
  <2> QED BY <2>1, <2>2, <1>3
<1>6. CASE status = "SUBMITTED"
  <2>1. nextStep(s) = "APPLICATION_UNDER_REVIEW"
    BY <1>6 DEF nextStep
  <2>2. marked = {"review"}
    <3> HIDE DEF shown, isPaid, owes, status
    <3> QED BY <1>2, <1>6
  <2> QED BY <2>1, <2>2, <1>3
<1>7. CASE status = "REJECTED"
  <2>1. nextStep(s) = "APPLICATION_REJECTED"
    BY <1>7 DEF nextStep
  <2>2. marked = {}
    <3> HIDE DEF shown, isPaid, owes, status
    <3> QED BY <1>2, <1>7
  <2> QED BY <2>1, <2>2, <1>3
<1>8. CASE status = "APPROVED" /\ owes
  <2>1. nextStep(s) = "PAY_ADMISSION"
    BY <1>8 DEF nextStep
  <2>2. marked = {"admission_payment"}
    <3> HIDE DEF shown, isPaid, owes, status
    <3> QED BY <1>2, <1>8
  <2> QED BY <2>1, <2>2, <1>3
<1>9. CASE status = "APPROVED" /\ ~owes
  <2>1. nextStep(s) = "ENROLL"
    BY <1>9 DEF nextStep
  <2>2. marked = {}
    <3> HIDE DEF shown, isPaid, owes, status
    <3> QED BY <1>2, <1>9
  <2> QED BY <2>1, <2>2, <1>3
<1> QED BY <1>1, <1>4, <1>5, <1>6, <1>7, <1>8, <1>9 DEF ApplicationStatus

\* An application fee that is to be paid is on an invoice or on the rate card;
\* where none is shown, the check of a submission asks for none.
LEMMA FeeCanBePaid ==
  ASSUME TypeOK, NEW s \in Students
  PROVE  /\ nextStep(s) = "START_APPLICATION" =>
              \/ ~(setting.applicationFeeRequired /\ HasSchedule("APPLICATION"))
              \/ HasBill(s, "APPLICATION", {"PAID"})
         /\ nextStep(s) = "PAY_APPLICATION_FEE" =>
              HasBill(s, "APPLICATION", {"UNPAID"}) \/ HasItems("APPLICATION")
<1>1. application[s] \in ApplicationStatus
  BY DEF TypeOK
<1>2. nextStep(s) \in {"START_APPLICATION", "PAY_APPLICATION_FEE"} => application[s] = "NONE"
  BY <1>1 DEF nextStep, ApplicationStatus
<1>3. Live(s, "APPLICATION") /\ ~HasBill(s, "APPLICATION", {"PAID"})
        => HasBill(s, "APPLICATION", {"UNPAID"})
  BY DEF Live, HasBill
<1>4. nextStep(s) = "START_APPLICATION" =>
        ~(ApplicationFeeShown(s) /\ ~HasBill(s, "APPLICATION", {"PAID"}))
  BY <1>2 DEF nextStep
<1>5. nextStep(s) = "PAY_APPLICATION_FEE" =>
        ApplicationFeeShown(s) /\ ~HasBill(s, "APPLICATION", {"PAID"})
  BY <1>2 DEF nextStep
<1> QED BY <1>2, <1>3, <1>4, <1>5 DEF ApplicationFeeShown, HasSchedule, HasItems

\* The page of the ID card offers what can be had.
LEMMA CardPageHolds ==
  ASSUME TypeOK, NEW s \in Students
  PROVE  /\ CardPage(s) = "DOWNLOAD" <=> MayPrintCard(s)
         /\ CardPage(s) = "REQUEST_INVOICE" => HasItems("ID_CARD") /\ ~Live(s, "ID_CARD")
         /\ CardPage(s) = "PAY_INVOICE" => HasBill(s, "ID_CARD", {"UNPAID"})
<1> DEFINE items == HasItems("ID_CARD")
           live  == Live(s, "ID_CARD")
           paid  == HasBill(s, "ID_CARD", {"PAID"})
           state == getIdCardFeeState(s)
<1>1. live /\ ~paid => HasBill(s, "ID_CARD", {"UNPAID"})
  BY DEF Live, HasBill
<1>2. paid => live
  BY DEF Live, HasBill
<1>3. /\ state \in {"NOT_REQUIRED", "NOT_INVOICED", "PAID", "UNPAID"}
      /\ state = "NOT_INVOICED" => items /\ ~live
      /\ state = "UNPAID" => live /\ ~paid
  <2> HIDE DEF items, live, paid
  <2>1. CASE ~items
    BY <2>1 DEF getIdCardFeeState, items
  <2>2. CASE items /\ ~live
    BY <1>2, <2>2 DEF getIdCardFeeState, items, live, paid
  <2>3. CASE items /\ live /\ paid
    BY <2>3 DEF getIdCardFeeState, items, live, paid
  <2>4. CASE items /\ live /\ ~paid
    BY <2>4 DEF getIdCardFeeState, items, live, paid
  <2> QED BY <2>1, <2>2, <2>3, <2>4
<1> HIDE DEF state
<1>4. /\ CardPage(s) = "DOWNLOAD" <=> code[s] # 0 /\ state \in {"PAID", "NOT_REQUIRED"}
      /\ CardPage(s) = "REQUEST_INVOICE" => state = "NOT_INVOICED"
      /\ CardPage(s) = "PAY_INVOICE" => state = "UNPAID"
  BY <1>3 DEF CardPage, state
<1>5. MayPrintCard(s) <=> code[s] # 0 /\ state \in {"PAID", "NOT_REQUIRED"}
  BY <1>3 DEF MayPrintCard, assertIdCardFeePaid, state
<1> QED BY <1>1, <1>3, <1>4, <1>5

\* The next step the dashboard names, and what the page of the ID card offers,
\* can be done, whatever became of policies, settings and invoices
\* (admission.service.ts:55, dashboard.service.ts:278, auth.service.ts:516).
THEOREM NobodyIsStuck == Spec => []NextStepIsPossible
<1>1. IInv => NextStepIsPossible
  BY OneCurrentStep, FeeCanBePaid, CardPageHolds DEF IInv, NextStepIsPossible
<1> QED BY <1>1, Invariant, PTL
=============================================================================
