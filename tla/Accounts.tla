------------------------------ MODULE Accounts ------------------------------
(***************************************************************************)
(* The account of one e-mail address (module/auth/auth.service.ts,         *)
(* module/Instructor/Instructor.service.ts).  Everything these services    *)
(* keep is keyed by the address: the User row and its profiles in the      *)
(* database, one-time codes and the data of a registration in Redis.       *)
(*                                                                         *)
(* A request that has found what it needs goes on with what it has read:   *)
(* each write, to the database or to Redis, is an action of its own.       *)
(* A password is the request that chose it.                                *)
(***************************************************************************)
EXTENDS Integers, FiniteSets

CONSTANTS
  Clients,       \* requests in flight
  NoPassword,
  MaxCodes       \* bound on the one-time codes ever generated

ASSUME AccountsAssumption == NoPassword \notin Clients /\ MaxCodes \in Nat

VARIABLES
  account,   \* the User row, with its profiles; role "NONE": no row
  keys,      \* the Redis keys of the address; 0, NoPassword: no such key
  codes,     \* the number of codes generated: codes are 1, 2, ...
  client,    \* requests: where they are, what they have read
  vouched    \* history: some review has approved the instructor

accountsVars == <<account, keys, codes, client, vouched>>

Roles == {"NONE", "STUDENT", "INSTRUCTOR"}
Verdicts == {"PENDING", "APPROVED", "REJECTED"}
Passwords == Clients \cup {NoPassword}
User == [role : Roles, password : Passwords, emailVerified : BOOLEAN,
         google : BOOLEAN, studentProfile : BOOLEAN, verificationStatus : Verdicts]
CodeKeys == {"registration", "application", "reset"}
ClientStep == {"idle", "registering", "storing", "loading", "creating", "cleaning",
               "applying", "coding", "unkeying", "verifying", "reviewing", "crediting",
               "signing", "linking", "completing", "forgetting", "resetting", "ending",
               "changing"}
Call == [step : ClientStep, password : Passwords, verdict : Verdicts]

AccountsTypeOK ==
  /\ account \in User
  /\ keys \in [code : [CodeKeys -> Nat], data : Passwords]
  /\ codes \in Nat
  /\ client \in [Clients -> Call]
  /\ vouched \in BOOLEAN

NoUser == [role |-> "NONE", password |-> NoPassword, emailVerified |-> FALSE,
           google |-> FALSE, studentProfile |-> FALSE, verificationStatus |-> "PENDING"]
IdleCall == [step |-> "idle", password |-> NoPassword, verdict |-> "PENDING"]

AccountsInit ==
  /\ account = NoUser
  /\ keys = [code |-> [k \in CodeKeys |-> 0], data |-> NoPassword]
  /\ codes = 0
  /\ client = [q \in Clients |-> IdleCall]
  /\ vouched = FALSE

\* The request, at one step, goes on to another; "idle" answers it.
Proceeds(q, from, to) ==
  /\ client[q].step = from
  /\ client' = [client EXCEPT ![q] = IF to = "idle" THEN IdleCall
                                                    ELSE [@ EXCEPT !.step = to]]
Learns(q, from, to, password) ==
  /\ client[q].step = from
  /\ client' = [client EXCEPT ![q].step = to, ![q].password = password]

OnlyClient == UNCHANGED <<account, keys, codes, vouched>>
OnlyAccount == UNCHANGED <<keys, codes, vouched>>
OnlyKeys == UNCHANGED <<account, vouched>>

Mailed(key) ==
  /\ codes < MaxCodes
  /\ codes' = codes + 1
  /\ keys' = [keys EXCEPT !.code[key] = codes + 1]

\* prisma.user.create: the address is unique, a second row fails.
CreatedUser(user) == account' = IF account.role = "NONE" THEN user ELSE account

-----------------------------------------------------------------------------
(***************************************************************************)
(* registerStudent and verifyStudentEmail.                                 *)
(***************************************************************************)

RegisterRead(q) ==
  /\ account.role = "NONE"
  /\ Learns(q, "idle", "registering", q)
  /\ OnlyClient

RegisterCode(q) ==
  /\ Proceeds(q, "registering", "storing")
  /\ Mailed("registration")
  /\ OnlyKeys

RegisterData(q) ==
  /\ Proceeds(q, "storing", "idle")
  /\ keys' = [keys EXCEPT !.data = client[q].password]
  /\ UNCHANGED <<account, codes, vouched>>

\* The stored code is the one entered.
VerifyCode(q, code) ==
  /\ code = keys.code["registration"]
  /\ Proceeds(q, "idle", "loading")
  /\ OnlyClient

VerifyData(q) ==
  /\ keys.data # NoPassword
  /\ Learns(q, "loading", "creating", keys.data)
  /\ OnlyClient

VerifyCreate(q) ==
  /\ Proceeds(q, "creating", IF account.role = "NONE" THEN "cleaning" ELSE "idle")
  /\ CreatedUser([NoUser EXCEPT !.role = "STUDENT", !.password = client[q].password,
                            !.emailVerified = TRUE, !.studentProfile = TRUE])
  /\ OnlyAccount

VerifyClean(q) ==
  /\ Proceeds(q, "cleaning", "idle")
  /\ keys' = [keys EXCEPT !.code["registration"] = 0, !.data = NoPassword]
  /\ UNCHANGED <<account, codes, vouched>>

-----------------------------------------------------------------------------
(***************************************************************************)
(* Instructors: applyAsInstructor, verifyInstructorEmail,                  *)
(* reviewInstructorApplication.                                            *)
(***************************************************************************)

\* The resume is uploaded between the read and the write.
ApplyRead(q) ==
  /\ account.role = "NONE"
  /\ Proceeds(q, "idle", "applying")
  /\ OnlyClient

ApplyCreate(q) ==
  /\ Proceeds(q, "applying", IF account.role = "NONE" THEN "coding" ELSE "idle")
  /\ CreatedUser([NoUser EXCEPT !.role = "INSTRUCTOR"])
  /\ OnlyAccount

ApplyCode(q) ==
  /\ Proceeds(q, "coding", "idle")
  /\ Mailed("application")
  /\ OnlyKeys

VerifyInstructorCode(q, code) ==
  /\ account.role = "INSTRUCTOR" /\ ~account.emailVerified
  /\ code = keys.code["application"]
  /\ Proceeds(q, "idle", "unkeying")
  /\ OnlyClient

VerifyInstructorUnkey(q) ==
  /\ Proceeds(q, "unkeying", "verifying")
  /\ keys' = [keys EXCEPT !.code["application"] = 0]
  /\ UNCHANGED <<account, codes, vouched>>

VerifyInstructorWrite(q) ==
  /\ Proceeds(q, "verifying", "idle")
  /\ account' = [account EXCEPT !.emailVerified = TRUE]
  /\ OnlyAccount

\* Mutant: the e-mail need not be verified.
MayReview_Unverified ==
  account.role = "INSTRUCTOR" /\ account.verificationStatus = "PENDING"

MayReview ==
  /\ account.role = "INSTRUCTOR" /\ account.emailVerified
  /\ account.verificationStatus = "PENDING"

ReviewInstructorRead(q, verdict) ==
  /\ MayReview
  /\ client[q].step = "idle"
  /\ client' = [client EXCEPT ![q] = [IdleCall EXCEPT !.step = "reviewing",
                                                      !.verdict = verdict]]
  /\ OnlyClient

\* The status is not looked at again.
ReviewInstructorWrite(q) ==
  LET verdict == client[q].verdict
  IN  /\ Proceeds(q, "reviewing", IF verdict = "APPROVED" THEN "crediting" ELSE "idle")
      /\ account' = [account EXCEPT !.verificationStatus = verdict]
      /\ vouched' = (vouched \/ verdict = "APPROVED")
      /\ UNCHANGED <<keys, codes>>

\* The temporary password is stored, and mailed.
ReviewInstructorCredit(q) ==
  /\ Proceeds(q, "crediting", "idle")
  /\ account' = [account EXCEPT !.password = q]
  /\ OnlyAccount

-----------------------------------------------------------------------------
(***************************************************************************)
(* googleLogin, completeProfile.                                           *)
(***************************************************************************)

GoogleRead(q) ==
  /\ ~account.google
  /\ Proceeds(q, "idle", IF account.role = "NONE" THEN "signing" ELSE "linking")
  /\ OnlyClient

GoogleCreate(q) ==
  /\ Proceeds(q, "signing", "idle")
  /\ CreatedUser([NoUser EXCEPT !.role = "STUDENT", !.google = TRUE, !.emailVerified = TRUE])
  /\ OnlyAccount

GoogleLink(q) ==
  /\ Proceeds(q, "linking", "idle")
  /\ account' = [account EXCEPT !.google = TRUE]
  /\ OnlyAccount

CompleteProfileRead(q) ==
  /\ account.role = "STUDENT" /\ ~account.studentProfile
  /\ Proceeds(q, "idle", "completing")
  /\ OnlyClient

\* A second profile of the user fails: userId is unique.
CompleteProfileWrite(q) ==
  /\ Proceeds(q, "completing", "idle")
  /\ account' = [account EXCEPT !.studentProfile = TRUE]
  /\ OnlyAccount

-----------------------------------------------------------------------------
(***************************************************************************)
(* forgotPassword, resetPassword, changePassword.                          *)
(***************************************************************************)

ForgotRead(q) ==
  /\ account.role # "NONE" /\ account.password # NoPassword
  /\ Proceeds(q, "idle", "forgetting")
  /\ OnlyClient

ForgotCode(q) ==
  /\ Proceeds(q, "forgetting", "idle")
  /\ Mailed("reset")
  /\ OnlyKeys

ResetRead(q, code) ==
  /\ account.role # "NONE" /\ code = keys.code["reset"]
  /\ Learns(q, "idle", "resetting", q)
  /\ OnlyClient

ResetWrite(q) ==
  /\ Proceeds(q, "resetting", "ending")
  /\ account' = [account EXCEPT !.password = client[q].password]
  /\ OnlyAccount

\* Whatever code there is by now.
ResetClean(q) ==
  /\ Proceeds(q, "ending", "idle")
  /\ keys' = [keys EXCEPT !.code["reset"] = 0]
  /\ UNCHANGED <<account, codes, vouched>>

\* The old password was entered as it is stored.
ChangeRead(q) ==
  /\ account.password # NoPassword
  /\ Learns(q, "idle", "changing", q)
  /\ OnlyClient

ChangeWrite(q) ==
  /\ Proceeds(q, "changing", "idle")
  /\ account' = [account EXCEPT !.password = client[q].password]
  /\ OnlyAccount

-----------------------------------------------------------------------------
\* OTP_TTL_SECONDS have passed; the two keys of a registration expire apart.
CodeExpires(key) ==
  /\ keys.code[key] # 0
  /\ keys' = [keys EXCEPT !.code[key] = 0]
  /\ UNCHANGED <<account, codes, client, vouched>>

DataExpires ==
  /\ keys.data # NoPassword
  /\ keys' = [keys EXCEPT !.data = NoPassword]
  /\ UNCHANGED <<account, codes, client, vouched>>

\* The process stops, or Redis, the mail server or the upload fails.
ClientDies(q) ==
  /\ client[q].step # "idle"
  /\ client' = [client EXCEPT ![q] = IdleCall]
  /\ OnlyClient

AccountsNext ==
  \/ \E q \in Clients :
       \/ RegisterRead(q) \/ RegisterCode(q) \/ RegisterData(q)
       \/ VerifyData(q) \/ VerifyCreate(q) \/ VerifyClean(q)
       \/ ApplyRead(q) \/ ApplyCreate(q) \/ ApplyCode(q)
       \/ VerifyInstructorUnkey(q) \/ VerifyInstructorWrite(q)
       \/ \E verdict \in {"APPROVED", "REJECTED"} : ReviewInstructorRead(q, verdict)
       \/ ReviewInstructorWrite(q) \/ ReviewInstructorCredit(q)
       \/ GoogleRead(q) \/ GoogleCreate(q) \/ GoogleLink(q)
       \/ CompleteProfileRead(q) \/ CompleteProfileWrite(q)
       \/ ForgotRead(q) \/ ForgotCode(q)
       \/ ResetWrite(q) \/ ResetClean(q)
       \/ ChangeRead(q) \/ ChangeWrite(q)
       \/ \E code \in 1..MaxCodes :
            VerifyCode(q, code) \/ VerifyInstructorCode(q, code) \/ ResetRead(q, code)
       \/ ClientDies(q)
  \/ \E key \in CodeKeys : CodeExpires(key)
  \/ DataExpires

AccountsSpec == AccountsInit /\ [][AccountsNext]_accountsVars

-----------------------------------------------------------------------------
\* An account has a password, and can be logged in to with it, only if its
\* e-mail was verified and, for an instructor, some review approved him: no
\* order of registrations, applications, reviews and resets, and no step of
\* one that fails half way, gets around it (auth.service.ts:185,
\* Instructor.service.ts:215).
PasswordsAreEarned ==
  account.password # NoPassword =>
    /\ account.emailVerified
    /\ account.role = "INSTRUCTOR" => vouched
==============================================================================
