--------------------------- MODULE ServicesProofs ---------------------------
(***************************************************************************)
(* What the seven services and the billing arithmetic of MCServices        *)
(* promise, for every value of the constants: one section for each, with   *)
(* the inductive invariant of that service and the steps that keep it, and *)
(* then the types of their composition.                                    *)
(***************************************************************************)
EXTENDS MCServices, BillingProofs

-----------------------------------------------------------------------------
(***************************************************************************)
(* The token of the gateway (GatewayTokens).                               *)
(***************************************************************************)

\* Keys in Redis have time left; unless a token was cached late, what the key
\* has left is no more than what its token has.
KeysLast ==
  /\ key # NoKey => key \in Cached /\ key.left >= 1
  /\ refresh # NoKey => refresh \in Nat /\ refresh >= 1

TokenOutlivesKey ==
  ~late => ~dead /\ (key # NoKey => key.age + key.left <= IdTokenLife)

TokensInv == GatewayTokensTypeOK /\ KeysLast /\ TokenOutlivesKey

LEMMA TokensInitInv == GatewayTokensInit => TokensInv
BY GatewayTokensAssumption
   DEF GatewayTokensInit, TokensInv, GatewayTokensTypeOK, KeysLast, TokenOutlivesKey

\* A write in flight that is neither nothing nor the refresh token is an id_token.
LEMMA WriteIsToken ==
  ASSUME TokensInv, NEW p \in Payments, writing[p] \notin {NoKey, Second}
  PROVE  writing[p] \in First /\ writing[p].age \in Nat
BY DEF TokensInv, GatewayTokensTypeOK, First

LEMMA TokensNextInv == TokensInv /\ [GatewayTokensNext]_gatewayTokensVars => TokensInv'
<1> SUFFICES ASSUME TokensInv, [GatewayTokensNext]_gatewayTokensVars PROVE TokensInv'
  OBVIOUS
<1> USE GatewayTokensAssumption
<1>1. CASE UNCHANGED gatewayTokensVars
  BY <1>1 DEF gatewayTokensVars, TokensInv, GatewayTokensTypeOK, KeysLast, TokenOutlivesKey
<1>2. ASSUME NEW p \in Payments,
             FindIdToken(p) \/ MissIdToken(p) \/ FindRefreshToken(p)
               \/ refreshGrantToken(p) \/ requestNewGrantToken(p)
      PROVE  TokensInv'
  <2>1. ASSUME NEW from \in {"refreshing", "granting"}, Answered(p, from)
        PROVE  TokensInv'
    <3>1. [age |-> 0] \in First
      BY DEF First
    <3>2. GatewayTokensTypeOK'
      BY <2>1, <3>1 DEF Answered, Asks, TokensInv, GatewayTokensTypeOK
    <3> QED BY <2>1, <3>2 DEF Answered, Asks, TokensInv, KeysLast, TokenOutlivesKey
  <2>2. ASSUME NEW from \in {"idle", "missed", "refreshing", "granting"},
               NEW to \in {"idle", "missed", "refreshing", "granting"}, Asks(p, from, to),
               UNCHANGED <<key, refresh, writing, dead, late>>
        PROVE  TokensInv'
    BY <2>2 DEF Asks, TokensInv, GatewayTokensTypeOK, KeysLast, TokenOutlivesKey
  <2>3. CASE FindIdToken(p)
    <3>1. key \in Cached /\ key.age \in Nat /\ key.left \in Nat /\ key.left >= 1
      BY <2>3 DEF FindIdToken, TokensInv, KeysLast, Cached
    <3>2. GatewayTokensTypeOK'
      BY <2>3, <3>1 DEF FindIdToken, Asks, TokensInv, GatewayTokensTypeOK
    <3>3. ~late => ~(key.age >= IdTokenLife)
      <4>1. SUFFICES ASSUME ~late PROVE ~(key.age >= IdTokenLife)
        OBVIOUS
      <4>2. key.age + key.left <= IdTokenLife
        BY <2>3, <4>1 DEF FindIdToken, TokensInv, TokenOutlivesKey
      <4> QED BY <3>1, <4>2
    <3>4. UNCHANGED <<key, late>> /\ dead' = (dead \/ key.age >= IdTokenLife)
      BY <2>3 DEF FindIdToken
    <3>5. TokenOutlivesKey'
      BY <3>3, <3>4, Zenon DEF TokensInv, TokenOutlivesKey
    <3> QED BY <2>3, <3>2, <3>5 DEF FindIdToken, TokensInv, KeysLast
  <2>4. CASE MissIdToken(p)
    BY <2>4, <2>2 DEF MissIdToken
  <2>5. CASE FindRefreshToken(p)
    BY <2>5, <2>2 DEF FindRefreshToken
  <2>6. CASE refreshGrantToken(p)
    BY <2>6, <2>1, <2>2 DEF refreshGrantToken
  <2>7. CASE requestNewGrantToken(p)
    BY <2>7, <2>1, <2>2 DEF requestNewGrantToken
  <2> QED BY <1>2, <2>3, <2>4, <2>5, <2>6, <2>7
<1>3. ASSUME NEW p \in Payments, CacheIdToken(p) PROVE TokensInv'
  <2> DEFINE fresh == [age |-> writing[p].age, left |-> Expiration]
  <2>1. writing[p].age \in Nat
    BY <1>3, WriteIsToken DEF CacheIdToken
  <2>2. fresh \in Cached /\ fresh.age = writing[p].age /\ fresh.left = ID_TOKEN_TTL_SECONDS
    BY <2>1 DEF Cached, Expiration
  <2>3. \/ key' = fresh /\ late' = (late \/ writing[p].age + ID_TOKEN_TTL_SECONDS > IdTokenLife)
        \/ UNCHANGED <<key, late>>
    BY <1>3 DEF CacheIdToken
  <2>4. UNCHANGED <<refresh, asking, dead>>
    BY <1>3 DEF CacheIdToken
  <2>5. GatewayTokensTypeOK'
    <3>1. writing' \in [Payments -> First \cup {Second, NoKey}]
      BY <1>3 DEF CacheIdToken, TokensInv, GatewayTokensTypeOK
    <3>2. key' \in Cached \cup {NoKey}
      BY <2>2, <2>3 DEF TokensInv, GatewayTokensTypeOK
    <3>3. late' \in BOOLEAN
      BY <2>3 DEF TokensInv, GatewayTokensTypeOK
    <3> QED BY <2>4, <3>1, <3>2, <3>3 DEF TokensInv, GatewayTokensTypeOK
  <2> HIDE DEF fresh
  <2>6. KeysLast'
    BY <2>2, <2>3, <2>4 DEF TokensInv, KeysLast
  <2>7. ~(writing[p].age + ID_TOKEN_TTL_SECONDS > IdTokenLife)
          => fresh.age + fresh.left <= IdTokenLife
    BY <2>1, <2>2
  <2>8. TokenOutlivesKey'
    <3>1. CASE UNCHANGED <<key, late>>
      BY <3>1, <2>4 DEF TokensInv, TokenOutlivesKey
    <3>2. CASE key' = fresh
               /\ late' = (late \/ writing[p].age + ID_TOKEN_TTL_SECONDS > IdTokenLife)
      BY <3>2, <2>4, <2>7, Zenon DEF TokensInv, TokenOutlivesKey
    <3> QED BY <3>1, <3>2, <2>3
  <2> QED BY <2>5, <2>6, <2>8 DEF TokensInv
<1>4. ASSUME NEW p \in Payments, CacheRefreshToken(p) PROVE TokensInv'
  BY <1>4 DEF CacheRefreshToken, TokensInv, GatewayTokensTypeOK, KeysLast, TokenOutlivesKey
<1>5. CASE TimePasses
  <2>1. key # NoKey => key \in Cached /\ key.age \in Nat /\ key.left \in Nat /\ key.left >= 1
    BY DEF TokensInv, KeysLast, Cached
  <2>2. key' # NoKey => /\ key # NoKey /\ key.left # 1
                        /\ key' = [age |-> key.age + 1, left |-> key.left - 1]
    BY <1>5 DEF TimePasses
  <2>3. key' # NoKey => /\ key' \in Cached /\ key'.age = key.age + 1
                        /\ key'.left = key.left - 1 /\ key'.left >= 1
    <3>1. SUFFICES ASSUME key' # NoKey PROVE key' \in Cached /\ key'.age = key.age + 1
                                             /\ key'.left = key.left - 1 /\ key'.left >= 1
      OBVIOUS
    <3>2. key.age + 1 \in Nat /\ key.left - 1 \in Nat /\ key.left - 1 >= 1
      BY <3>1, <2>1, <2>2
    <3> QED BY <3>1, <3>2, <2>2 DEF Cached
  <2>4. refresh' # NoKey => refresh' \in Nat /\ refresh' >= 1
    BY <1>5 DEF TimePasses, TokensInv, KeysLast
  <2>5. writing' \in [Payments -> First \cup {Second, NoKey}]
    <3>1. ASSUME NEW p \in Payments, writing[p] \notin {NoKey, Second}
          PROVE  [writing[p] EXCEPT !.age = @ + 1] \in First
      BY <3>1, WriteIsToken DEF First
    <3>2. \A p \in Payments : writing[p] \in First \cup {Second, NoKey}
      BY DEF TokensInv, GatewayTokensTypeOK
    <3>3. \A p \in Payments :
            writing'[p] \in {writing[p]} \cup {[writing[p] EXCEPT !.age = @ + 1]}
            /\ (writing'[p] # writing[p] => writing[p] \notin {NoKey, Second})
      BY <1>5 DEF TimePasses
    <3>4. \A p \in Payments : writing'[p] \in First \cup {Second, NoKey}
      BY <3>1, <3>2, <3>3
    <3>5. writing' = [p \in Payments |-> writing'[p]]
      BY <1>5 DEF TimePasses
    <3> QED BY <3>4, <3>5
  <2>6. UNCHANGED <<asking, dead, late>>
    BY <1>5 DEF TimePasses
  <2>7. GatewayTokensTypeOK' /\ KeysLast'
    BY <2>3, <2>4, <2>5, <2>6 DEF TokensInv, GatewayTokensTypeOK, KeysLast
  <2>8. TokenOutlivesKey'
    BY <2>1, <2>2, <2>3, <2>6 DEF TokensInv, TokenOutlivesKey
  <2> QED BY <2>7, <2>8 DEF TokensInv
<1>6. CASE ProcessStops
  BY <1>6 DEF ProcessStops, TokensInv, GatewayTokensTypeOK, KeysLast, TokenOutlivesKey
<1> QED BY <1>1, <1>2, <1>3, <1>4, <1>5, <1>6 DEF GatewayTokensNext

LEMMA TokensInvariant == GatewayTokensSpec => []TokensInv
BY TokensInitInv, TokensNextInv, PTL DEF GatewayTokensSpec

\* A payment is never sent to bKash with a dead id_token, whichever requests
\* fetch, refresh and cache tokens in whichever order and wherever the process
\* stops, unless Redis stored one later than the time by which its key goes
\* before the token (lib/bkash.ts:126).
THEOREM TokensStayAlive == GatewayTokensSpec => []TokensAreAlive
<1>1. TokensInv => TokensAreAlive
  BY DEF TokensInv, TokenOutlivesKey, TokensAreAlive
<1> QED BY <1>1, TokensInvariant, PTL

-----------------------------------------------------------------------------
(***************************************************************************)
(* The account of an e-mail address (Accounts).                            *)
(***************************************************************************)

HasPassword(user) == user.password # NoPassword

\* What a request still knows when it writes: a password once there stays
\* there, as do a row, its verified e-mail and a review.
Informed(q, user, reviewed) ==
  /\ q.step \in {"forgetting", "resetting", "changing"} => HasPassword(user)
  /\ q.step \in {"resetting", "changing"} => q.password # NoPassword
  /\ q.step \in {"reviewing", "crediting"} => user.role # "NONE" /\ user.emailVerified
  /\ q.step = "crediting" => reviewed

Earned(user, reviewed) ==
  HasPassword(user) => /\ user.emailVerified
                       /\ user.role = "INSTRUCTOR" => reviewed

\* Nobody without a row has a password, and a code that resets a password was
\* sent to somebody who had one.
AccountSound ==
  /\ account.role = "NONE" => ~HasPassword(account)
  /\ keys.code["reset"] # 0 => HasPassword(account)
  /\ Earned(account, vouched)

ClientsInformed == \A q \in Clients : Informed(client[q], account, vouched)

AccountsInv == AccountsTypeOK /\ AccountSound /\ ClientsInformed

LEMMA AccountsInitInv == AccountsInit => AccountsInv
<1> SUFFICES ASSUME AccountsInit PROVE AccountsInv
  OBVIOUS
<1> USE DEF AccountsInit, NoUser, IdleCall
<1>1. AccountsTypeOK
  <2>1. NoUser \in User
    BY DEF User, Roles, Passwords, Verdicts
  <2>2. IdleCall \in Call
    BY DEF Call, ClientStep, Passwords, Verdicts
  <2> HIDE DEF NoUser, IdleCall
  <2>3. keys \in [code : [CodeKeys -> Nat], data : Passwords]
    BY DEF Passwords
  <2> QED BY <2>1, <2>2, <2>3 DEF AccountsTypeOK
<1>2. AccountSound
  BY DEF AccountSound, HasPassword, Earned, CodeKeys
<1>3. ClientsInformed
  BY DEF ClientsInformed, Informed
<1> QED BY <1>1, <1>2, <1>3 DEF AccountsInv

\* A later account of the same address: whoever had a row still has it, with
\* the role, the verified e-mail and the password it had.
Grown(user, new) ==
  /\ user.role # "NONE" => new.role = user.role
  /\ user.emailVerified /\ user.role # "NONE" => new.emailVerified
  /\ HasPassword(user) => HasPassword(new)

\* What a request knows stays known while accounts grow and reviews are made.
LEMMA InformedStays ==
  ASSUME NEW q, NEW user, NEW new, NEW reviewed \in BOOLEAN, NEW later \in BOOLEAN,
         Informed(q, user, reviewed), Grown(user, new), reviewed => later
  PROVE  Informed(q, new, later)
BY DEF Informed, Grown

\* A step that moves one request leaves the others informed.
LEMMA OthersInformed ==
  ASSUME ClientsInformed, AccountsTypeOK, NEW q \in Clients, NEW next, Grown(account, account'),
         vouched => vouched', vouched' \in BOOLEAN,
         client' = [client EXCEPT ![q] = next], Informed(next, account', vouched')
  PROVE  ClientsInformed'
<1>1. vouched \in BOOLEAN /\ client \in [Clients -> Call]
  BY DEF AccountsTypeOK
<1>2. ASSUME NEW p \in Clients PROVE Informed(client'[p], account', vouched')
  <2>1. CASE p = q
    BY <2>1, <1>1
  <2>2. CASE p # q
    <3>1. client'[p] = client[p]
      BY <2>2, <1>1
    <3>2. Informed(client[p], account, vouched)
      BY DEF ClientsInformed
    <3> QED BY <3>1, <3>2, <1>1, InformedStays
  <2> QED BY <2>1, <2>2
<1> QED BY <1>2 DEF ClientsInformed

LEMMA GrownStays ==
  ASSUME account' = account
  PROVE  Grown(account, account')
BY DEF Grown

\* A step of a request keeps the invariant when what it writes is sound and its
\* next step knows enough.
LEMMA RequestKeeps ==
  ASSUME AccountsInv, NEW q \in Clients, NEW next \in Call,
         client' = [client EXCEPT ![q] = next],
         account' \in User, vouched' \in BOOLEAN, vouched => vouched',
         Grown(account, account'), Earned(account', vouched'),
         account'.role = "NONE" => ~HasPassword(account'),
         keys' \in [code : [CodeKeys -> Nat], data : Passwords], codes' \in Nat,
         keys'.code["reset"] # 0 => HasPassword(account'),
         Informed(next, account', vouched')
  PROVE  AccountsInv'
<1>1. AccountsTypeOK'
  BY DEF AccountsInv, AccountsTypeOK
<1>2. AccountSound'
  BY DEF AccountSound
<1>3. ClientsInformed'
  BY OthersInformed DEF AccountsInv
<1> QED BY <1>1, <1>2, <1>3 DEF AccountsInv

\* A step that leaves the row as it is.
LEMMA RowStays ==
  ASSUME AccountsInv, UNCHANGED <<account, vouched>>
  PROVE  /\ account' \in User /\ vouched' \in BOOLEAN /\ (vouched => vouched')
         /\ Grown(account, account') /\ Earned(account', vouched')
         /\ account'.role = "NONE" => ~HasPassword(account')
BY DEF AccountsInv, AccountsTypeOK, AccountSound, Grown

\* A step that leaves Redis as it is, and the password there was.
LEMMA KeysStay ==
  ASSUME AccountsInv, UNCHANGED <<keys, codes>>, Grown(account, account')
  PROVE  /\ keys' \in [code : [CodeKeys -> Nat], data : Passwords] /\ codes' \in Nat
         /\ keys'.code["reset"] # 0 => HasPassword(account')
BY DEF AccountsInv, AccountsTypeOK, AccountSound, Grown

\* Where a request goes on to: it is answered, or takes what it knows along.
LEMMA ProceedsTo ==
  ASSUME AccountsTypeOK, NEW q \in Clients, NEW from, NEW to \in ClientStep, Proceeds(q, from, to)
  PROVE  \E next \in Call :
           /\ client[q].step = from /\ client' = [client EXCEPT ![q] = next]
           /\ next.step = to /\ (to # "idle" => next.password = client[q].password)
<1> DEFINE next == IF to = "idle" THEN IdleCall ELSE [client[q] EXCEPT !.step = to]
<1>1. client[q] \in Call
  BY DEF AccountsTypeOK
<1>2. IdleCall \in Call /\ IdleCall.step = "idle"
  BY DEF IdleCall, Call, ClientStep, Passwords, Verdicts
<1>3. [client[q] EXCEPT !.step = to] \in Call
  BY <1>1 DEF Call
<1>4. [client[q] EXCEPT !.step = to].step = to
  BY <1>1 DEF Call
<1>5. client' = [client EXCEPT ![q] = next]
  BY DEF Proceeds
<1>6. [client[q] EXCEPT !.step = to].password = client[q].password
  BY <1>1 DEF Call
<1>7. next \in Call /\ next.step = to /\ (to # "idle" => next.password = client[q].password)
  BY <1>2, <1>3, <1>4, <1>6
<1>8. client[q].step = from
  BY DEF Proceeds
<1> HIDE DEF next
<1> QED BY <1>5, <1>7, <1>8

\* A request that learns a password.
LEMMA LearnsTo ==
  ASSUME AccountsTypeOK, NEW q \in Clients, NEW from, NEW to \in ClientStep,
         NEW password \in Passwords, Learns(q, from, to, password)
  PROVE  \E next \in Call :
           /\ client[q].step = from /\ client' = [client EXCEPT ![q] = next]
           /\ next.step = to /\ next.password = password
<1> DEFINE next == [client[q] EXCEPT !.step = to, !.password = password]
<1>1. client[q] \in Call /\ client \in [Clients -> Call]
  BY DEF AccountsTypeOK
<1>2. next \in Call /\ next.step = to /\ next.password = password
  BY <1>1 DEF Call
<1>3. client' = [client EXCEPT ![q] = next]
  BY <1>1 DEF Learns
<1>4. client[q].step = from
  BY DEF Learns
<1> HIDE DEF next
<1> QED BY <1>2, <1>3, <1>4

\* A request that has chosen a new password.
LEMMA ChoosesPassword ==
  ASSUME AccountsTypeOK, NEW q \in Clients, NEW to \in ClientStep, Learns(q, "idle", to, q)
  PROVE  \E next \in Call :
           /\ client' = [client EXCEPT ![q] = next]
           /\ next.step = to /\ next.password = q
<1>1. q \in Passwords
  BY DEF Passwords
<1> DEFINE next == [client[q] EXCEPT !.step = to, !.password = q]
<1>2. client[q] \in Call /\ client \in [Clients -> Call]
  BY DEF AccountsTypeOK
<1>3. next \in Call /\ next.step = to /\ next.password = q
  BY <1>1, <1>2 DEF Call
<1>4. client' = [client EXCEPT ![q] = next]
  BY <1>2 DEF Learns
<1> HIDE DEF next
<1> QED BY <1>3, <1>4

\* Steps that need to know nothing.
Unaware == ClientStep \ {"forgetting", "resetting", "changing", "reviewing", "crediting"}

LEMMA UnawareInformed ==
  ASSUME NEW next, next.step \in Unaware, NEW user, NEW reviewed
  PROVE  Informed(next, user, reviewed)
BY DEF Unaware, Informed

-----------------------------------------------------------------------------
\* Requests that only read.
LEMMA ReadsKeep ==
  ASSUME AccountsInv, NEW q \in Clients, NEW next \in Call, OnlyClient,
         client' = [client EXCEPT ![q] = next], Informed(next, account, vouched)
  PROVE  AccountsInv'
<1>1. UNCHANGED <<account, vouched>> /\ UNCHANGED <<keys, codes>>
  BY DEF OnlyClient
<1>2. Grown(account, account')
  BY <1>1, RowStays
<1> QED BY <1>1, <1>2, RowStays, KeysStay, RequestKeeps

LEMMA UnawareReads ==
  ASSUME AccountsInv, NEW q \in Clients, OnlyClient, NEW from, NEW to \in Unaware,
         \/ Proceeds(q, from, to)
         \/ \E password \in Passwords : Learns(q, from, to, password)
  PROVE  AccountsInv'
<1>1. AccountsTypeOK /\ to \in ClientStep
  BY DEF AccountsInv, Unaware
<1>2. PICK next \in Call : client' = [client EXCEPT ![q] = next] /\ next.step = to
  <2>1. CASE Proceeds(q, from, to)
    BY <1>1, <2>1, ProceedsTo
  <2>2. CASE \E password \in Passwords : Learns(q, from, to, password)
    <3>1. PICK password \in Passwords : Learns(q, from, to, password)
      BY <2>2
    <3>2. \E next \in Call :
            /\ client[q].step = from /\ client' = [client EXCEPT ![q] = next]
            /\ next.step = to /\ next.password = password
      BY <1>1, <3>1, LearnsTo
    <3> QED BY <3>2
  <2> QED BY <2>1, <2>2
<1>3. Informed(next, account, vouched)
  BY <1>2, UnawareInformed
<1> QED BY <1>2, <1>3, ReadsKeep

LEMMA ReadersKeep ==
  ASSUME AccountsInv, NEW q \in Clients,
         \/ RegisterRead(q) \/ VerifyData(q) \/ ApplyRead(q) \/ GoogleRead(q)
         \/ CompleteProfileRead(q) \/ ForgotRead(q) \/ ChangeRead(q) \/ ClientDies(q)
         \/ \E verdict \in {"APPROVED", "REJECTED"} : ReviewInstructorRead(q, verdict)
         \/ \E code \in 1..MaxCodes :
              VerifyCode(q, code) \/ VerifyInstructorCode(q, code) \/ ResetRead(q, code)
  PROVE  AccountsInv'
<1>1. AccountsTypeOK /\ q \in Passwords /\ q # NoPassword
  BY AccountsAssumption DEF AccountsInv, Passwords
<1>2. CASE RegisterRead(q)
  BY <1>1, <1>2, UnawareReads DEF RegisterRead, Unaware, ClientStep
<1>3. CASE VerifyData(q)
  <2>1. keys.data \in Passwords
    BY <1>1 DEF AccountsTypeOK
  <2> QED BY <2>1, <1>3, UnawareReads DEF VerifyData, Unaware, ClientStep
<1>4. CASE ApplyRead(q)
  BY <1>4, UnawareReads DEF ApplyRead, Unaware, ClientStep
<1>5. CASE GoogleRead(q)
  BY <1>5, UnawareReads DEF GoogleRead, Unaware, ClientStep
<1>6. CASE CompleteProfileRead(q)
  BY <1>6, UnawareReads DEF CompleteProfileRead, Unaware, ClientStep
<1>7. CASE ForgotRead(q)
  <2>1. PICK next \in Call : client' = [client EXCEPT ![q] = next] /\ next.step = "forgetting"
    BY <1>1, <1>7, ProceedsTo DEF ForgotRead, ClientStep
  <2>2. Informed(next, account, vouched)
    BY <1>7, <2>1 DEF ForgotRead, Informed, HasPassword
  <2> QED BY <1>7, <2>1, <2>2, ReadsKeep DEF ForgotRead
<1>8. CASE ChangeRead(q)
  <2>1. PICK next \in Call : /\ client' = [client EXCEPT ![q] = next]
                             /\ next.step = "changing" /\ next.password = q
    <3>1. Learns(q, "idle", "changing", q) /\ "changing" \in ClientStep
      BY <1>8 DEF ChangeRead, ClientStep
    <3> QED BY <1>1, <3>1, ChoosesPassword
  <2>2. Informed(next, account, vouched)
    BY <1>1, <1>8, <2>1 DEF ChangeRead, Informed, HasPassword
  <2> QED BY <1>8, <2>1, <2>2, ReadsKeep DEF ChangeRead
<1>9. CASE ClientDies(q)
  <2>1. IdleCall \in Call /\ Informed(IdleCall, account, vouched)
    BY DEF IdleCall, Call, ClientStep, Passwords, Verdicts, Informed
  <2> QED BY <1>9, <2>1, ReadsKeep DEF ClientDies
<1>10. ASSUME NEW verdict \in {"APPROVED", "REJECTED"}, ReviewInstructorRead(q, verdict)
       PROVE  AccountsInv'
  <2> DEFINE next == [IdleCall EXCEPT !.step = "reviewing", !.verdict = verdict]
  <2>1. next \in Call /\ next.step = "reviewing"
    BY DEF IdleCall, Call, ClientStep, Passwords, Verdicts
  <2>2. client' = [client EXCEPT ![q] = next] /\ MayReview /\ OnlyClient
    BY <1>10, Zenon DEF ReviewInstructorRead
  <2> HIDE DEF next
  <2>3. Informed(next, account, vouched)
    BY <2>1, <2>2 DEF MayReview, Informed
  <2> QED BY <2>1, <2>2, <2>3, ReadsKeep
<1>11. ASSUME NEW code \in 1..MaxCodes, VerifyCode(q, code)
       PROVE  AccountsInv'
  BY <1>11, UnawareReads DEF VerifyCode, Unaware, ClientStep
<1>12. ASSUME NEW code \in 1..MaxCodes, VerifyInstructorCode(q, code)
       PROVE  AccountsInv'
  BY <1>12, UnawareReads DEF VerifyInstructorCode, Unaware, ClientStep
<1>13. ASSUME NEW code \in 1..MaxCodes, ResetRead(q, code)
       PROVE  AccountsInv'
  <2>1. PICK next \in Call : /\ client' = [client EXCEPT ![q] = next]
                             /\ next.step = "resetting" /\ next.password = q
    <3>1. Learns(q, "idle", "resetting", q) /\ "resetting" \in ClientStep
      BY <1>13 DEF ResetRead, ClientStep
    <3> QED BY <1>1, <3>1, ChoosesPassword
  <2>2. keys.code["reset"] # 0
    BY <1>13 DEF ResetRead
  <2>3. Informed(next, account, vouched)
    BY <1>1, <2>1, <2>2 DEF AccountsInv, AccountSound, Informed
  <2> QED BY <1>13, <2>1, <2>3, ReadsKeep DEF ResetRead
<1> QED BY <1>2, <1>3, <1>4, <1>5, <1>6, <1>7, <1>8, <1>9, <1>10, <1>11, <1>12, <1>13

-----------------------------------------------------------------------------
\* Redis with another code, or none, under a key.
LEMMA CodeWritten ==
  ASSUME AccountsTypeOK, NEW box \in CodeKeys, NEW code \in Nat,
         NEW new, new = [keys EXCEPT !.code[box] = code]
  PROVE  /\ new \in [code : [CodeKeys -> Nat], data : Passwords]
         /\ new.code["reset"] = IF box = "reset" THEN code ELSE keys.code["reset"]
<1>1. keys \in [code : [CodeKeys -> Nat], data : Passwords] /\ "reset" \in CodeKeys
  BY DEF AccountsTypeOK, CodeKeys
<1>2. /\ new.code = [keys.code EXCEPT ![box] = code] /\ new.data = keys.data
      /\ new = [code |-> new.code, data |-> new.data]
  BY <1>1
<1>3. new.code \in [CodeKeys -> Nat] /\ new.data \in Passwords
  BY <1>1, <1>2
<1>4. new.code["reset"] = IF box = "reset" THEN code ELSE keys.code["reset"]
  BY <1>1, <1>2
<1>5. [code |-> new.code, data |-> new.data] \in [code : [CodeKeys -> Nat], data : Passwords]
  BY <1>3
<1> QED BY <1>2, <1>4, <1>5

\* Redis with another password of a registration, or none.
LEMMA DataWritten ==
  ASSUME AccountsTypeOK, NEW data \in Passwords, NEW new, new = [keys EXCEPT !.data = data]
  PROVE  /\ new \in [code : [CodeKeys -> Nat], data : Passwords]
         /\ new.code["reset"] = keys.code["reset"]
BY DEF AccountsTypeOK

\* Requests that write to Redis.
LEMMA RedisKeeps ==
  ASSUME AccountsInv, NEW q \in Clients, UNCHANGED <<account, vouched>>,
         NEW from, NEW to \in Unaware, Proceeds(q, from, to), codes' \in Nat,
         keys' \in [code : [CodeKeys -> Nat], data : Passwords],
         keys'.code["reset"] # 0 => HasPassword(account)
  PROVE  AccountsInv'
<1>1. AccountsTypeOK /\ to \in ClientStep
  BY DEF AccountsInv, Unaware
<1>2. PICK next \in Call : client' = [client EXCEPT ![q] = next] /\ next.step = to
  BY <1>1, ProceedsTo
<1>3. Informed(next, account', vouched')
  BY <1>2, UnawareInformed
<1>4. keys'.code["reset"] # 0 => HasPassword(account')
  OBVIOUS
<1> QED BY <1>2, <1>3, <1>4, RowStays, RequestKeeps

LEMMA RedisRequestsKeep ==
  ASSUME AccountsInv, NEW q \in Clients,
         \/ RegisterCode(q) \/ RegisterData(q) \/ VerifyClean(q) \/ ApplyCode(q)
         \/ VerifyInstructorUnkey(q) \/ ForgotCode(q) \/ ResetClean(q)
  PROVE  AccountsInv'
<1>1. /\ AccountsTypeOK /\ codes \in Nat /\ codes + 1 \in Nat /\ NoPassword \in Passwords
      /\ client[q].password \in Passwords
      /\ keys.code["reset"] # 0 => HasPassword(account)
  BY DEF AccountsInv, AccountsTypeOK, AccountSound, Passwords, Call
<1>2. ASSUME NEW box \in CodeKeys, Mailed(box), box = "reset" => HasPassword(account)
      PROVE  /\ codes' \in Nat /\ keys' \in [code : [CodeKeys -> Nat], data : Passwords]
             /\ keys'.code["reset"] # 0 => HasPassword(account)
  BY <1>1, <1>2, CodeWritten DEF Mailed
<1>3. CASE RegisterCode(q)
  BY <1>2, <1>3, RedisKeeps DEF RegisterCode, OnlyKeys, CodeKeys, Unaware, ClientStep
<1>4. CASE RegisterData(q)
  <2>1. /\ keys' \in [code : [CodeKeys -> Nat], data : Passwords]
        /\ keys'.code["reset"] = keys.code["reset"]
    BY <1>1, <1>4, DataWritten DEF RegisterData
  <2> QED BY <1>1, <1>4, <2>1, RedisKeeps DEF RegisterData, Unaware, ClientStep
<1>5. CASE VerifyClean(q)
  <2>1. /\ keys' \in [code : [CodeKeys -> Nat], data : Passwords]
        /\ keys'.code["reset"] = keys.code["reset"]
    BY <1>1, <1>5 DEF VerifyClean, AccountsTypeOK, CodeKeys
  <2> QED BY <1>1, <1>5, <2>1, RedisKeeps DEF VerifyClean, Unaware, ClientStep
<1>6. CASE ApplyCode(q)
  BY <1>2, <1>6, RedisKeeps DEF ApplyCode, OnlyKeys, CodeKeys, Unaware, ClientStep
<1>7. CASE VerifyInstructorUnkey(q)
  <2>1. /\ keys' \in [code : [CodeKeys -> Nat], data : Passwords]
        /\ keys'.code["reset"] = keys.code["reset"]
    BY <1>1, <1>7, CodeWritten DEF VerifyInstructorUnkey, CodeKeys
  <2> QED BY <1>1, <1>7, <2>1, RedisKeeps DEF VerifyInstructorUnkey, Unaware, ClientStep
<1>8. CASE ForgotCode(q)
  <2>1. client[q].step = "forgetting" /\ HasPassword(account)
    BY <1>8 DEF ForgotCode, Proceeds, AccountsInv, ClientsInformed, Informed
  <2> QED BY <1>2, <1>8, <2>1, RedisKeeps DEF ForgotCode, OnlyKeys, CodeKeys, Unaware, ClientStep
<1>9. CASE ResetClean(q)
  <2>1. /\ keys' \in [code : [CodeKeys -> Nat], data : Passwords]
        /\ keys'.code["reset"] = 0
    BY <1>1, <1>9, CodeWritten DEF ResetClean, CodeKeys
  <2> QED BY <1>1, <1>9, <2>1, RedisKeeps DEF ResetClean, Unaware, ClientStep
<1> QED BY <1>3, <1>4, <1>5, <1>6, <1>7, <1>8, <1>9

\* Keys expire.
LEMMA ExpiryKeeps ==
  ASSUME AccountsInv, (\E box \in CodeKeys : CodeExpires(box)) \/ DataExpires
  PROVE  AccountsInv'
<1>1. /\ UNCHANGED <<account, codes, client, vouched>>
      /\ keys' \in [code : [CodeKeys -> Nat], data : Passwords]
      /\ keys'.code["reset"] \in {0, keys.code["reset"]}
  <2>1. AccountsTypeOK /\ NoPassword \in Passwords
    BY DEF AccountsInv, Passwords
  <2>2. ASSUME NEW box \in CodeKeys, CodeExpires(box)
        PROVE  /\ UNCHANGED <<account, codes, client, vouched>>
               /\ keys' \in [code : [CodeKeys -> Nat], data : Passwords]
               /\ keys'.code["reset"] \in {0, keys.code["reset"]}
    BY <2>1, <2>2, CodeWritten DEF CodeExpires
  <2>3. ASSUME DataExpires
        PROVE  /\ UNCHANGED <<account, codes, client, vouched>>
               /\ keys' \in [code : [CodeKeys -> Nat], data : Passwords]
               /\ keys'.code["reset"] \in {0, keys.code["reset"]}
    BY <2>1, <2>3, DataWritten DEF DataExpires
  <2> QED BY <2>2, <2>3
<1>2. AccountsTypeOK'
  BY <1>1 DEF AccountsInv, AccountsTypeOK
<1>3. AccountSound' /\ ClientsInformed'
  BY <1>1 DEF AccountsInv, AccountSound, ClientsInformed
<1> QED BY <1>2, <1>3 DEF AccountsInv

-----------------------------------------------------------------------------
\* Requests that write the row.
LEMMA RowKeeps ==
  ASSUME AccountsInv, NEW q \in Clients, UNCHANGED <<keys, codes>>,
         NEW next \in Call, client' = [client EXCEPT ![q] = next],
         account' \in User, vouched' \in BOOLEAN, vouched => vouched',
         Grown(account, account'), Earned(account', vouched'),
         account'.role = "NONE" => ~HasPassword(account'),
         Informed(next, account', vouched')
  PROVE  AccountsInv'
BY KeysStay, RequestKeeps

\* The same for a request that goes on knowing nothing.
LEMMA UnawareWrites ==
  ASSUME AccountsInv, NEW q \in Clients, OnlyAccount,
         NEW from, NEW to \in Unaware, Proceeds(q, from, to),
         account' \in User, Grown(account, account'), Earned(account', vouched),
         account'.role = "NONE" => ~HasPassword(account')
  PROVE  AccountsInv'
<1>1. AccountsTypeOK /\ to \in ClientStep /\ UNCHANGED <<keys, codes>>
  BY DEF AccountsInv, Unaware, OnlyAccount
<1>2. PICK next \in Call : client' = [client EXCEPT ![q] = next] /\ next.step = to
  BY <1>1, ProceedsTo
<1>3. vouched' = vouched /\ vouched' \in BOOLEAN
  BY <1>1 DEF AccountsTypeOK, OnlyAccount
<1>4. Informed(next, account', vouched')
  BY <1>2, UnawareInformed
<1> QED BY <1>1, <1>2, <1>3, <1>4, RowKeeps

\* A row is created where there was none, with a password only if it is earned.
LEMMA CreationKeeps ==
  ASSUME AccountsInv, NEW q \in Clients, OnlyAccount,
         NEW from, NEW to \in Unaware, Proceeds(q, from, to),
         NEW user \in User, user.role # "NONE", Earned(user, vouched), CreatedUser(user)
  PROVE  AccountsInv'
<1>1. /\ account \in User /\ Earned(account, vouched)
      /\ account.role = "NONE" => ~HasPassword(account)
  BY DEF AccountsInv, AccountsTypeOK, AccountSound
<1>2. (account' = user /\ account.role = "NONE") \/ account' = account
  BY DEF CreatedUser
<1>3. Grown(account, account')
  BY <1>1, <1>2 DEF Grown
<1> QED BY <1>1, <1>2, <1>3, UnawareWrites

LEMMA RowRequestsKeep ==
  ASSUME AccountsInv, NEW q \in Clients,
         \/ VerifyCreate(q) \/ ApplyCreate(q) \/ VerifyInstructorWrite(q)
         \/ ReviewInstructorWrite(q) \/ ReviewInstructorCredit(q)
         \/ GoogleCreate(q) \/ GoogleLink(q) \/ CompleteProfileWrite(q)
         \/ ResetWrite(q) \/ ChangeWrite(q)
  PROVE  AccountsInv'
<1>1. /\ AccountsTypeOK /\ vouched \in BOOLEAN
      /\ account \in User /\ Earned(account, vouched)
      /\ account.role = "NONE" => ~HasPassword(account)
      /\ client[q] \in Call /\ Informed(client[q], account, vouched)
      /\ client[q].password \in Passwords /\ client[q].verdict \in Verdicts
      /\ q \in Passwords /\ q # NoPassword /\ NoPassword \in Passwords
  BY AccountsAssumption
     DEF AccountsInv, AccountsTypeOK, AccountSound, ClientsInformed, Call, Passwords
<1>2. {"idle", "cleaning", "coding", "ending"} \subseteq Unaware
  BY DEF Unaware, ClientStep
<1>3. CASE VerifyCreate(q)
  <2> DEFINE user == [NoUser EXCEPT !.role = "STUDENT", !.password = client[q].password,
                                    !.emailVerified = TRUE, !.studentProfile = TRUE]
             to == IF account.role = "NONE" THEN "cleaning" ELSE "idle"
  <2>1. user \in User /\ user.role = "STUDENT" /\ user.emailVerified
    BY <1>1 DEF NoUser, User, Roles, Verdicts
  <2>2. Proceeds(q, "creating", to) /\ CreatedUser(user) /\ OnlyAccount
    BY <1>3, Zenon DEF VerifyCreate
  <2> HIDE DEF user
  <2>3. Earned(user, vouched)
    BY <2>1 DEF Earned
  <2>4. to \in Unaware
    BY <1>2
  <2> HIDE DEF to
  <2> QED BY <2>1, <2>2, <2>3, <2>4, CreationKeeps
<1>4. CASE ApplyCreate(q)
  <2> DEFINE user == [NoUser EXCEPT !.role = "INSTRUCTOR"]
             to == IF account.role = "NONE" THEN "coding" ELSE "idle"
  <2>1. user \in User /\ user.role = "INSTRUCTOR" /\ ~HasPassword(user)
    BY <1>1 DEF NoUser, User, Roles, Verdicts, HasPassword
  <2>2. Proceeds(q, "applying", to) /\ CreatedUser(user) /\ OnlyAccount
    BY <1>4, Zenon DEF ApplyCreate
  <2> HIDE DEF user
  <2>3. Earned(user, vouched)
    BY <2>1 DEF Earned
  <2>4. to \in Unaware
    BY <1>2
  <2> HIDE DEF to
  <2> QED BY <2>1, <2>2, <2>3, <2>4, CreationKeeps
<1>5. CASE GoogleCreate(q)
  <2> DEFINE user == [NoUser EXCEPT !.role = "STUDENT", !.google = TRUE,
                                    !.emailVerified = TRUE]
  <2>1. user \in User /\ user.role = "STUDENT" /\ user.emailVerified
    BY <1>1 DEF NoUser, User, Roles, Verdicts
  <2>2. Proceeds(q, "signing", "idle") /\ CreatedUser(user) /\ OnlyAccount
    BY <1>5, Zenon DEF GoogleCreate
  <2> HIDE DEF user
  <2>3. Earned(user, vouched)
    BY <2>1 DEF Earned
  <2> QED BY <1>2, <2>1, <2>2, <2>3, CreationKeeps
<1>6. CASE VerifyInstructorWrite(q)
  <2> DEFINE user == [account EXCEPT !.emailVerified = TRUE]
  <2>1. /\ user \in User /\ user.role = account.role /\ user.password = account.password
        /\ user.emailVerified
    BY <1>1 DEF User
  <2>2. account' = user /\ Proceeds(q, "verifying", "idle") /\ OnlyAccount
    BY <1>6, Zenon DEF VerifyInstructorWrite
  <2> HIDE DEF user
  <2>3. Grown(account, account') /\ Earned(account', vouched)
    BY <1>1, <2>1, <2>2 DEF Grown, Earned, HasPassword
  <2> QED BY <1>1, <1>2, <2>1, <2>2, <2>3, UnawareWrites DEF HasPassword
<1>7. CASE GoogleLink(q) \/ CompleteProfileWrite(q)
  <2>1. /\ account' \in User /\ account'.role = account.role
        /\ account'.password = account.password
        /\ account'.emailVerified = account.emailVerified
    BY <1>1, <1>7 DEF GoogleLink, CompleteProfileWrite, User
  <2>2. /\ \E from \in ClientStep : Proceeds(q, from, "idle")
        /\ OnlyAccount
    BY <1>7 DEF GoogleLink, CompleteProfileWrite, ClientStep
  <2>3. Grown(account, account') /\ Earned(account', vouched)
    BY <1>1, <2>1 DEF Grown, Earned, HasPassword
  <2> QED BY <1>1, <1>2, <2>1, <2>2, <2>3, UnawareWrites DEF HasPassword
<1>8. CASE ResetWrite(q) \/ ChangeWrite(q)
  <2>1. client[q].step \in {"resetting", "changing"}
    BY <1>8 DEF ResetWrite, ChangeWrite, Proceeds
  <2>2. HasPassword(account) /\ client[q].password # NoPassword
    BY <1>1, <2>1 DEF Informed
  <2>3. /\ account' \in User /\ account'.role = account.role
        /\ account'.password = client[q].password
        /\ account'.emailVerified = account.emailVerified
    BY <1>1, <1>8 DEF ResetWrite, ChangeWrite, User
  <2>4. /\ \E from \in ClientStep, to \in {"idle", "ending"} : Proceeds(q, from, to)
        /\ OnlyAccount
    BY <1>8 DEF ResetWrite, ChangeWrite, ClientStep
  <2>5. Grown(account, account') /\ Earned(account', vouched) /\ account'.role # "NONE"
    BY <1>1, <2>2, <2>3 DEF Grown, Earned, HasPassword
  <2> QED BY <1>2, <2>3, <2>4, <2>5, UnawareWrites
<1>9. CASE ReviewInstructorCredit(q)
  <2>1. client[q].step = "crediting" /\ Proceeds(q, "crediting", "idle") /\ OnlyAccount
    BY <1>9 DEF ReviewInstructorCredit, Proceeds
  <2>2. account.role # "NONE" /\ account.emailVerified /\ vouched
    BY <1>1, <2>1 DEF Informed
  <2>3. /\ account' \in User /\ account'.role = account.role /\ account'.password = q
        /\ account'.emailVerified = account.emailVerified
    BY <1>1, <1>9 DEF ReviewInstructorCredit, User
  <2>4. Grown(account, account') /\ Earned(account', vouched) /\ account'.role # "NONE"
    BY <1>1, <2>2, <2>3 DEF Grown, Earned, HasPassword
  <2> QED BY <1>2, <2>1, <2>3, <2>4, UnawareWrites
<1>10. CASE ReviewInstructorWrite(q)
  <2> DEFINE to == IF client[q].verdict = "APPROVED" THEN "crediting" ELSE "idle"
  <2>1. Proceeds(q, "reviewing", to) /\ client[q].step = "reviewing"
    BY <1>10, Zenon DEF ReviewInstructorWrite, Proceeds
  <2>2. vouched' = (vouched \/ client[q].verdict = "APPROVED") /\ UNCHANGED <<keys, codes>>
    BY <1>10, Zenon DEF ReviewInstructorWrite
  <2>3. account.role # "NONE" /\ account.emailVerified
    BY <1>1, <2>1 DEF Informed
  <2>4. /\ account' \in User /\ account'.role = account.role
        /\ account'.password = account.password
        /\ account'.emailVerified = account.emailVerified
    BY <1>1, <1>10 DEF ReviewInstructorWrite, User
  <2>5. /\ vouched' \in BOOLEAN /\ (vouched => vouched')
        /\ (to = "crediting" => vouched') /\ to \in {"crediting", "idle"}
    BY <2>2, Zenon
  <2>6. to \in ClientStep
    BY <2>5 DEF ClientStep
  <2> HIDE DEF to
  <2>7. PICK next \in Call : client' = [client EXCEPT ![q] = next] /\ next.step = to
    BY <1>1, <2>1, <2>6, ProceedsTo
  <2>8. Grown(account, account') /\ Earned(account', vouched')
    BY <1>1, <2>4, <2>5 DEF Grown, Earned, HasPassword
  <2>9. Informed(next, account', vouched')
    BY <2>3, <2>4, <2>5, <2>7 DEF Informed
  <2> QED BY <2>2, <2>3, <2>4, <2>5, <2>7, <2>8, <2>9, RowKeeps
<1> QED BY <1>3, <1>4, <1>5, <1>6, <1>7, <1>8, <1>9, <1>10

LEMMA AccountsNextInv == AccountsInv /\ [AccountsNext]_accountsVars => AccountsInv'
<1> SUFFICES ASSUME AccountsInv, [AccountsNext]_accountsVars PROVE AccountsInv'
  OBVIOUS
<1>1. CASE UNCHANGED accountsVars
  BY <1>1 DEF accountsVars, AccountsInv, AccountsTypeOK, AccountSound, ClientsInformed
<1>2. CASE AccountsNext
  BY <1>2, ReadersKeep, RedisRequestsKeep, RowRequestsKeep, ExpiryKeeps DEF AccountsNext
<1> QED BY <1>1, <1>2

LEMMA AccountsInvariant == AccountsSpec => []AccountsInv
BY AccountsInitInv, AccountsNextInv, PTL DEF AccountsSpec

\* An account has a password only if its e-mail was verified and, for an
\* instructor, some review approved him: for any number of registrations,
\* applications, reviews, logins and resets of one address at a time, each read
\* and each write a step of its own, and wherever one of them dies.
THEOREM PasswordsStayEarned == AccountsSpec => []PasswordsAreEarned
<1>1. AccountsInv => PasswordsAreEarned
  BY DEF AccountsInv, AccountSound, Earned, HasPassword, PasswordsAreEarned
<1> QED BY <1>1, AccountsInvariant, PTL

-----------------------------------------------------------------------------
(***************************************************************************)
(* The installment policies (FeePlans).                                    *)
(***************************************************************************)

RowValid(row) == ValidTerms(row.count, row.percents)

\* The rows of a semester are one at most.
OwnOnce(rows) ==
  \A i, j \in DOMAIN rows :
    rows[i].semesterId \in Terms /\ rows[i].semesterId = rows[j].semesterId => i = j

\* What a request is about to write is a plan, with what it leaves as it is.
Filed(paper, rows) ==
  /\ paper.step \in {"checking", "inserting"} => RowValid(paper.row)
  /\ paper.step = "updating" =>
       /\ paper.id \in DOMAIN rows
       /\ ValidTerms(paper.row.count, Merged(paper.percents, rows[paper.id].percents))

PlansInv ==
  /\ FeePlansTypeOK
  /\ OwnOnce(policies)
  /\ OneOffice => /\ \A i \in DOMAIN policies : RowValid(policies[i])
                  /\ \A o \in Office : Filed(office[o], policies)

-----------------------------------------------------------------------------
\* Rows are numbered from 1.
LEMMA RowsType ==
  ASSUME NEW rows
  PROVE  /\ rows \in Seq(Policy) =>
              /\ Len(rows) \in Nat /\ DOMAIN rows = 1..Len(rows)
              /\ \A i \in DOMAIN rows : rows[i] \in Policy
              /\ rows \in [1..Len(rows) -> Policy]
         /\ \A n \in Nat : rows \in [1..n -> Policy] => rows \in Seq(Policy)
OBVIOUS

LEMMA SinglePaymentType == SinglePayment \in Policy /\ RowValid(SinglePayment)
BY DEF SinglePayment, Policy, RowValid, ValidTerms

LEMMA NoPaperType == NoPaper \in Paper /\ NoPaper.step = "idle"
BY SinglePaymentType DEF NoPaper, Paper, OfficeStep

LEMMA PlansInitInv == FeePlansInit => PlansInv
<1> SUFFICES ASSUME FeePlansInit PROVE PlansInv
  OBVIOUS
<1>1. FeePlansTypeOK
  BY NoPaperType DEF FeePlansInit, FeePlansTypeOK
<1>2. policies = <<>> /\ \A o \in Office : office[o] = NoPaper
  BY DEF FeePlansInit
<1> QED BY <1>1, <1>2, NoPaperType DEF PlansInv, OwnOnce, Filed

\* The default policies are switched off, and nothing else about a row.
LEMMA PlansCreatePolicy ==
  ASSUME PlansInv, NEW o \in Office, NEW t \in Terms \cup {NoTerm}, NEW count \in Counts,
         NEW percents \in Counts \cup {0}, CreatePolicy(o, t, count, percents)
  PROVE  PlansInv'
<1> DEFINE row == [semesterId |-> t, isDefault |-> t = NoTerm, isActive |-> TRUE,
                   count |-> count, percents |-> percents]
           paper == [NoPaper EXCEPT !.step = "checking", !.row = row]
<1>1. /\ row \in Policy /\ row.count = count /\ row.percents = percents
  BY FeePlansAssumption DEF Policy
<1>2. office' = [office EXCEPT ![o] = paper] /\ ValidTerms(count, percents)
  BY Zenon DEF CreatePolicy
<1>3. paper \in Paper /\ paper.step = "checking" /\ paper.row = row
  <2> HIDE DEF row
  <2> QED BY <1>1, NoPaperType DEF Paper, OfficeStep
<1>4. /\ policies \in Seq(Policy) /\ office \in [Office -> Paper]
  BY DEF PlansInv, FeePlansTypeOK
<1>5. /\ DOMAIN policies' = DOMAIN policies /\ policies' \in Seq(Policy)
      /\ \A i \in DOMAIN policies :
           /\ policies'[i].semesterId = policies[i].semesterId
           /\ policies'[i].count = policies[i].count
           /\ policies'[i].percents = policies[i].percents
  <2> DEFINE off(i) == [policies[i] EXCEPT !.isActive = FALSE]
  <2>1. ASSUME NEW i \in DOMAIN policies
        PROVE  /\ off(i) \in Policy /\ policies[i] \in Policy
               /\ off(i).semesterId = policies[i].semesterId
               /\ off(i).count = policies[i].count /\ off(i).percents = policies[i].percents
    <3>1. policies[i] \in Policy
      BY <1>4, RowsType
    <3> QED BY <3>1 DEF Policy
  <2>2. policies' = [i \in DOMAIN policies |->
                       IF t = NoTerm /\ i \in ActiveDefaults THEN off(i) ELSE policies[i]]
    BY DEF CreatePolicy
  <2> HIDE DEF off
  <2>3. \A i \in DOMAIN policies : policies'[i] \in {off(i), policies[i]}
    BY <2>2
  <2>4. DOMAIN policies' = 1..Len(policies) /\ Len(policies) \in Nat
    BY <2>2, <1>4, RowsType
  <2>5. policies' \in [1..Len(policies) -> Policy]
    BY <2>1, <2>2, <2>4, <1>4, RowsType
  <2> QED BY <2>1, <2>2, <2>3, <2>4, <2>5, RowsType
<1>6. FeePlansTypeOK'
  BY <1>2, <1>3, <1>4, <1>5 DEF FeePlansTypeOK
<1>7. OwnOnce(policies')
  BY <1>5 DEF PlansInv, OwnOnce
<1> HIDE DEF row, paper
<1>8. ASSUME OneOffice
      PROVE  /\ \A i \in DOMAIN policies' : RowValid(policies'[i])
             /\ \A p \in Office : Filed(office'[p], policies')
  <2>1. \A i \in DOMAIN policies' : RowValid(policies'[i])
    BY <1>5, <1>8 DEF PlansInv, RowValid
  <2>2. \A p \in Office : office'[p] = paper
    BY <1>2, <1>4, <1>8 DEF OneOffice
  <2>3. Filed(paper, policies')
    BY <1>1, <1>2, <1>3 DEF Filed, RowValid
  <2> QED BY <2>1, <2>2, <2>3
<1> QED BY <1>6, <1>7, <1>8 DEF PlansInv, OneOffice

\* With one office, the paper written last is the only one.
LEMMA OnlyPaper ==
  ASSUME OneOffice, NEW o \in Office, NEW paper, office' = [office EXCEPT ![o] = paper],
         office \in [Office -> Paper]
  PROVE  \A p \in Office : office'[p] = paper
BY DEF OneOffice

LEMMA PlansPaperMoves ==
  ASSUME PlansInv, NEW o \in Office, NEW paper \in Paper, UNCHANGED policies,
         office' = [office EXCEPT ![o] = paper], OneOffice => Filed(paper, policies)
  PROVE  PlansInv'
<1>1. policies \in Seq(Policy) /\ office \in [Office -> Paper]
  BY DEF PlansInv, FeePlansTypeOK
<1>2. FeePlansTypeOK'
  BY <1>1 DEF FeePlansTypeOK
<1>3. OneOffice => \A p \in Office : Filed(office'[p], policies')
  BY <1>1, OnlyPaper
<1> QED BY <1>2, <1>3 DEF PlansInv, OneOffice

LEMMA PlansCreateCheckTerm ==
  ASSUME PlansInv, NEW o \in Office, CreateCheckTerm(o)
  PROVE  PlansInv'
<1>1. office[o] \in Paper /\ office[o].step = "checking" /\ UNCHANGED policies
  BY DEF CreateCheckTerm, PlansInv, FeePlansTypeOK
<1> DEFINE on == [office[o] EXCEPT !.step = "inserting"]
<1>2. on \in Paper /\ on.step = "inserting" /\ on.row = office[o].row
  BY <1>1 DEF Paper, OfficeStep
<1>3. office' = [office EXCEPT ![o] = NoPaper] \/ office' = [office EXCEPT ![o] = on]
  BY DEF CreateCheckTerm
<1>4. OneOffice => RowValid(office[o].row)
  BY <1>1 DEF PlansInv, Filed
<1>5. OneOffice => Filed(on, policies)
  <2> HIDE DEF on
  <2> QED BY <1>2, <1>4 DEF Filed
<1>6. Filed(NoPaper, policies)
  BY NoPaperType DEF Filed
<1> HIDE DEF on
<1> QED BY <1>1, <1>2, <1>3, <1>5, <1>6, NoPaperType, PlansPaperMoves

LEMMA PlansCreateInsert ==
  ASSUME PlansInv, NEW o \in Office, CreateInsert(o)
  PROVE  PlansInv'
<1> DEFINE row == office[o].row
<1>1. /\ policies \in Seq(Policy) /\ office \in [Office -> Paper]
      /\ office[o] \in Paper /\ row \in Policy
  BY DEF PlansInv, FeePlansTypeOK, Paper
<1>2. office[o].step = "inserting" /\ office' = [office EXCEPT ![o] = NoPaper]
  BY DEF CreateInsert
<1>3. CASE UNCHANGED policies
  BY <1>2, <1>3, NoPaperType, PlansPaperMoves DEF Filed
<1>4. CASE policies' = Append(policies, row) /\ ~(row.semesterId \in Terms /\ OfTerm(row.semesterId) # {})
  <2> HIDE DEF row
  <2> DEFINE n == Len(policies)
  <2>1. n \in Nat /\ DOMAIN policies = 1..n
    BY <1>1, RowsType
  <2>2. /\ policies' \in Seq(Policy) /\ DOMAIN policies' = 1..(n + 1)
        /\ policies'[n + 1] = row /\ \A i \in 1..n : policies'[i] = policies[i]
    BY <1>1, <1>4
  <2>3. FeePlansTypeOK'
    BY <1>1, <1>2, <2>2, NoPaperType DEF FeePlansTypeOK
  <2>4. row.semesterId \in Terms => \A i \in 1..n : policies[i].semesterId # row.semesterId
    BY <1>4, <2>1 DEF OfTerm
  <2>5. \A i \in 1..(n + 1) : i \in 1..n \/ i = n + 1
    BY <2>1
  <2> HIDE DEF n
  <2>6. OwnOnce(policies')
    <3>1. OwnOnce(policies)
      BY DEF PlansInv
    <3>2. SUFFICES ASSUME NEW i \in DOMAIN policies', NEW j \in DOMAIN policies',
                          policies'[i].semesterId \in Terms,
                          policies'[i].semesterId = policies'[j].semesterId
                   PROVE  i = j
      BY DEF OwnOnce
    <3>3. CASE i \in 1..n /\ j \in 1..n
      BY <3>1, <3>2, <3>3, <2>1, <2>2 DEF OwnOnce
    <3>4. CASE i = n + 1 /\ j \in 1..n
      BY <3>2, <3>4, <2>2, <2>4
    <3>5. CASE i \in 1..n /\ j = n + 1
      BY <3>2, <3>5, <2>2, <2>4
    <3> QED BY <3>3, <3>4, <3>5, <2>2, <2>5
  <2>7. ASSUME OneOffice
        PROVE  /\ \A i \in DOMAIN policies' : RowValid(policies'[i])
               /\ \A p \in Office : Filed(office'[p], policies')
    <3>1. RowValid(row) /\ \A i \in 1..n : RowValid(policies[i])
      BY <1>2, <2>1, <2>7 DEF PlansInv, Filed, row
    <3>2. \A p \in Office : office'[p] = NoPaper
      BY <1>1, <1>2, <2>7, OnlyPaper
    <3>3. \A i \in DOMAIN policies' : RowValid(policies'[i])
      BY <3>1, <2>2, <2>5
    <3> QED BY <3>2, <3>3, NoPaperType DEF Filed
  <2> QED BY <2>3, <2>6, <2>7 DEF PlansInv, OneOffice
<1> QED BY <1>3, <1>4 DEF CreateInsert

\* What was sent is of the types the office may send.
LEMMA PlansUpdatePolicy ==
  ASSUME PlansInv, NEW o \in Office, NEW i \in 1..MaxPolicies, NEW count \in Counts \cup {Kept},
         NEW percents \in Counts \cup {Kept}, NEW isActive \in BOOLEAN \cup {Kept},
         UpdatePolicy(o, i, count, percents, isActive)
  PROVE  PlansInv'
<1> DEFINE sent == IF count = Kept THEN 1 ELSE count
           plan == [SinglePayment EXCEPT !.count = sent]
           paper == [step |-> "updating", id |-> i, percents |-> percents,
                     isActive |-> isActive, row |-> plan]
<1>1. /\ i \in DOMAIN policies /\ UNCHANGED policies /\ office' = [office EXCEPT ![o] = paper]
      /\ ValidTerms(sent, Merged(percents, policies[i].percents))
  BY Zenon DEF UpdatePolicy
<1>2. sent \in Nat
  BY FeePlansAssumption
<1> HIDE DEF sent
<1>3. plan \in Policy /\ plan.count = sent
  BY <1>2 DEF SinglePayment, Policy
<1> HIDE DEF plan
<1>4. i \in Nat /\ percents \in Nat \cup {Kept}
  BY FeePlansAssumption
<1>5. /\ paper \in Paper /\ paper.step = "updating" /\ paper.id = i
      /\ paper.percents = percents /\ paper.row = plan
  BY <1>3, <1>4 DEF Paper, OfficeStep
<1> HIDE DEF paper
<1>6. Filed(paper, policies)
  BY <1>1, <1>3, <1>5 DEF Filed
<1> QED BY <1>1, <1>5, <1>6, PlansPaperMoves

LEMMA PlansUpdateWrite ==
  ASSUME PlansInv, NEW o \in Office, UpdateWrite(o)
  PROVE  PlansInv'
<1> DEFINE paper == office[o]
           i == paper.id
           new == [policies[i] EXCEPT
                     !.count = paper.row.count,
                     !.percents = IF paper.percents = Kept THEN @ ELSE paper.percents,
                     !.isActive = IF paper.isActive = Kept THEN @ ELSE paper.isActive]
<1>1. /\ policies \in Seq(Policy) /\ office \in [Office -> Paper] /\ paper \in Paper
      /\ paper.row.count \in Nat
  BY DEF PlansInv, FeePlansTypeOK, Paper, Policy
<1>2. paper.step = "updating" /\ office' = [office EXCEPT ![o] = NoPaper]
  BY DEF UpdateWrite
<1>3. i \in DOMAIN policies => /\ new \in Policy /\ policies[i] \in Policy
                                /\ new.semesterId = policies[i].semesterId
                                /\ new.count = paper.row.count
                                /\ new.percents = Merged(paper.percents, policies[i].percents)
  <2>1. i \in DOMAIN policies => policies[i] \in Policy
    BY <1>1, RowsType
  <2>2. paper.percents \in Nat \cup {Kept} /\ paper.isActive \in BOOLEAN \cup {Kept}
    BY <1>1 DEF Paper
  <2> HIDE DEF paper, i
  <2> QED BY <1>1, <2>1, <2>2 DEF Policy, Merged
<1>4. policies' = [policies EXCEPT ![i] = new]
  BY DEF UpdateWrite
<1> HIDE DEF new
<1>5. /\ policies' \in Seq(Policy) /\ DOMAIN policies' = DOMAIN policies
      /\ \A j \in DOMAIN policies : policies'[j] = IF j = i THEN new ELSE policies[j]
  <2>1. policies \in [1..Len(policies) -> Policy] /\ Len(policies) \in Nat
    BY <1>1, RowsType
  <2>2. policies' \in [1..Len(policies) -> Policy]
    BY <1>3, <1>4, <2>1
  <2> HIDE DEF i
  <2> QED BY <1>4, <2>1, <2>2, RowsType
<1>6. FeePlansTypeOK'
  BY <1>1, <1>2, <1>5, NoPaperType DEF FeePlansTypeOK
<1>7. OwnOnce(policies')
  <2>1. \A j \in DOMAIN policies : policies'[j].semesterId = policies[j].semesterId
    BY <1>3, <1>5
  <2> QED BY <1>5, <2>1 DEF PlansInv, OwnOnce
<1>8. ASSUME OneOffice
      PROVE  /\ \A j \in DOMAIN policies' : RowValid(policies'[j])
             /\ \A p \in Office : Filed(office'[p], policies')
  <2>1. Filed(paper, policies) /\ \A j \in DOMAIN policies : RowValid(policies[j])
    BY <1>8 DEF PlansInv
  <2>2. RowValid(new)
    BY <1>2, <1>3, <2>1 DEF Filed, RowValid
  <2>3. \A p \in Office : office'[p] = NoPaper
    BY <1>1, <1>2, <1>8, OnlyPaper
  <2> QED BY <1>5, <2>1, <2>2, <2>3, NoPaperType DEF Filed
<1> QED BY <1>6, <1>7, <1>8 DEF PlansInv, OneOffice

LEMMA PlansNextInv == PlansInv /\ [FeePlansNext]_feePlansVars => PlansInv'
<1> SUFFICES ASSUME PlansInv, [FeePlansNext]_feePlansVars PROVE PlansInv'
  OBVIOUS
<1>1. CASE UNCHANGED feePlansVars
  BY <1>1 DEF feePlansVars, PlansInv, FeePlansTypeOK, OneOffice
<1>2. ASSUME NEW o \in Office, OfficeDies(o) PROVE PlansInv'
  BY <1>2, NoPaperType, PlansPaperMoves DEF OfficeDies, Filed
<1> QED
  BY <1>1, <1>2, PlansCreatePolicy, PlansCreateCheckTerm, PlansCreateInsert,
     PlansUpdatePolicy, PlansUpdateWrite DEF FeePlansNext

LEMMA PlansInvariant == FeePlansSpec => []PlansInv
BY PlansInitInv, PlansNextInv, PTL DEF FeePlansSpec

\* With one administrator at work, a semester has one installment policy of its
\* own at most, and the plan its invoices are split by is one buildInstallments
\* accepts: for any number of semesters, policies and installments, whichever
\* fields updates leave out and wherever a request dies.
THEOREM PlansAreValid == FeePlansSpec => []PlansStayValid
<1>1. ASSUME PlansInv PROVE PlansStayValid
  <2>1. SUFFICES ASSUME OneOffice, NEW t \in Terms
                 PROVE  /\ RowValid(resolvePlanSnapshot(t))
                        /\ \A i, j \in OfTerm(t) : i = j
    BY DEF PlansStayValid, RowValid
  <2>2. \A i \in DOMAIN policies : RowValid(policies[i])
    BY <1>1, <2>1 DEF PlansInv
  <2>3. \A i, j \in OfTerm(t) : i = j
    BY <1>1 DEF PlansInv, OwnOnce, OfTerm
  <2>4. ActiveDefaults # {} => Max(ActiveDefaults) \in ActiveDefaults
    <3>1. Len(policies) \in Nat /\ DOMAIN policies = 1..Len(policies)
      BY <1>1, RowsType DEF PlansInv, FeePlansTypeOK
    <3>2. ActiveDefaults \subseteq 1..Len(policies) /\ IsFiniteSet(1..Len(policies))
      BY <3>1, FS_Interval DEF ActiveDefaults
    <3>3. IsFiniteSet(ActiveDefaults)
      BY <3>2, FS_Subset
    <3>4. ActiveDefaults \in SUBSET Nat
      BY <3>1, <3>2
    <3>5. ActiveDefaults # {} => \E x \in ActiveDefaults : \A y \in ActiveDefaults : x >= y
      BY <3>3, <3>4, GreatestExists
    <3> QED BY <3>5 DEF Max
  <2>5. ActiveDefaults \subseteq DOMAIN policies
    BY DEF ActiveDefaults
  <2> DEFINE own == {i \in OfTerm(t) : policies[i].isActive}
  <2>6. own # {} => (CHOOSE i \in own : TRUE) \in DOMAIN policies
    <3>1. own \subseteq DOMAIN policies
      BY DEF OfTerm
    <3>2. own # {} => (CHOOSE i \in own : TRUE) \in own
      <4> HIDE DEF own
      <4> QED OBVIOUS
    <3> HIDE DEF own
    <3> QED BY <3>1, <3>2
  <2>7. resolvePlanSnapshot(t) =
          IF own # {} THEN policies[CHOOSE i \in own : TRUE]
          ELSE IF ActiveDefaults # {} THEN policies[Max(ActiveDefaults)]
          ELSE SinglePayment
    BY DEF resolvePlanSnapshot
  <2> HIDE DEF own
  <2> QED BY <2>2, <2>3, <2>4, <2>5, <2>6, <2>7, SinglePaymentType
<1> QED BY <1>1, PlansInvariant, PTL

-----------------------------------------------------------------------------
(***************************************************************************)
(* Sections and their classes (Teaching).                                  *)
(***************************************************************************)

\* A request that is idle holds AnyEntry, which is an entry if there are any.
TeachingTypes ==
  /\ lead \in [Offered -> Instructors \cup {NoInstructor}]
  /\ co \in [Offered -> SUBSET Instructors]
  /\ classes \subseteq Entry
  /\ planner \in [Planners -> [step : PlannerStep, entry : Entry \cup {AnyEntry},
                               teachers : SUBSET Instructors, sections : SUBSET Offered]]
  /\ editor \in [Editors -> [step : {"idle", "writing"},
                             section : Offered \cup {AnyEntry.section},
                             lead : Instructors \cup {NoInstructor},
                             co : SUBSET Instructors, sent : BOOLEAN]]
  /\ disturbed \in BOOLEAN

\* The instructors of a section, for the lead and co-instructors there are.
Taught(l, c, s) == IF l[s] # NoInstructor THEN {l[s]} \cup c[s] ELSE {}

EntryOffered(entry, l) == entry \in Entry /\ l[entry.section] # NoInstructor

\* Classes, and those being planned, are of sections there are.
OfferedOnly ==
  /\ \A x \in classes : EntryOffered(x, lead)
  /\ \A p \in Planners : planner[p].step # "idle" => EntryOffered(planner[p].entry, lead)

\* Two classes that need one instructor at the same time.
Clash(x, y, l, c) ==
  Taught(l, c, x.section) \cap Taught(l, c, y.section) # {} /\ Overlap(x, y)

\* What a request has read of teachers, their sections and their classes is true.
Prepared(r, l, c, entries) ==
  /\ r.step \in {"sections", "routines", "creating"} =>
       r.teachers = Taught(l, c, r.entry.section)
  /\ r.step \in {"routines", "creating"} =>
       \A x \in entries : Taught(l, c, x.section) \cap r.teachers # {}
                            => x.section \in r.sections
  /\ r.step = "creating" =>
       \A x \in entries : x.section \in r.sections => ~Overlap(x, r.entry)

Undisturbed ==
  /\ \A p, q \in Planners : planner[p].step # "idle" /\ planner[q].step # "idle" => p = q
  /\ \A p \in Planners : Prepared(planner[p], lead, co, classes)
  /\ \A x, y \in classes : x # y => ~Clash(x, y, lead, co)

\* The lead that the co-instructors of an update were sent for is out of them.
EditSound(edit, l) ==
  edit.step = "writing" =>
    /\ edit.section \in Offered /\ l[edit.section] # NoInstructor
    /\ edit.sent => (IF edit.lead = NoInstructor THEN l[edit.section] ELSE edit.lead)
                      \notin edit.co

LeadApart ==
  OneEditor => /\ \A s \in Offered : lead[s] \notin co[s]
               /\ \A e \in Editors : EditSound(editor[e], lead)

TeachingInv ==
  /\ TeachingTypes /\ OfferedOnly
  /\ ~disturbed => Undisturbed
  /\ LeadApart

-----------------------------------------------------------------------------
LEMMA NotPlanningType ==
  /\ NotPlanning \in [step : PlannerStep, entry : Entry \cup {AnyEntry},
                      teachers : SUBSET Instructors, sections : SUBSET Offered]
  /\ NotPlanning.step = "idle"
BY DEF NotPlanning, PlannerStep

LEMMA NotEditingType ==
  /\ NotEditing \in [step : {"idle", "writing"}, section : Offered \cup {AnyEntry.section},
                     lead : Instructors \cup {NoInstructor}, co : SUBSET Instructors,
                     sent : BOOLEAN]
  /\ NotEditing.step = "idle"
BY DEF NotEditing

LEMMA TeachingInitInv == TeachingInit => TeachingInv
<1> SUFFICES ASSUME TeachingInit PROVE TeachingInv
  OBVIOUS
<1>1. TeachingTypes
  BY NotPlanningType, NotEditingType DEF TeachingInit, TeachingTypes
<1>2. OfferedOnly
  BY NotPlanningType DEF TeachingInit, OfferedOnly
<1>3. Undisturbed
  BY NotPlanningType DEF TeachingInit, Undisturbed, Prepared
<1>4. LeadApart
  BY NotEditingType DEF TeachingInit, LeadApart, EditSound
<1> QED BY <1>1, <1>2, <1>3, <1>4 DEF TeachingInv

LEMMA TaughtIs == \A s : getSectionInstructorIds(s) = Taught(lead, co, s)
BY DEF getSectionInstructorIds, IsOffered, Taught

\* Two classes clash whichever comes first.
LEMMA ClashEither ==
  ASSUME NEW x, NEW y, NEW l, NEW c
  PROVE  Clash(x, y, l, c) <=> Clash(y, x, l, c)
BY DEF Clash, Overlap

-----------------------------------------------------------------------------
\* Another section: it has no classes yet, and the others keep their teachers.
LEMMA TeachingOffer ==
  ASSUME TeachingInv, NEW s \in Offered, NEW i \in Instructors, NEW ids \in SUBSET Instructors,
         OfferSection(s, i, ids)
  PROVE  TeachingInv'
<1>1. TeachingTypes /\ i # NoInstructor
  BY TeachingAssumption DEF TeachingInv
<1>2. UNCHANGED <<classes, planner, editor, disturbed>> /\ lead[s] = NoInstructor
  BY DEF OfferSection, IsOffered
<1>3. /\ lead' = [lead EXCEPT ![s] = i] /\ co' = [co EXCEPT ![s] = ids \ {i}]
  BY DEF OfferSection, resolveCoInstructors
<1>4. TeachingTypes'
  BY <1>1, <1>2, <1>3 DEF TeachingTypes
<1>5. ASSUME NEW t \in Offered, lead[t] # NoInstructor
      PROVE  lead'[t] = lead[t] /\ Taught(lead', co', t) = Taught(lead, co, t)
  <2>1. t # s
    BY <1>2, <1>5
  <2>2. lead'[t] = lead[t] /\ co'[t] = co[t]
    BY <1>1, <1>3, <2>1 DEF TeachingTypes
  <2> QED BY <2>2 DEF Taught
<1>6. ASSUME NEW e, EntryOffered(e, lead)
      PROVE  EntryOffered(e, lead') /\ Taught(lead', co', e.section) = Taught(lead, co, e.section)
  BY <1>5, <1>6 DEF EntryOffered, Entry
<1>7. OfferedOnly'
  BY <1>2, <1>6 DEF TeachingInv, OfferedOnly
<1>8. ASSUME ~disturbed' PROVE Undisturbed'
  <2>1. Undisturbed /\ OfferedOnly
    BY <1>2, <1>8 DEF TeachingInv
  <2>2. ASSUME NEW p \in Planners PROVE Prepared(planner[p], lead', co', classes)
    <3>1. Prepared(planner[p], lead, co, classes)
      BY <2>1 DEF Undisturbed
    <3>2. planner[p].step # "idle" =>
            Taught(lead', co', planner[p].entry.section)
              = Taught(lead, co, planner[p].entry.section)
      <4>1. planner[p].step # "idle" => EntryOffered(planner[p].entry, lead)
        BY <2>1 DEF OfferedOnly
      <4> QED BY <4>1, <1>6
    <3>3. \A x \in classes : Taught(lead', co', x.section) = Taught(lead, co, x.section)
      BY <2>1, <1>6 DEF OfferedOnly
    <3> QED BY <3>1, <3>2, <3>3 DEF Prepared
  <2>3. \A x, y \in classes : x # y => ~Clash(x, y, lead', co')
    BY <1>6, <2>1 DEF Undisturbed, Clash, OfferedOnly
  <2> QED BY <1>2, <2>1, <2>2, <2>3 DEF Undisturbed
<1>9. LeadApart'
  <2>1. SUFFICES ASSUME OneEditor
                 PROVE  /\ \A t \in Offered : lead'[t] \notin co'[t]
                        /\ \A e \in Editors : EditSound(editor'[e], lead')
    BY DEF LeadApart, OneEditor
  <2>2. /\ \A t \in Offered : lead[t] \notin co[t]
        /\ \A e \in Editors : EditSound(editor[e], lead)
    BY <2>1 DEF TeachingInv, LeadApart
  <2>3. ASSUME NEW t \in Offered PROVE lead'[t] \notin co'[t]
    BY <1>1, <1>3, <2>2 DEF TeachingTypes
  <2>4. ASSUME NEW e \in Editors PROVE EditSound(editor[e], lead')
    <3>1. EditSound(editor[e], lead)
      BY <2>2
    <3> QED BY <1>5, <3>1 DEF EditSound
  <2> QED BY <1>2, <2>3, <2>4
<1> QED BY <1>4, <1>7, <1>8, <1>9 DEF TeachingInv

-----------------------------------------------------------------------------
\* An update of a section was read.
LEMMA TeachingEditRead ==
  ASSUME TeachingInv, NEW e \in Editors, NEW s \in Offered,
         NEW i \in Instructors \cup {NoInstructor}, NEW ids \in SUBSET Instructors,
         NEW sent \in BOOLEAN, EditRead(e, s, i, ids, sent)
  PROVE  TeachingInv'
<1> DEFINE leadId == IF i = NoInstructor THEN lead[s] ELSE i
           edit == [step |-> "writing", section |-> s, lead |-> i, sent |-> sent,
                    co |-> IF sent THEN ids \ {leadId} ELSE {}]
<1>1. /\ lead[s] # NoInstructor /\ UNCHANGED <<lead, co, classes, planner, disturbed>>
      /\ editor' = [editor EXCEPT ![e] = edit]
  BY DEF EditRead, resolveCoInstructors, IsOffered
<1>2. /\ edit \in [step : {"idle", "writing"}, section : Offered \cup {AnyEntry.section},
                   lead : Instructors \cup {NoInstructor}, co : SUBSET Instructors,
                   sent : BOOLEAN]
      /\ edit.section = s /\ edit.lead = i
      /\ edit.sent => edit.co = ids \ {leadId}
  OBVIOUS
<1> HIDE DEF edit
<1>3. TeachingTypes'
  BY <1>1, <1>2 DEF TeachingInv, TeachingTypes
<1>4. OfferedOnly'
  BY <1>1 DEF TeachingInv, OfferedOnly
<1>5. ~disturbed' => Undisturbed'
  BY <1>1 DEF TeachingInv, Undisturbed
<1>6. LeadApart'
  <2>1. EditSound(edit, lead)
    BY <1>1, <1>2 DEF EditSound
  <2>2. editor \in [Editors -> [step : {"idle", "writing"},
                             section : Offered \cup {AnyEntry.section},
                             lead : Instructors \cup {NoInstructor},
                             co : SUBSET Instructors, sent : BOOLEAN]]
    BY DEF TeachingInv, TeachingTypes
  <2>3. OneEditor => \A f \in Editors : editor'[f] = edit
    BY <1>1, <2>2 DEF OneEditor
  <2>4. OneEditor => \A f \in Editors : EditSound(editor'[f], lead')
    BY <1>1, <2>1, <2>3
  <2>5. OneEditor => \A t \in Offered : lead'[t] \notin co'[t]
    BY <1>1 DEF TeachingInv, LeadApart
  <2> QED BY <2>4, <2>5 DEF LeadApart, OneEditor
<1> QED BY <1>3, <1>4, <1>5, <1>6 DEF TeachingInv

\* An update of a section is written.
LEMMA TeachingEditWrite ==
  ASSUME TeachingInv, NEW e \in Editors, EditWrite(e)
  PROVE  TeachingInv'
<1> DEFINE edit == editor[e]
           s == edit.section
           newLead == IF edit.lead = NoInstructor THEN lead[s] ELSE edit.lead
<1>1. /\ UNCHANGED <<classes, planner>> /\ disturbed' = TRUE /\ edit.step = "writing"
      /\ co' = [co EXCEPT ![s] = NewCo(edit)]
      /\ lead' = [lead EXCEPT ![s] = newLead]
      /\ editor' = [editor EXCEPT ![e] = NotEditing]
  BY DEF EditWrite
<1>2. /\ edit.lead \in Instructors \cup {NoInstructor} /\ edit.co \in SUBSET Instructors
      /\ TeachingTypes
  BY DEF TeachingInv, TeachingTypes
<1>3. s \in Offered => lead[s] \in Instructors \cup {NoInstructor} /\ co[s] \in SUBSET Instructors
  BY <1>2 DEF TeachingTypes
<1>4. s \in Offered => newLead \in Instructors \cup {NoInstructor} /\ NewCo(edit) \in SUBSET Instructors
  BY <1>2, <1>3 DEF NewCo
<1>5. TeachingTypes'
  <2>1. lead' \in [Offered -> Instructors \cup {NoInstructor}]
    BY <1>1, <1>2, <1>4 DEF TeachingTypes
  <2>2. co' \in [Offered -> SUBSET Instructors]
    BY <1>1, <1>2, <1>4 DEF TeachingTypes
  <2> QED BY <1>1, <1>2, <2>1, <2>2, NotEditingType DEF TeachingTypes
<1>6. ASSUME NEW t \in Offered, lead[t] # NoInstructor PROVE lead'[t] # NoInstructor
  <2>1. t = s => newLead # NoInstructor
    BY <1>6
  <2> QED BY <1>1, <1>2, <1>6, <2>1 DEF TeachingTypes
<1>7. OfferedOnly'
  <2>1. \A x : EntryOffered(x, lead) => EntryOffered(x, lead')
    BY <1>6 DEF EntryOffered, Entry
  <2> QED BY <1>1, <2>1 DEF TeachingInv, OfferedOnly
<1>8. LeadApart'
  <2>1. SUFFICES ASSUME OneEditor
                 PROVE  /\ \A t \in Offered : lead'[t] \notin co'[t]
                        /\ \A f \in Editors : EditSound(editor'[f], lead')
    BY DEF LeadApart, OneEditor
  <2>2. EditSound(edit, lead) /\ \A t \in Offered : lead[t] \notin co[t]
    BY <2>1 DEF TeachingInv, LeadApart
  <2>3. s \in Offered /\ (edit.sent => newLead \notin edit.co)
    BY <1>1, <2>2 DEF EditSound
  <2>4. newLead \notin NewCo(edit)
    BY <2>2, <2>3 DEF NewCo
  <2>5. ASSUME NEW t \in Offered PROVE lead'[t] \notin co'[t]
    BY <1>1, <1>2, <2>2, <2>4 DEF TeachingTypes
  <2>6. \A f \in Editors : editor'[f] = NotEditing
    BY <1>1, <1>2, <2>1 DEF OneEditor, TeachingTypes
  <2> QED BY <2>5, <2>6, NotEditingType DEF EditSound
<1> QED BY <1>1, <1>5, <1>7, <1>8 DEF TeachingInv

-----------------------------------------------------------------------------
\* A request for an entry that goes on, with what it read.
LEMMA PlanKeeps ==
  ASSUME TeachingInv, NEW p \in Planners,
         NEW r \in [step : PlannerStep, entry : Entry \cup {AnyEntry},
                    teachers : SUBSET Instructors, sections : SUBSET Offered],
         planner' = [planner EXCEPT ![p] = r], UNCHANGED <<lead, co, classes, editor>>,
         disturbed' \in BOOLEAN, ~disturbed' => ~disturbed,
         r.step # "idle" => EntryOffered(r.entry, lead),
         ~disturbed' => Prepared(r, lead, co, classes),
         ~disturbed' /\ r.step # "idle" =>
            \A q \in Planners : planner[q].step # "idle" => p = q
  PROVE  TeachingInv'
<1>1. TeachingTypes'
  BY DEF TeachingInv, TeachingTypes
<1>2. \A q \in Planners : planner'[q] = IF q = p THEN r ELSE planner[q]
  BY DEF TeachingInv, TeachingTypes
<1>3. OfferedOnly'
  BY <1>2 DEF TeachingInv, OfferedOnly
<1>4. ASSUME ~disturbed' PROVE Undisturbed'
  <2>1. Undisturbed
    BY <1>4 DEF TeachingInv
  <2>2. \A q, o \in Planners : planner'[q].step # "idle" /\ planner'[o].step # "idle" => q = o
    BY <1>2, <1>4, <2>1 DEF Undisturbed
  <2>3. \A q \in Planners : Prepared(planner'[q], lead, co, classes)
    BY <1>2, <1>4, <2>1 DEF Undisturbed
  <2> QED BY <2>1, <2>2, <2>3 DEF Undisturbed
<1>5. LeadApart'
  BY DEF TeachingInv, LeadApart, OneEditor
<1> QED BY <1>1, <1>3, <1>4, <1>5 DEF TeachingInv

LEMMA TeachingPlanRead ==
  ASSUME TeachingInv, NEW p \in Planners, NEW i \in Instructors, NEW entry \in Entry,
         PlanRead(p, i, entry)
  PROVE  TeachingInv'
<1> DEFINE r == [NotPlanning EXCEPT !.step = "teachers", !.entry = entry]
<1>1. /\ r \in [step : PlannerStep, entry : Entry \cup {AnyEntry},
                teachers : SUBSET Instructors, sections : SUBSET Offered]
      /\ r.step = "teachers" /\ r.entry = entry
  BY NotPlanningType DEF NotPlanning, PlannerStep
<1>2. /\ planner' = [planner EXCEPT ![p] = r] /\ UNCHANGED <<lead, co, classes, editor>>
      /\ disturbed' = (disturbed \/ \E q \in Planners : planner[q].step # "idle")
      /\ canTeachSection(entry.section, i)
  BY Zenon DEF PlanRead, PlanMove
<1> HIDE DEF r
<1>3. EntryOffered(r.entry, lead)
  BY <1>1, <1>2 DEF EntryOffered, canTeachSection, getSectionInstructorIds, IsOffered
<1>4. disturbed \in BOOLEAN
  BY DEF TeachingInv, TeachingTypes
<1>5. disturbed' \in BOOLEAN /\ (~disturbed' => ~disturbed)
  BY <1>2, <1>4, Zenon
<1>6. ~disturbed' => \A q \in Planners : planner[q].step = "idle"
  BY <1>2, Zenon
<1>7. Prepared(r, lead, co, classes)
  BY <1>1 DEF Prepared
<1> QED BY <1>1, <1>2, <1>3, <1>5, <1>6, <1>7, PlanKeeps

\* A request that is alone when nothing was disturbed stays alone.
LEMMA PlanGoesOn ==
  ASSUME TeachingInv, NEW p \in Planners, planner[p].step # "idle",
         NEW r \in [step : PlannerStep, entry : Entry \cup {AnyEntry},
                    teachers : SUBSET Instructors, sections : SUBSET Offered],
         planner' = [planner EXCEPT ![p] = r], UNCHANGED <<lead, co, classes, editor, disturbed>>,
         r.step # "idle" => r.entry = planner[p].entry,
         Undisturbed => Prepared(r, lead, co, classes)
  PROVE  TeachingInv'
<1>1. EntryOffered(planner[p].entry, lead) /\ disturbed' \in BOOLEAN
  BY DEF TeachingInv, OfferedOnly, TeachingTypes
<1>2. ~disturbed => Undisturbed
  BY DEF TeachingInv
<1>3. ~disturbed => \A q \in Planners : planner[q].step # "idle" => p = q
  BY <1>2 DEF Undisturbed
<1> QED BY <1>1, <1>2, <1>3, PlanKeeps

LEMMA TeachingPlanMoves ==
  ASSUME TeachingInv, NEW p \in Planners,
         PlanTeachers(p) \/ PlanSections(p) \/ PlanRoutines(p) \/ PlannerDies(p)
  PROVE  TeachingInv'
<1> DEFINE r == planner[p]
           Requests == [step : PlannerStep, entry : Entry \cup {AnyEntry},
                        teachers : SUBSET Instructors, sections : SUBSET Offered]
<1>1. /\ r \in Requests /\ lead \in [Offered -> Instructors \cup {NoInstructor}]
      /\ co \in [Offered -> SUBSET Instructors]
      /\ Undisturbed => Prepared(r, lead, co, classes)
      /\ r.step # "idle" => EntryOffered(r.entry, lead)
  BY DEF TeachingInv, TeachingTypes, Undisturbed, OfferedOnly
<1>2. /\ planner' = [planner EXCEPT ![p] = NotPlanning]
      /\ UNCHANGED <<lead, co, classes, editor, disturbed>> /\ r.step # "idle"
      => TeachingInv'
  BY NotPlanningType, PlanGoesOn DEF Prepared
<1>3. CASE PlannerDies(p)
  BY <1>2, <1>3 DEF PlannerDies
<1>4. CASE PlanTeachers(p)
  <2> DEFINE next == [r EXCEPT !.step = "sections",
                               !.teachers = getSectionInstructorIds(r.entry.section)]
  <2>1. /\ r.step = "teachers" /\ planner' = [planner EXCEPT ![p] = next]
        /\ UNCHANGED <<lead, co, classes, editor, disturbed>>
    BY <1>4, Zenon DEF PlanTeachers, PlanMove
  <2>2. Taught(lead, co, r.entry.section) \in SUBSET Instructors
    BY <1>1, <2>1 DEF EntryOffered, Entry, Taught
  <2>3. /\ next \in Requests /\ next.step = "sections" /\ next.entry = r.entry
        /\ next.teachers = Taught(lead, co, r.entry.section)
    BY <1>1, <2>2, TaughtIs DEF PlannerStep
  <2> HIDE DEF next
  <2>4. Prepared(next, lead, co, classes)
    BY <2>3 DEF Prepared
  <2> QED BY <2>1, <2>3, <2>4, PlanGoesOn
<1>5. CASE PlanSections(p)
  <2> DEFINE next == [r EXCEPT !.step = "routines", !.sections = Teaches(r.teachers)]
  <2>1. /\ r.step = "sections" /\ planner' = [planner EXCEPT ![p] = next]
        /\ UNCHANGED <<lead, co, classes, editor, disturbed>>
    BY <1>5, Zenon DEF PlanSections, PlanMove
  <2>2. /\ Teaches(r.teachers) \in SUBSET Offered
        /\ \A s \in Offered : Taught(lead, co, s) \cap r.teachers # {} => s \in Teaches(r.teachers)
    BY TaughtIs DEF Teaches
  <2>3. /\ next \in Requests /\ next.step = "routines" /\ next.entry = r.entry
        /\ next.teachers = r.teachers /\ next.sections = Teaches(r.teachers)
    BY <1>1, <2>2 DEF PlannerStep
  <2> HIDE DEF next
  <2>4. \A x \in classes : x.section \in Offered
    BY DEF TeachingInv, TeachingTypes, Entry
  <2>5. Undisturbed => Prepared(next, lead, co, classes)
    BY <1>1, <2>1, <2>2, <2>3, <2>4 DEF Prepared
  <2> QED BY <2>1, <2>3, <2>5, PlanGoesOn
<1>6. CASE PlanRoutines(p)
  <2> DEFINE next == [r EXCEPT !.step = "creating"]
             conflict == \E c \in classes : c.section \in r.sections /\ Overlap(c, r.entry)
  <2>1. /\ r.step = "routines" /\ UNCHANGED <<lead, co, classes, editor, disturbed>>
        /\ planner' = [planner EXCEPT ![p] = IF conflict THEN NotPlanning ELSE next]
    BY <1>6, Zenon DEF PlanRoutines, PlanMove
  <2>2. /\ next \in Requests /\ next.step = "creating" /\ next.entry = r.entry
        /\ next.teachers = r.teachers /\ next.sections = r.sections
    BY <1>1 DEF PlannerStep
  <2> HIDE DEF next
  <2>3. CASE conflict
    BY <1>2, <2>1, <2>3
  <2>4. CASE ~conflict
    <3>1. Undisturbed => Prepared(next, lead, co, classes)
      BY <1>1, <2>1, <2>2, <2>4 DEF Prepared
    <3> QED BY <2>1, <2>2, <2>4, <3>1, PlanGoesOn
  <2> QED BY <2>3, <2>4
<1> QED BY <1>3, <1>4, <1>5, <1>6

\* The new class clashes with none of those its request has looked at, and these
\* are all there are.
LEMMA TeachingPlanCreate ==
  ASSUME TeachingInv, NEW p \in Planners, PlanCreate(p)
  PROVE  TeachingInv'
<1> DEFINE entry == planner[p].entry
<1>1. /\ planner[p].step = "creating" /\ planner' = [planner EXCEPT ![p] = NotPlanning]
      /\ UNCHANGED <<lead, co, editor, disturbed>>
      /\ classes' \in {classes, classes \cup {entry}}
  BY DEF PlanCreate, PlanMove
<1>2. TeachingTypes /\ OfferedOnly /\ EntryOffered(entry, lead)
  BY <1>1 DEF TeachingInv, OfferedOnly
<1>3. TeachingTypes'
  BY <1>1, <1>2, NotPlanningType DEF TeachingTypes, EntryOffered
<1>4. \A q \in Planners : planner'[q] = IF q = p THEN NotPlanning ELSE planner[q]
  BY <1>1, <1>2 DEF TeachingTypes
<1>5. OfferedOnly'
  BY <1>1, <1>2, <1>4, NotPlanningType DEF OfferedOnly
<1>6. ASSUME ~disturbed' PROVE Undisturbed'
  <2>1. Undisturbed
    BY <1>1, <1>6 DEF TeachingInv
  <2>2. \A q \in Planners : planner'[q].step = "idle"
    BY <1>1, <1>4, <2>1, NotPlanningType DEF Undisturbed
  <2>3. \A q \in Planners : Prepared(planner'[q], lead, co, classes')
    BY <2>2 DEF Prepared
  <2>4. \A x \in classes : ~Clash(x, entry, lead, co)
    <3>1. Prepared(planner[p], lead, co, classes)
      BY <2>1 DEF Undisturbed
    <3> QED BY <1>1, <3>1 DEF Prepared, Clash
  <2>5. \A x, y \in classes' : x # y => ~Clash(x, y, lead, co)
    BY <1>1, <2>1, <2>4, ClashEither DEF Undisturbed
  <2> QED BY <1>1, <2>2, <2>3, <2>5 DEF Undisturbed
<1>7. LeadApart'
  BY <1>1 DEF TeachingInv, LeadApart, OneEditor
<1> QED BY <1>3, <1>5, <1>6, <1>7 DEF TeachingInv

LEMMA TeachingDelete ==
  ASSUME TeachingInv, NEW i \in Instructors, NEW x \in classes, deleteRoutineEntry(i, x)
  PROVE  TeachingInv'
<1>1. UNCHANGED <<lead, co, planner, editor, disturbed>> /\ classes' \subseteq classes
  BY DEF deleteRoutineEntry
<1>2. TeachingTypes' /\ OfferedOnly'
  BY <1>1 DEF TeachingInv, TeachingTypes, OfferedOnly
<1>3. ~disturbed' => Undisturbed'
  <2>1. \A q \in Planners : Prepared(planner[q], lead, co, classes)
                               => Prepared(planner[q], lead, co, classes')
    BY <1>1 DEF Prepared
  <2> QED BY <1>1, <2>1 DEF TeachingInv, Undisturbed
<1>4. LeadApart'
  BY <1>1 DEF TeachingInv, LeadApart, OneEditor
<1> QED BY <1>2, <1>3, <1>4 DEF TeachingInv

LEMMA TeachingNextInv == TeachingInv /\ [TeachingNext]_teachingVars => TeachingInv'
<1> SUFFICES ASSUME TeachingInv, [TeachingNext]_teachingVars PROVE TeachingInv'
  OBVIOUS
<1>1. CASE UNCHANGED teachingVars
  BY <1>1 DEF teachingVars, TeachingInv, TeachingTypes, OfferedOnly, Undisturbed, LeadApart,
              OneEditor
<1>2. CASE TeachingNext
  <2>1. TRUE \in BOOLEAN /\ FALSE \in BOOLEAN /\ {} \in SUBSET Instructors
    OBVIOUS
  <2> QED
    BY <1>2, <2>1, TeachingOffer, TeachingEditRead, TeachingEditWrite, TeachingPlanRead,
       TeachingPlanMoves, TeachingPlanCreate, TeachingDelete DEF TeachingNext
<1> QED BY <1>1, <1>2

LEMMA TeachingInvariant == TeachingSpec => []TeachingInv
BY TeachingInitInv, TeachingNextInv, PTL DEF TeachingSpec

\* "An instructor can't be in two classes at once" (routine.service.ts:37) as
\* long as nobody changes who teaches and entries are planned one at a time; and
\* with one administrator at work nobody is lead and co-instructor of a section:
\* for any sections, instructors, times and numbers of classes and requests.
THEOREM TimetableStaysSound == TeachingSpec => []TimetableIsSound
<1>1. ASSUME TeachingInv PROVE TimetableIsSound
  <2>1. ~disturbed => \A x, y \in classes : x # y => ~Clash(x, y, lead, co)
    BY <1>1 DEF TeachingInv, Undisturbed
  <2> QED BY <1>1, <2>1, TaughtIs DEF TeachingInv, LeadApart, Clash, TimetableIsSound
<1> QED BY <1>1, TeachingInvariant, PTL

-----------------------------------------------------------------------------
(***************************************************************************)
(* The invoices of a semester (SemesterBilling).                           *)
(***************************************************************************)

LiveOf(rows) == {i \in DOMAIN rows : rows[i].live}
CreditsOf(rows) == [i \in DOMAIN rows |-> rows[i].billedCredits]
BilledOf(rows) == SumFunctionOnSet(CreditsOf(rows), LiveOf(rows))

\* The fixed fees are on one live invoice, and waivers of a fixed amount with them.
FeesOnce(rows) ==
  /\ \A i, j \in LiveOf(rows) : rows[i].full /\ rows[j].full => i = j
  /\ \A i \in DOMAIN rows : rows[i].fixedWaiver => rows[i].full

\* What was read, and what was billed, are credits the student has had.
WithinPeak ==
  /\ \A s \in Payers : credits[s] <= peak[s]
  /\ \A r \in Runs : \A s \in DOMAIN run[r] : run[r][s] <= peak[s]
  /\ \A s \in Payers : BilledOf(invoices[s]) <= peak[s]

SemesterInv ==
  /\ SemesterBillingTypeOK /\ WithinPeak
  /\ \A s \in Payers : FeesOnce(invoices[s])

-----------------------------------------------------------------------------
LEMMA SeqIs ==
  ASSUME NEW S, NEW n \in Nat, NEW f \in [1..n -> S]
  PROVE  f \in Seq(S)
OBVIOUS

\* The invoices of a student are numbered, and what they bill adds up.
LEMMA InvoicesType ==
  ASSUME NEW rows \in Seq(SemesterInvoice)
  PROVE  /\ Len(rows) \in Nat /\ DOMAIN rows = 1..Len(rows)
         /\ \A i \in DOMAIN rows : rows[i] \in SemesterInvoice
         /\ IsFiniteSet(DOMAIN rows) /\ IsFiniteSet(LiveOf(rows))
         /\ \A i \in DOMAIN rows : CreditsOf(rows)[i] \in Nat
         /\ BilledOf(rows) \in Nat
<1>1. /\ Len(rows) \in Nat /\ DOMAIN rows = 1..Len(rows)
      /\ \A i \in DOMAIN rows : rows[i] \in SemesterInvoice
  OBVIOUS
<1>2. IsFiniteSet(1..Len(rows))
  BY <1>1, FS_Interval
<1>3. IsFiniteSet(DOMAIN rows)
  BY <1>1, <1>2
<1>4. IsFiniteSet(LiveOf(rows))
  BY <1>3, FS_Subset DEF LiveOf
<1>5. \A i \in DOMAIN rows : CreditsOf(rows)[i] \in Nat
  BY <1>1 DEF CreditsOf, SemesterInvoice
<1>6. \A i \in LiveOf(rows) : CreditsOf(rows)[i] \in Nat
  BY <1>5 DEF LiveOf
<1>7. BilledOf(rows) \in Nat
  BY <1>4, <1>6, SumNat DEF BilledOf
<1> QED BY <1>1, <1>3, <1>4, <1>5, <1>7

\* Another live invoice adds its credits to those billed.
LEMMA InvoiceAdded ==
  ASSUME NEW rows \in Seq(SemesterInvoice), NEW row \in SemesterInvoice, row.live,
         row.full => LiveOf(rows) = {}, row.fixedWaiver => row.full, FeesOnce(rows),
         NEW new, new = Append(rows, row)
  PROVE  /\ new \in Seq(SemesterInvoice)
         /\ BilledOf(new) = BilledOf(rows) + row.billedCredits
         /\ FeesOnce(new)
<1> DEFINE n == Len(rows)
<1>1. /\ n \in Nat /\ DOMAIN rows = 1..n /\ new \in Seq(SemesterInvoice)
      /\ DOMAIN new = 1..(n + 1) /\ new[n + 1] = row /\ \A i \in 1..n : new[i] = rows[i]
  OBVIOUS
<1>2. /\ n + 1 \notin 1..n /\ n + 1 \in 1..(n + 1)
      /\ \A i \in 1..(n + 1) : i \in 1..n \/ i = n + 1
      /\ \A i \in 1..n : i \in 1..(n + 1)
  BY <1>1
<1> HIDE DEF n
<1>3. LiveOf(new) = LiveOf(rows) \cup {n + 1}
  BY <1>1, <1>2 DEF LiveOf
<1>4. LiveOf(rows) = LiveOf(new) \ {n + 1} /\ n + 1 \in LiveOf(new) /\ LiveOf(rows) \subseteq 1..n
  BY <1>1, <1>2, <1>3 DEF LiveOf
<1>5. BilledOf(new) = CreditsOf(new)[n + 1] + SumFunctionOnSet(CreditsOf(new), LiveOf(rows))
  <2>1. IsFiniteSet(LiveOf(new)) /\ \A i \in LiveOf(new) : CreditsOf(new)[i] \in Int
    <3>1. /\ IsFiniteSet(LiveOf(new))
          /\ \A i \in DOMAIN new : CreditsOf(new)[i] \in Nat
      <4>1. new \in Seq(SemesterInvoice)
        BY <1>1
      <4> QED BY <4>1, InvoicesType
    <3>2. \A i \in LiveOf(new) : i \in DOMAIN new
      BY DEF LiveOf
    <3> QED BY <3>1, <3>2
  <2> QED BY <1>4, <2>1, SumWithout DEF BilledOf
<1>6. SumFunctionOnSet(CreditsOf(rows), LiveOf(rows)) = SumFunctionOnSet(CreditsOf(new), LiveOf(rows))
  <2>1. \A i \in LiveOf(rows) : /\ CreditsOf(rows)[i] \in Int
                                /\ CreditsOf(rows)[i] = CreditsOf(new)[i]
    <3>1. \A i \in 1..n : CreditsOf(rows)[i] \in Int
      BY <1>1, InvoicesType
    <3>2. \A i \in 1..n : CreditsOf(rows)[i] = CreditsOf(new)[i]
      BY <1>1, <1>2 DEF CreditsOf
    <3> QED BY <1>4, <3>1, <3>2
  <2>2. IsFiniteSet(LiveOf(rows))
    BY InvoicesType
  <2> QED BY <2>1, <2>2, SumAgree
<1>7. CreditsOf(new)[n + 1] = row.billedCredits
  BY <1>1, <1>2 DEF CreditsOf
<1>8. BilledOf(new) = BilledOf(rows) + row.billedCredits
  <2>1. BilledOf(rows) \in Nat /\ row.billedCredits \in Nat
    BY InvoicesType DEF SemesterInvoice
  <2> QED BY <1>5, <1>6, <1>7, <2>1 DEF BilledOf
<1>9. FeesOnce(new)
  <2>1. ASSUME NEW i \in LiveOf(new), NEW j \in LiveOf(new), new[i].full, new[j].full
        PROVE  i = j
    <3>1. CASE row.full
      BY <1>3, <3>1
    <3>2. CASE ~row.full
      <4>1. i \in LiveOf(rows) /\ j \in LiveOf(rows)
        BY <1>1, <1>3, <2>1, <3>2
      <4> QED BY <1>1, <1>4, <2>1, <4>1 DEF FeesOnce
    <3> QED BY <3>1, <3>2
  <2>2. \A i \in DOMAIN new : new[i].fixedWaiver => new[i].full
    BY <1>1, <1>2 DEF FeesOnce
  <2> QED BY <2>1, <2>2 DEF FeesOnce
<1> QED BY <1>1, <1>8, <1>9

\* A cancelled invoice bills nothing, and the others what they did.
LEMMA InvoiceCancelled ==
  ASSUME NEW rows \in Seq(SemesterInvoice), NEW i \in LiveOf(rows), FeesOnce(rows),
         NEW new, new = [rows EXCEPT ![i].live = FALSE]
  PROVE  /\ new \in Seq(SemesterInvoice)
         /\ BilledOf(new) <= BilledOf(rows)
         /\ FeesOnce(new)
<1>1. /\ Len(rows) \in Nat /\ DOMAIN rows = 1..Len(rows) /\ i \in DOMAIN rows
      /\ \A j \in DOMAIN rows : rows[j] \in SemesterInvoice
  BY InvoicesType DEF LiveOf
<1> DEFINE off == [rows[i] EXCEPT !.live = FALSE]
<1>2. /\ off \in SemesterInvoice /\ ~off.live /\ off.full = rows[i].full
      /\ off.fixedWaiver = rows[i].fixedWaiver /\ off.billedCredits = rows[i].billedCredits
  BY <1>1 DEF SemesterInvoice
<1>3. new = [rows EXCEPT ![i] = off]
  OBVIOUS
<1> HIDE DEF off
<1>4. /\ DOMAIN new = DOMAIN rows /\ new \in Seq(SemesterInvoice)
      /\ \A j \in DOMAIN rows : new[j] = IF j = i THEN off ELSE rows[j]
  <2>1. rows \in [1..Len(rows) -> SemesterInvoice]
    BY <1>1
  <2>2. new \in [1..Len(rows) -> SemesterInvoice]
    BY <1>1, <1>2, <1>3, <2>1
  <2>3. new \in Seq(SemesterInvoice)
    BY <1>1, <2>2, SeqIs
  <2>4. DOMAIN new = DOMAIN rows /\ \A j \in DOMAIN rows : new[j] = IF j = i THEN off ELSE rows[j]
    BY <1>3
  <2> QED BY <2>3, <2>4
<1>5. LiveOf(new) \in SUBSET LiveOf(rows) /\ i \notin LiveOf(new)
  BY <1>2, <1>4 DEF LiveOf
<1>6. CreditsOf(new) = CreditsOf(rows)
  BY <1>2, <1>4 DEF CreditsOf
<1>7. BilledOf(new) <= BilledOf(rows)
  <2>1. IsFiniteSet(LiveOf(rows)) /\ \A j \in LiveOf(rows) : CreditsOf(rows)[j] \in Nat
    BY InvoicesType DEF LiveOf
  <2> QED BY <1>5, <1>6, <2>1, SumSubset DEF BilledOf
<1>8. FeesOnce(new)
  <2>1. \A j \in DOMAIN rows : new[j].full = rows[j].full
                               /\ new[j].fixedWaiver = rows[j].fixedWaiver
    BY <1>2, <1>4
  <2>2. LiveOf(new) \subseteq DOMAIN rows
    BY <1>5 DEF LiveOf
  <2> QED BY <1>4, <1>5, <2>1, <2>2 DEF FeesOnce
<1> QED BY <1>4, <1>7, <1>8

\* The greater of two numbers.
LEMMA GreaterOfTwo ==
  ASSUME NEW a \in Nat, NEW b \in Nat
  PROVE  Max({a, b}) \in {a, b} /\ Max({a, b}) >= a /\ Max({a, b}) >= b
<1>1. \E x \in {a, b} : \A y \in {a, b} : x >= y
  OBVIOUS
<1> QED BY <1>1 DEF Max

-----------------------------------------------------------------------------
LEMMA SemesterInitInv == SemesterBillingInit => SemesterInv
<1> SUFFICES ASSUME SemesterBillingInit PROVE SemesterInv
  OBVIOUS
<1>1. NoBatch \in Batch
  <2>1. NoBatch \in [{} -> 1..MaxCredits] /\ {} \in SUBSET Payers
    BY DEF NoBatch
  <2> QED BY <2>1 DEF Batch
<1>2. 0 \in 0..MaxCredits /\ <<>> \in Seq(SemesterInvoice)
  BY SemesterBillingAssumption
<1>3. SemesterBillingTypeOK
  BY <1>1, <1>2 DEF SemesterBillingInit, SemesterBillingTypeOK
<1>4. LiveOf(<<>>) = {} /\ FeesOnce(<<>>)
  BY DEF LiveOf, FeesOnce
<1>5. BilledOf(<<>>) = 0
  BY <1>4, SumEmpty DEF BilledOf
<1>6. WithinPeak
  BY <1>5 DEF SemesterBillingInit, WithinPeak, NoBatch
<1>7. \A s \in Payers : FeesOnce(invoices[s])
  BY <1>4 DEF SemesterBillingInit
<1> QED BY <1>3, <1>6, <1>7 DEF SemesterInv

\* The batches are functions of some of the students.
LEMMA BatchType ==
  ASSUME NEW b
  PROVE  b \in Batch <=> /\ DOMAIN b \subseteq Payers /\ b = [s \in DOMAIN b |-> b[s]]
                         /\ \A s \in DOMAIN b : b[s] \in 1..MaxCredits
<1>1. ASSUME b \in Batch
      PROVE  /\ DOMAIN b \subseteq Payers /\ b = [s \in DOMAIN b |-> b[s]]
             /\ \A s \in DOMAIN b : b[s] \in 1..MaxCredits
  <2>1. PICK S \in SUBSET Payers : b \in [S -> 1..MaxCredits]
    BY <1>1 DEF Batch
  <2> QED BY <2>1
<1>2. ASSUME DOMAIN b \subseteq Payers, b = [s \in DOMAIN b |-> b[s]],
             \A s \in DOMAIN b : b[s] \in 1..MaxCredits
      PROVE  b \in Batch
  <2>1. b \in [DOMAIN b -> 1..MaxCredits]
    BY <1>2
  <2> QED BY <1>2, <2>1 DEF Batch
<1> QED BY <1>1, <1>2

LEMMA SemesterCredits ==
  ASSUME SemesterInv, NEW s \in Payers, NEW n \in 0..MaxCredits, CreditsChange(s, n)
  PROVE  SemesterInv'
<1> DEFINE top == Max({peak[s], n})
<1>1. /\ credits \in [Payers -> 0..MaxCredits] /\ peak \in [Payers -> 0..MaxCredits]
      /\ peak[s] \in Nat /\ n \in Nat /\ peak[s] \in 0..MaxCredits
  BY SemesterBillingAssumption DEF SemesterInv, SemesterBillingTypeOK
<1>2. top \in {peak[s], n} /\ top >= peak[s] /\ top >= n
  BY <1>1, GreaterOfTwo
<1>3. /\ credits' = [credits EXCEPT ![s] = n] /\ peak' = [peak EXCEPT ![s] = top]
      /\ UNCHANGED <<invoices, rate, waiver, run>>
  BY DEF CreditsChange
<1> HIDE DEF top
<1>4. /\ peak' \in [Payers -> 0..MaxCredits] /\ credits' \in [Payers -> 0..MaxCredits]
      /\ \A t \in Payers : peak'[t] >= peak[t] /\ peak'[t] \in Nat /\ peak[t] \in Nat
      /\ \A t \in Payers : credits'[t] <= peak'[t]
  BY <1>1, <1>2, <1>3, SemesterBillingAssumption DEF SemesterInv, WithinPeak
<1>5. SemesterBillingTypeOK'
  BY <1>3, <1>4 DEF SemesterInv, SemesterBillingTypeOK
<1>6. WithinPeak'
  <2>1. ASSUME NEW r \in Runs, NEW t \in DOMAIN run[r] PROVE run[r][t] <= peak'[t]
    <3>1. run[r] \in Batch /\ run[r][t] <= peak[t]
      BY DEF SemesterInv, SemesterBillingTypeOK, WithinPeak
    <3>2. t \in Payers /\ run[r][t] \in Nat
      BY <3>1, BatchType
    <3> QED BY <1>4, <3>1, <3>2
  <2>2. ASSUME NEW t \in Payers PROVE BilledOf(invoices[t]) <= peak'[t]
    <3>1. BilledOf(invoices[t]) \in Nat /\ BilledOf(invoices[t]) <= peak[t]
      BY InvoicesType DEF SemesterInv, SemesterBillingTypeOK, WithinPeak
    <3> QED BY <1>4, <3>1
  <2> QED BY <1>3, <1>4, <2>1, <2>2 DEF WithinPeak
<1> QED BY <1>3, <1>5, <1>6 DEF SemesterInv

\* A run with another batch, of credits that were had.
LEMMA SemesterRunMoves ==
  ASSUME SemesterInv, NEW r \in Runs, NEW b \in Batch, \A s \in DOMAIN b : b[s] <= peak[s],
         run' = [run EXCEPT ![r] = b], UNCHANGED <<credits, peak, invoices, rate, waiver>>
  PROVE  SemesterInv'
<1>1. SemesterBillingTypeOK'
  BY DEF SemesterInv, SemesterBillingTypeOK
<1>2. \A q \in Runs : run'[q] = IF q = r THEN b ELSE run[q]
  BY DEF SemesterInv, SemesterBillingTypeOK
<1>3. WithinPeak'
  BY <1>2 DEF SemesterInv, WithinPeak
<1> QED BY <1>1, <1>3 DEF SemesterInv

LEMMA SemesterRunRead ==
  ASSUME SemesterInv, NEW r \in Runs, NEW who \in SUBSET Payers, RunRead(r, who)
  PROVE  SemesterInv'
<1> DEFINE b == [s \in {t \in who : credits[t] > 0} |-> credits[s]]
<1>1. \A s \in Payers : credits[s] \in 0..MaxCredits /\ credits[s] <= peak[s]
  BY DEF SemesterInv, SemesterBillingTypeOK, WithinPeak
<1>2. DOMAIN b \subseteq Payers /\ \A s \in DOMAIN b : b[s] = credits[s] /\ credits[s] > 0
  OBVIOUS
<1>3. b \in Batch
  <2>1. \A s \in DOMAIN b : b[s] \in 1..MaxCredits
    BY <1>1, <1>2, SemesterBillingAssumption
  <2>2. b = [s \in DOMAIN b |-> b[s]]
    OBVIOUS
  <2> HIDE DEF b
  <2> QED BY <1>2, <2>1, <2>2, BatchType
<1>4. run' = [run EXCEPT ![r] = b] /\ UNCHANGED <<credits, peak, invoices, rate, waiver>>
  BY DEF RunRead
<1> HIDE DEF b
<1> QED BY <1>1, <1>2, <1>3, <1>4, SemesterRunMoves

\* The batch without a student that was billed or skipped.
LEMMA BatchWithout ==
  ASSUME SemesterInv, NEW r \in Runs, NEW s, NEW b, b = Restrict(run[r], DOMAIN run[r] \ {s})
  PROVE  b \in Batch /\ \A t \in DOMAIN b : b[t] <= peak[t]
<1>1. run[r] \in Batch /\ \A t \in DOMAIN run[r] : run[r][t] <= peak[t]
  BY DEF SemesterInv, SemesterBillingTypeOK, WithinPeak
<1>2. DOMAIN b = DOMAIN run[r] \ {s} /\ \A t \in DOMAIN b : b[t] = run[r][t]
  BY DEF Restrict
<1>3. b = [t \in DOMAIN b |-> b[t]]
  BY DEF Restrict
<1> QED BY <1>1, <1>2, <1>3, BatchType

LEMMA SemesterSkip ==
  ASSUME SemesterInv, NEW r \in Runs, NEW s \in Payers, SkipStudent(r, s)
  PROVE  SemesterInv'
<1> DEFINE b == Restrict(run[r], DOMAIN run[r] \ {s})
<1>1. run' = [run EXCEPT ![r] = b] /\ UNCHANGED <<credits, peak, invoices, rate, waiver>>
  BY DEF SkipStudent, Billed
<1>2. b \in Batch /\ \A t \in DOMAIN b : b[t] <= peak[t]
  BY BatchWithout
<1> HIDE DEF b
<1> QED BY <1>1, <1>2, SemesterRunMoves

LEMMA SemesterBillStudent ==
  ASSUME SemesterInv, NEW r \in Runs, NEW s \in Payers, BillStudent(r, s)
  PROVE  SemesterInv'
<1> DEFINE rows == invoices[s]
           row == [billedCredits |-> delta(r, s), full |-> ~supplementary(s),
                   fixedWaiver |-> waiver[s] /\ ~supplementary(s), live |-> TRUE]
           new == Append(rows, row)
           b == Restrict(run[r], DOMAIN run[r] \ {s})
<1>1. /\ rows \in Seq(SemesterInvoice) /\ FeesOnce(rows) /\ waiver[s] \in BOOLEAN
      /\ peak[s] \in 0..MaxCredits
      /\ invoices \in [Payers -> Seq(SemesterInvoice)] /\ run \in [Runs -> Batch]
  BY DEF SemesterInv, SemesterBillingTypeOK
<1>2. alreadyBilled(s) = BilledOf(rows) /\ LiveInvoices(s) = LiveOf(rows)
  BY DEF alreadyBilled, LiveInvoices, BilledOf, CreditsOf, LiveOf
<1>3. /\ s \in DOMAIN run[r] /\ delta(r, s) > 0 /\ invoices' = [invoices EXCEPT ![s] = new]
      /\ run' = [run EXCEPT ![r] = b] /\ UNCHANGED <<credits, peak, rate, waiver>>
  BY DEF BillStudent, Billed
<1>4. run[r] \in Batch /\ run[r][s] <= peak[s] /\ run[r][s] \in Nat
  <2>1. run[r] \in Batch /\ run[r][s] <= peak[s]
    BY <1>3 DEF SemesterInv, SemesterBillingTypeOK, WithinPeak
  <2> QED BY <1>3, <2>1, BatchType
<1>5. /\ BilledOf(rows) \in Nat /\ delta(r, s) \in Nat
      /\ delta(r, s) = run[r][s] - BilledOf(rows)
  <2>1. BilledOf(rows) \in Nat
    BY <1>1, InvoicesType
  <2> QED BY <1>2, <1>3, <1>4, <2>1 DEF delta
<1>6. /\ row \in SemesterInvoice /\ row.live /\ row.billedCredits = delta(r, s)
      /\ row.full => LiveOf(rows) = {}
      /\ row.fixedWaiver => row.full
  <2>1. supplementary(s) \in BOOLEAN /\ (supplementary(s) <=> LiveOf(rows) # {})
    BY <1>2 DEF supplementary
  <2>2. row \in SemesterInvoice
    BY <1>1, <1>5, <2>1 DEF SemesterInvoice
  <2> QED BY <2>1, <2>2
<1> HIDE DEF row, rows
<1>7. /\ new \in Seq(SemesterInvoice) /\ FeesOnce(new)
      /\ BilledOf(new) = BilledOf(rows) + delta(r, s)
  BY <1>1, <1>6, InvoiceAdded
<1> HIDE DEF new
<1>8. BilledOf(new) <= peak[s]
  BY <1>4, <1>5, <1>7
<1>9. b \in Batch /\ \A t \in DOMAIN b : b[t] <= peak[t]
  BY BatchWithout
<1> HIDE DEF b
<1>10. SemesterBillingTypeOK'
  BY <1>1, <1>3, <1>7, <1>9 DEF SemesterInv, SemesterBillingTypeOK
<1>11. \A t \in Payers : invoices'[t] = IF t = s THEN new ELSE invoices[t]
  BY <1>1, <1>3
<1>12. \A q \in Runs : run'[q] = IF q = r THEN b ELSE run[q]
  BY <1>1, <1>3
<1>13. WithinPeak'
  BY <1>3, <1>8, <1>9, <1>11, <1>12 DEF SemesterInv, WithinPeak
<1> QED BY <1>7, <1>10, <1>11, <1>13 DEF SemesterInv

LEMMA SemesterCancel ==
  ASSUME SemesterInv, NEW s \in Payers, NEW i, CancelSemesterInvoice(s, i)
  PROVE  SemesterInv'
<1> DEFINE rows == invoices[s]
           new == [rows EXCEPT ![i].live = FALSE]
<1>1. /\ rows \in Seq(SemesterInvoice) /\ FeesOnce(rows)
      /\ invoices \in [Payers -> Seq(SemesterInvoice)] /\ peak[s] \in 0..MaxCredits
      /\ BilledOf(rows) <= peak[s] /\ BilledOf(rows) \in Nat
  BY InvoicesType DEF SemesterInv, SemesterBillingTypeOK, WithinPeak
<1>2. /\ i \in LiveOf(rows) /\ invoices' = [invoices EXCEPT ![s] = new]
      /\ UNCHANGED <<credits, peak, rate, waiver, run>>
  BY DEF CancelSemesterInvoice, LiveInvoices, LiveOf
<1>3. new \in Seq(SemesterInvoice) /\ BilledOf(new) <= BilledOf(rows) /\ FeesOnce(new)
  BY <1>1, <1>2, InvoiceCancelled
<1> HIDE DEF new
<1>4. BilledOf(new) <= peak[s]
  BY <1>1, <1>3, InvoicesType
<1>5. SemesterBillingTypeOK'
  BY <1>1, <1>2, <1>3 DEF SemesterInv, SemesterBillingTypeOK
<1>6. \A t \in Payers : invoices'[t] = IF t = s THEN new ELSE invoices[t]
  BY <1>1, <1>2
<1>7. WithinPeak'
  BY <1>2, <1>4, <1>6 DEF SemesterInv, WithinPeak
<1> QED BY <1>3, <1>5, <1>6, <1>7 DEF SemesterInv

LEMMA SemesterNextInv == SemesterInv /\ [SemesterBillingNext]_semesterBillingVars => SemesterInv'
<1> SUFFICES ASSUME SemesterInv, [SemesterBillingNext]_semesterBillingVars PROVE SemesterInv'
  OBVIOUS
<1>1. CASE UNCHANGED semesterBillingVars
  BY <1>1 DEF semesterBillingVars, SemesterInv, SemesterBillingTypeOK, WithinPeak
<1>2. ASSUME NEW r \in Runs, RunDies(r) PROVE SemesterInv'
  <2>1. DOMAIN NoBatch = {} /\ NoBatch \in Batch
    <3>1. NoBatch \in [{} -> 1..MaxCredits] /\ {} \in SUBSET Payers
      BY DEF NoBatch
    <3> QED BY <3>1 DEF Batch
  <2> QED BY <1>2, <2>1, SemesterRunMoves DEF RunDies
<1>3. CASE RateChanges
  BY <1>3 DEF RateChanges, SemesterInv, SemesterBillingTypeOK, WithinPeak
<1>4. ASSUME NEW s \in Payers, WaiverChanges(s) PROVE SemesterInv'
  BY <1>4 DEF WaiverChanges, SemesterInv, SemesterBillingTypeOK, WithinPeak
<1>5. ASSUME NEW r \in Runs, NEW s \in Payers, generateMySemesterInvoice(r, s) PROVE SemesterInv'
  BY <1>5, SemesterRunRead DEF generateMySemesterInvoice
<1> QED
  BY <1>1, <1>2, <1>3, <1>4, <1>5, SemesterCredits, SemesterCancel, SemesterSkip,
     SemesterBillStudent, SemesterRunRead DEF SemesterBillingNext

LEMMA SemesterInvariant == SemesterBillingSpec => []SemesterInv
BY SemesterInitInv, SemesterNextInv, PTL DEF SemesterBillingSpec

\* However many runs overlap, die, or bill from credits read long ago, and
\* whatever is cancelled between them, a student is not billed for more credits
\* than she has ever had, and the fixed fees and fixed waivers are on one live
\* invoice: for any students, runs, credits and numbers of invoices.
THEOREM CreditsAreBilledOnce == SemesterBillingSpec => []BilledOnce
<1>1. ASSUME SemesterInv PROVE BilledOnce
  <2>1. ASSUME NEW s \in Payers
        PROVE  /\ alreadyBilled(s) = BilledOf(invoices[s])
               /\ LiveInvoices(s) = LiveOf(invoices[s])
    BY DEF alreadyBilled, LiveInvoices, BilledOf, CreditsOf, LiveOf
  <2>2. NeverBilledTwice
    BY <1>1, <2>1 DEF SemesterInv, WithinPeak, NeverBilledTwice
  <2>3. ASSUME NEW s \in Payers
        PROVE  Cardinality({i \in LiveInvoices(s) : invoices[s][i].full}) <= 1
    <3> DEFINE T == {i \in LiveInvoices(s) : invoices[s][i].full}
    <3>1. \A i, j \in T : i = j
      BY <1>1, <2>1 DEF SemesterInv, FeesOnce
    <3> SUFFICES Cardinality(T) <= 1
      OBVIOUS
    <3> HIDE DEF T
    <3>2. CASE T = {}
      BY <3>2, FS_EmptySet
    <3>3. CASE T # {}
      <4>1. PICK i : T = {i}
        BY <3>1, <3>3
      <4> QED BY <4>1, FS_Singleton
    <3> QED BY <3>2, <3>3
  <2>4. \A s \in Payers : \A i \in LiveInvoices(s) :
          invoices[s][i].fixedWaiver => invoices[s][i].full
    BY <1>1 DEF SemesterInv, FeesOnce, LiveInvoices
  <2> QED BY <2>2, <2>3, <2>4 DEF BilledOnce, FixedFeesOnce
<1> QED BY <1>1, SemesterInvariant, PTL

-----------------------------------------------------------------------------
(***************************************************************************)
(* The transcripts of a student (Transcripts).                             *)
(***************************************************************************)

\* A student is enrolled in sections of a semester only.
TranscriptsInv ==
  /\ TranscriptsTypeOK
  /\ \A c \in Taken : book[c].status # "NONE" => book[c].semester # NotOffered

\* What the exams of a course amount to; it is possible to obtain something
\* when there is an exam.
LEMMA ObtainedType ==
  ASSUME TranscriptsInv, NEW c \in Taken
  PROVE  /\ Obtained(c) \in Nat /\ Possible(c) \in Nat
         /\ book[c].exams # {} => Possible(c) # 0
<1>1. /\ book[c].exams \in SUBSET Papers /\ book[c].marks \in [Papers -> 0..PaperMarks]
      /\ IsFiniteSet(Papers) /\ PaperMarks \in Nat \ {0}
  BY TranscriptsAssumption DEF TranscriptsInv, TranscriptsTypeOK, Sheet
<1>2. IsFiniteSet(book[c].exams)
  BY <1>1, FS_Subset
<1>3. Obtained(c) \in Nat
  BY <1>1, <1>2, SumNat DEF Obtained
<1>4. /\ Cardinality(book[c].exams) \in Nat
      /\ book[c].exams # {} => Cardinality(book[c].exams) # 0
  BY <1>2, FS_CardinalityType, FS_EmptySet
<1>5. \A n \in Nat : PaperMarks * n \in Nat /\ (n # 0 => PaperMarks * n # 0)
  BY <1>1
<1> QED BY <1>3, <1>4, <1>5 DEF Possible

\* The two tables of grades give the same point for the same marks.
LEMMA SameGrades ==
  ASSUME NEW obtained \in Nat, NEW total \in Nat \ {0}
  PROVE  gradeForPercentage(obtained, total).point = percentageToGradePoint(obtained, total)
<1> DEFINE Reached(min) == obtained * 100 >= min * total
           IsGrade(band) == /\ obtained * 100 >= band.min * total
                            /\ \A higher \in PERCENTAGE_TO_GRADE :
                                 higher.min > band.min => obtained * 100 < higher.min * total
           points == {band[2] : band \in {b \in PERCENTAGE_TO_GRADE_POINT :
                                            obtained * 100 >= b[1] * total}}
           IsTop(x) == \A y \in points : x >= y
<1>1. PICK band \in PERCENTAGE_TO_GRADE : IsGrade(band)
  BY DEF PERCENTAGE_TO_GRADE
<1>2. \A b \in PERCENTAGE_TO_GRADE : IsGrade(b) => b = band
  BY <1>1 DEF PERCENTAGE_TO_GRADE
<1>3. gradeForPercentage(obtained, total) = band
  <2>1. gradeForPercentage(obtained, total) = CHOOSE b \in PERCENTAGE_TO_GRADE : IsGrade(b)
    BY DEF gradeForPercentage
  <2> HIDE DEF IsGrade
  <2> QED BY <1>1, <1>2, <2>1
<1>4. \A y : y \in points <=> \E b \in PERCENTAGE_TO_GRADE : Reached(b.min) /\ y = b.point
  <2>1. \A b \in PERCENTAGE_TO_GRADE : <<b.min, b.point>> \in PERCENTAGE_TO_GRADE_POINT
    BY DEF PERCENTAGE_TO_GRADE, PERCENTAGE_TO_GRADE_POINT
  <2>2. \A b \in PERCENTAGE_TO_GRADE_POINT :
          \E c \in PERCENTAGE_TO_GRADE : b[1] = c.min /\ b[2] = c.point
    BY DEF PERCENTAGE_TO_GRADE, PERCENTAGE_TO_GRADE_POINT
  <2> QED BY <2>1, <2>2
<1>5. \A b \in PERCENTAGE_TO_GRADE : Reached(b.min) => b.point <= band.point
  <2>1. \A b \in PERCENTAGE_TO_GRADE : Reached(b.min) => b.min <= band.min
    BY <1>1 DEF PERCENTAGE_TO_GRADE
  <2>2. \A b \in PERCENTAGE_TO_GRADE : b.min <= band.min => b.point <= band.point
    BY DEF PERCENTAGE_TO_GRADE
  <2> QED BY <2>1, <2>2
<1>6. band.point \in points /\ IsTop(band.point)
  BY <1>1, <1>4, <1>5
<1>7. points \subseteq Int
  BY <1>4 DEF PERCENTAGE_TO_GRADE
<1>8. percentageToGradePoint(obtained, total) = CHOOSE x \in points : IsTop(x)
  BY DEF percentageToGradePoint, Max
<1> HIDE DEF points
<1>9. ASSUME NEW x \in points, IsTop(x) PROVE x = band.point
  <2>1. x >= band.point /\ band.point >= x /\ x \in Int /\ band.point \in Int
    BY <1>6, <1>7, <1>9
  <2> QED BY <2>1
<1> HIDE DEF IsTop
<1> QED BY <1>3, <1>6, <1>8, <1>9

\* A grade point is one of the table.
LEMMA GradeIsPoint ==
  ASSUME NEW obtained \in Nat, NEW total \in Nat
  PROVE  percentageToGradePoint(obtained, total) \in Points
<1>1. CASE total = 0
  BY <1>1 DEF percentageToGradePoint, Points, PERCENTAGE_TO_GRADE_POINT
<1>2. CASE total # 0
  <2> DEFINE IsGrade(band) == /\ obtained * 100 >= band.min * total
                              /\ \A higher \in PERCENTAGE_TO_GRADE :
                                   higher.min > band.min => obtained * 100 < higher.min * total
  <2>1. \E band \in PERCENTAGE_TO_GRADE : IsGrade(band)
    BY <1>2 DEF PERCENTAGE_TO_GRADE
  <2>2. gradeForPercentage(obtained, total) = CHOOSE b \in PERCENTAGE_TO_GRADE : IsGrade(b)
    BY DEF gradeForPercentage
  <2>3. gradeForPercentage(obtained, total) \in PERCENTAGE_TO_GRADE
    <3> HIDE DEF IsGrade
    <3> QED BY <2>1, <2>2
  <2>4. \A b \in PERCENTAGE_TO_GRADE : b.point \in Points
    BY DEF PERCENTAGE_TO_GRADE, Points, PERCENTAGE_TO_GRADE_POINT
  <2> QED BY <1>2, <2>3, <2>4, SameGrades
<1> QED BY <1>1, <1>2

LEMMA GpaType ==
  ASSUME TranscriptsInv, NEW t
  PROVE  GpaNow(t) \in GpaPayload
<1> DEFINE graded == {c \in Taken : /\ book[c].semester = t /\ book[c].status = "ENROLLED"
                                    /\ Statuses(c) = {"PUBLISHED"}}
<1>1. \A c \in graded : percentageToGradePoint(Obtained(c), Possible(c)) \in Points
  BY ObtainedType, GradeIsPoint
<1>2. GpaNow(t) = [c \in graded |-> percentageToGradePoint(Obtained(c), Possible(c))]
  BY DEF GpaNow
<1>3. graded \in SUBSET Taken
  OBVIOUS
<1> HIDE DEF graded
<1> QED BY <1>1, <1>2, <1>3 DEF GpaPayload

LEMMA TranscriptsInitInv == TranscriptsInit => TranscriptsInv
<1> SUFFICES ASSUME TranscriptsInit PROVE TranscriptsInv
  OBVIOUS
<1> DEFINE sheet == [semester |-> NotOffered, status |-> "NONE", exams |-> {},
                     marks |-> [x \in Papers |-> 0], results |-> [x \in Papers |-> "NONE"]]
<1>1. 0 \in 0..PaperMarks
  BY TranscriptsAssumption
<1>2. sheet.marks \in [Papers -> 0..PaperMarks]
  BY <1>1
<1>3. sheet \in Sheet
  BY <1>2 DEF Sheet, NotOffered
<1>4. book = [c \in Taken |-> sheet] /\ sheet.status = "NONE" /\ DOMAIN cache = {}
  BY DEF TranscriptsInit
<1> HIDE DEF sheet
<1> QED BY <1>3, <1>4 DEF TranscriptsInv, TranscriptsTypeOK

\* A step rewrites the sheet of one section, and keeps it sound.
LEMMA SheetKeeps ==
  ASSUME TranscriptsInv, NEW c \in Taken, NEW sheet \in Sheet,
         book' = [book EXCEPT ![c] = sheet],
         cache' = cache \/ cache' = Without(book[c].semester),
         sheet.status # "NONE" => sheet.semester # NotOffered
  PROVE  TranscriptsInv'
<1>1. book \in [Taken -> Sheet]
  BY DEF TranscriptsInv, TranscriptsTypeOK
<1>2. book' \in [Taken -> Sheet]
  BY <1>1
<1>3. \A d \in Taken : book'[d] = IF d = c THEN sheet ELSE book[d]
  BY <1>1
<1>4. \A d \in Taken : book'[d].status # "NONE" => book'[d].semester # NotOffered
  BY <1>3 DEF TranscriptsInv
<1>5. /\ DOMAIN cache' \subseteq Semesters
      /\ \A t \in DOMAIN cache' : cache'[t] \in GpaPayload
  BY DEF Without, Restrict, TranscriptsInv, TranscriptsTypeOK
<1> QED BY <1>2, <1>4, <1>5 DEF TranscriptsInv, TranscriptsTypeOK

\* Caching and expiry keep the payloads that there are.
LEMMA CacheKeeps ==
  ASSUME TranscriptsInv, NEW t \in Semesters, Caches(t) \/ Expires(t)
  PROVE  TranscriptsInv'
<1>1. UNCHANGED book
  BY DEF Caches, Expires
<1>2. /\ DOMAIN cache' \subseteq Semesters
      /\ \A u \in DOMAIN cache' : cache'[u] \in GpaPayload
  <2>1. CASE Caches(t)
    <3>1. /\ DOMAIN cache' = DOMAIN cache \cup {t}
          /\ \A u \in DOMAIN cache' : cache'[u] = computeSemesterGpa(u)
      BY <2>1 DEF Caches
    <3>2. \A u \in DOMAIN cache' : computeSemesterGpa(u) \in GpaPayload
      BY <3>1, GpaType DEF computeSemesterGpa, TranscriptsInv, TranscriptsTypeOK
    <3> QED BY <3>1, <3>2 DEF TranscriptsInv, TranscriptsTypeOK
  <2>2. CASE Expires(t)
    BY <2>2 DEF Expires, Without, Restrict, TranscriptsInv, TranscriptsTypeOK
  <2> QED BY <2>1, <2>2
<1> QED BY <1>1, <1>2 DEF TranscriptsInv, TranscriptsTypeOK

LEMMA TranscriptsNextInv == TranscriptsInv /\ [TranscriptsNext]_transcriptsVars => TranscriptsInv'
<1> SUFFICES ASSUME TranscriptsInv, [TranscriptsNext]_transcriptsVars PROVE TranscriptsInv'
  OBVIOUS
<1>1. CASE UNCHANGED transcriptsVars
  BY <1>1 DEF transcriptsVars, TranscriptsInv, TranscriptsTypeOK
<1>2. CASE TranscriptsNext
  <2> SUFFICES ASSUME NEW c \in Taken,
                      \/ \E t \in Semesters : Opens(c, t)
                      \/ Enrolls(c)
                      \/ \E new \in {"DROPPED", "WITHDRAWN"} : Leaves(c, new)
                      \/ \E x \in Papers :
                           \/ Examined(c, x)
                           \/ \E marks \in Scores : \/ Entered(c, x, marks)
                                                  \/ Overridden(c, x, marks)
                           \/ Published(c, x)
               PROVE  TranscriptsInv'
    BY <1>2, CacheKeeps DEF TranscriptsNext
  <2>2. book[c] \in Sheet /\ (book[c].status # "NONE" => book[c].semester # NotOffered)
    BY DEF TranscriptsInv, TranscriptsTypeOK
  <2>3. ASSUME NEW t \in Semesters, Opens(c, t) PROVE TranscriptsInv'
    <3> DEFINE sheet == [book[c] EXCEPT !.semester = t]
    <3>1. sheet \in Sheet /\ sheet.semester # NotOffered
      BY <2>2, TranscriptsAssumption DEF Sheet, NotOffered
    <3>2. book' = [book EXCEPT ![c] = sheet] /\ cache' = cache
      BY <2>3 DEF Opens
    <3> HIDE DEF sheet
    <3> QED BY <3>1, <3>2, SheetKeeps
  <2>4. CASE Enrolls(c)
    <3> DEFINE sheet == [book[c] EXCEPT !.status = "ENROLLED"]
    <3>1. sheet \in Sheet /\ sheet.semester # NotOffered
      BY <2>2, <2>4 DEF Sheet, Enrolls
    <3>2. book' = [book EXCEPT ![c] = sheet] /\ cache' = cache
      BY <2>4 DEF Enrolls
    <3> HIDE DEF sheet
    <3> QED BY <3>1, <3>2, SheetKeeps
  <2>5. ASSUME NEW new \in {"DROPPED", "WITHDRAWN"}, Leaves(c, new) PROVE TranscriptsInv'
    <3> DEFINE sheet == [book[c] EXCEPT !.status = new]
    <3>1. sheet \in Sheet /\ sheet.semester # NotOffered
      BY <2>2, <2>5 DEF Sheet, Leaves
    <3>2. book' = [book EXCEPT ![c] = sheet] /\ cache' = cache
      BY <2>5 DEF Leaves
    <3> HIDE DEF sheet
    <3> QED BY <3>1, <3>2, SheetKeeps
  <2>6. ASSUME NEW x \in Papers, Examined(c, x) PROVE TranscriptsInv'
    <3> DEFINE sheet == [book[c] EXCEPT !.exams = @ \cup {x}]
    <3>1. sheet \in Sheet /\ (sheet.status # "NONE" => sheet.semester # NotOffered)
      BY <2>2 DEF Sheet
    <3>2. book' = [book EXCEPT ![c] = sheet] /\ cache' = cache
      BY <2>6 DEF Examined
    <3> HIDE DEF sheet
    <3> QED BY <3>1, <3>2, SheetKeeps
  <2>7. ASSUME NEW x \in Papers, NEW marks \in Scores, Entered(c, x, marks) PROVE TranscriptsInv'
    <3> DEFINE sheet == [book[c] EXCEPT !.marks = [@ EXCEPT ![x] = marks],
                                        !.results = [@ EXCEPT ![x] = "DRAFT"]]
    <3>1. marks \in 0..PaperMarks
      BY TranscriptsAssumption
    <3>2. sheet \in Sheet /\ (sheet.status # "NONE" => sheet.semester # NotOffered)
      BY <2>2, <3>1 DEF Sheet
    <3>3. book' = [book EXCEPT ![c] = sheet] /\ cache' = cache
      BY <2>7, Zenon DEF Entered
    <3> HIDE DEF sheet
    <3> QED BY <3>2, <3>3, SheetKeeps
  <2>8. ASSUME NEW x \in Papers, Published(c, x) PROVE TranscriptsInv'
    <3> DEFINE sheet == [book[c] EXCEPT !.results = [@ EXCEPT ![x] = "PUBLISHED"]]
    <3>1. sheet \in Sheet /\ (sheet.status # "NONE" => sheet.semester # NotOffered)
      BY <2>2 DEF Sheet
    <3>2. book' = [book EXCEPT ![c] = sheet]
      BY <2>8 DEF Published
    <3>3. cache' = cache \/ cache' = Without(book[c].semester)
      BY <2>8 DEF Published
    <3> HIDE DEF sheet
    <3> QED BY <3>1, <3>2, <3>3, SheetKeeps
  <2>9. ASSUME NEW x \in Papers, NEW marks \in Scores, Overridden(c, x, marks)
        PROVE  TranscriptsInv'
    <3> DEFINE sheet == [book[c] EXCEPT !.marks = [@ EXCEPT ![x] = marks],
                                        !.results = [@ EXCEPT ![x] = "PUBLISHED"]]
    <3>1. marks \in 0..PaperMarks
      BY TranscriptsAssumption
    <3>2. sheet \in Sheet /\ (sheet.status # "NONE" => sheet.semester # NotOffered)
      BY <2>2, <3>1 DEF Sheet
    <3>3. book' = [book EXCEPT ![c] = sheet]
      BY <2>9, Zenon DEF Overridden
    <3>4. cache' = cache \/ cache' = Without(book[c].semester)
      BY <2>9 DEF Overridden
    <3> HIDE DEF sheet
    <3> QED BY <3>2, <3>3, <3>4, SheetKeeps
  <2> QED BY <2>3, <2>4, <2>5, <2>6, <2>7, <2>8, <2>9
<1> QED BY <1>1, <1>2

LEMMA TranscriptsInvariant == TranscriptsSpec => []TranscriptsInv
BY TranscriptsInitInv, TranscriptsNextInv, PTL DEF TranscriptsSpec


-----------------------------------------------------------------------------
\* What counts in a semester, what is printed, and its points.
Counted(t) == DOMAIN GpaNow(t)
Printed(semesterIds) ==
  {c \in Enrollments(semesterIds) : book[c].exams # {} /\ Statuses(c) = {"PUBLISHED"}}
PointsOf(courses) == [c \in courses |-> gradeForPercentage(Obtained(c), Possible(c)).point]

LEMMA OfficialIs ==
  ASSUME NEW semesterIds
  PROVE  LET courses == Printed(semesterIds)
             official == buildTranscriptData(semesterIds)
         IN  /\ official.found <=> Enrollments(semesterIds) # {}
             /\ official.semesters
                  = [t \in {book[c].semester : c \in courses} |->
                       Weighted(PointsOf(courses), {c \in courses : book[c].semester = t})]
             /\ official.cumulativeGpa = GpaOr(Zero, Weighted(PointsOf(courses), courses))
             /\ official.totalCreditsEarned = Weighted(PointsOf(courses), courses).credits
BY DEF buildTranscriptData, Printed, PointsOf

\* The courses printed are the ones that count, with the same points.
LEMMA SameCourses ==
  ASSUME TranscriptsInv, NEW t
  PROVE  /\ Counted(t) = {c \in Printed(Semesters) : book[c].semester = t}
         /\ \A c \in Counted(t) : GpaNow(t)[c] = PointsOf(Counted(t))[c]
<1> DEFINE graded == {c \in Taken : /\ book[c].semester = t /\ book[c].status = "ENROLLED"
                                    /\ Statuses(c) = {"PUBLISHED"}}
<1>1. GpaNow(t) = [c \in graded |-> percentageToGradePoint(Obtained(c), Possible(c))]
  BY DEF GpaNow
<1>2. ASSUME NEW c \in graded
      PROVE  percentageToGradePoint(Obtained(c), Possible(c))
               = gradeForPercentage(Obtained(c), Possible(c)).point
  <2>1. book[c].exams # {}
    BY <1>2 DEF Statuses
  <2>2. Obtained(c) \in Nat /\ Possible(c) \in Nat \ {0}
    BY <2>1, ObtainedType
  <2> QED BY <2>2, SameGrades
<1>3. \A c \in graded : book[c].semester \in Semesters /\ book[c].exams # {}
  BY DEF TranscriptsInv, TranscriptsTypeOK, Sheet, NotOffered, Statuses
<1>4. graded = {c \in Printed(Semesters) : book[c].semester = t}
  BY <1>3 DEF Printed, Enrollments
<1>5. Counted(t) = graded
  BY <1>1 DEF Counted
<1> HIDE DEF graded
<1> QED BY <1>1, <1>2, <1>4, <1>5 DEF PointsOf

\* The points of the courses are all that counts of a function.
LEMMA SameWeight ==
  ASSUME NEW f, NEW g, NEW courses, \A c \in courses : f[c] = g[c]
  PROVE  Weighted(f, courses) = Weighted(g, courses)
<1>1. [c \in courses |-> f[c] * CreditHours[c]] = [c \in courses |-> g[c] * CreditHours[c]]
  OBVIOUS
<1> QED BY <1>1 DEF Weighted

\* There are credits exactly where there are courses, as each has some.
LEMMA CreditsCount ==
  ASSUME NEW f, NEW courses \in SUBSET Taken
  PROVE  LET gpa == Weighted(f, courses)
         IN  /\ gpa # Null /\ gpa.credits \in Nat
             /\ gpa.credits = 0 <=> courses = {}
<1>1. IsFiniteSet(courses) /\ CreditHours \in [Taken -> Nat \ {0}]
  BY TranscriptsAssumption, FS_Subset
<1> DEFINE total == SumFunctionOnSet(CreditHours, courses)
<1>2. total \in Nat
  <2>1. \A c \in courses : CreditHours[c] \in Nat
    BY <1>1
  <2>2. SumFunctionOnSet(CreditHours, courses) \in Nat
    BY <1>1, <2>1, SumNat, Zenon
  <2> QED BY <2>2
<1>3. courses = {} => total = 0
  BY SumEmpty
<1>4. ASSUME NEW c \in courses PROVE total # 0
  <2>1. total = CreditHours[c] + SumFunctionOnSet(CreditHours, courses \ {c})
    BY <1>1, <1>4, SumRemove
  <2>2. SumFunctionOnSet(CreditHours, courses \ {c}) \in Nat
    BY <1>1, SumNat, FS_Subset
  <2>3. CreditHours[c] \in Nat /\ CreditHours[c] > 0
    BY <1>1, <1>4
  <2> HIDE DEF total
  <2> QED BY <2>1, <2>2, <2>3
<1>5. Weighted(f, courses).credits = total
  BY DEF Weighted
<1>6. Weighted(f, courses) # Null
  BY DEF Weighted, Null
<1> HIDE DEF total
<1> QED BY <1>2, <1>3, <1>4, <1>5, <1>6

\* What a semester is shown with, when its cached GPA is not out of date.
LEMMA ShownIs ==
  ASSUME TranscriptsInv, NEW t \in Fresh
  PROVE  LET one == {c \in Printed(Semesters) : book[c].semester = t}
         IN  /\ DOMAIN computeSemesterGpa(t) = one
             /\ \A c \in one : computeSemesterGpa(t)[c] = PointsOf(Printed(Semesters))[c]
             /\ GpaOr(Null, Weighted(computeSemesterGpa(t), DOMAIN computeSemesterGpa(t)))
                  = IF one = {} THEN Null ELSE Weighted(PointsOf(Printed(Semesters)), one)
<1> DEFINE printed == Printed(Semesters)
           one == {c \in printed : book[c].semester = t}
<1>1. computeSemesterGpa(t) = GpaNow(t)
  BY DEF Fresh
<1>2. DOMAIN computeSemesterGpa(t) = one
  BY <1>1, SameCourses DEF Counted
<1>3. \A c \in one : computeSemesterGpa(t)[c] = PointsOf(printed)[c]
  <2> SUFFICES ASSUME NEW c \in one PROVE computeSemesterGpa(t)[c] = PointsOf(printed)[c]
    OBVIOUS
  <2>1. c \in Counted(t) /\ c \in printed
    BY <1>1, <1>2 DEF Counted
  <2>2. computeSemesterGpa(t)[c] = PointsOf(Counted(t))[c]
    BY <1>1, <2>1, SameCourses
  <2> HIDE DEF one, printed
  <2> QED BY <2>1, <2>2 DEF PointsOf
<1>4. one \in SUBSET Taken
  BY DEF Printed, Enrollments
<1> HIDE DEF one, printed
<1>5. Weighted(computeSemesterGpa(t), one) = Weighted(PointsOf(printed), one)
  BY <1>3, SameWeight
<1>6. GpaOr(Null, Weighted(PointsOf(printed), one))
        = IF one = {} THEN Null ELSE Weighted(PointsOf(printed), one)
  BY <1>4, CreditsCount DEF GpaOr
<1> QED BY <1>2, <1>3, <1>5, <1>6 DEF one, printed

\* Each semester of an enrollment is shown.
LEMMA ShownSemesters ==
  ASSUME NEW t
  PROVE  /\ t \in DOMAIN getTranscript.semesters
              <=> \E c \in Taken : book[c].status # "NONE" /\ book[c].semester = t
         /\ t \in DOMAIN getTranscript.semesters =>
              getTranscript.semesters[t]
                = GpaOr(Null, Weighted(computeSemesterGpa(t), DOMAIN computeSemesterGpa(t)))
BY DEF getTranscript

\* When no cached GPA is out of date the total is of the courses printed.
LEMMA ShownTotal ==
  ASSUME TranscriptsInv, Fresh = Semesters
  PROVE  getTranscript.cgpa
           = GpaOr(Null, Weighted(PointsOf(Printed(Semesters)), Printed(Semesters)))
<1> DEFINE semesterIds == {book[c].semester : c \in {d \in Taken : book[d].status # "NONE"}}
           graded(t)   == DOMAIN computeSemesterGpa(t)
           gpa         == [t \in semesterIds |->
                             GpaOr(Null, Weighted(computeSemesterGpa(t), graded(t)))]
           completed   == {t \in semesterIds : gpa[t] # Null}
           courses     == UNION {graded(t) : t \in completed}
           point       == [c \in courses |-> computeSemesterGpa(book[c].semester)[c]]
           printed     == Printed(Semesters)
           Of(t)       == {c \in printed : book[c].semester = t}
<1>1. getTranscript.cgpa = GpaOr(Null, Weighted(point, courses))
  BY DEF getTranscript
<1>2. semesterIds \subseteq Fresh
  BY DEF TranscriptsInv, TranscriptsTypeOK, Sheet, NotOffered
<1>3. \A t \in semesterIds : graded(t) = Of(t) /\ (gpa[t] # Null <=> Of(t) # {})
  <2> SUFFICES ASSUME NEW t \in semesterIds
               PROVE  graded(t) = Of(t) /\ (gpa[t] # Null <=> Of(t) # {})
    OBVIOUS
  <2>1. /\ graded(t) = Of(t)
        /\ gpa[t] = IF Of(t) = {} THEN Null ELSE Weighted(PointsOf(printed), Of(t))
    <3>1. t \in Fresh
      BY <1>2
    <3>2. gpa[t] = GpaOr(Null, Weighted(computeSemesterGpa(t), DOMAIN computeSemesterGpa(t)))
      OBVIOUS
    <3> HIDE DEF gpa, semesterIds
    <3> QED BY <3>1, <3>2, ShownIs
  <2>2. Weighted(PointsOf(printed), Of(t)) # Null
    <3>1. Of(t) \in SUBSET Taken
      BY DEF Printed, Enrollments
    <3> HIDE DEF printed, Of
    <3> QED BY <3>1, CreditsCount
  <2> HIDE DEF gpa, graded, semesterIds, Of, printed
  <2> QED BY <2>1, <2>2
<1>4. printed \subseteq {c \in Taken : book[c].semester \in semesterIds}
  BY DEF Printed, Enrollments
<1>5. courses = printed
  <2> HIDE DEF semesterIds, graded, gpa, printed
  <2>1. \A c \in printed : book[c].semester \in completed /\ c \in graded(book[c].semester)
    BY <1>3, <1>4
  <2>2. \A t \in completed : graded(t) \subseteq printed
    BY <1>3
  <2> HIDE DEF completed
  <2> QED BY <2>1, <2>2
<1>6. \A c \in printed : point[c] = PointsOf(printed)[c]
  <2> SUFFICES ASSUME NEW c \in printed PROVE point[c] = PointsOf(printed)[c]
    OBVIOUS
  <2>1. point[c] = computeSemesterGpa(book[c].semester)[c]
    <3> HIDE DEF courses, printed
    <3> QED BY <1>5
  <2>2. book[c].semester \in Fresh
    <3> HIDE DEF semesterIds, printed
    <3> QED BY <1>2, <1>4
  <2>3. computeSemesterGpa(book[c].semester)[c] = PointsOf(Printed(Semesters))[c]
    BY <2>2, ShownIs
  <2> QED BY <2>1, <2>3
<1> HIDE DEF courses, point, printed
<1>7. Weighted(point, courses) = Weighted(PointsOf(printed), printed)
  BY <1>5, <1>6, SameWeight
<1> QED BY <1>1, <1>7 DEF printed

\* The transcript a student is shown and the official one are made from the same
\* grades: a semester whose cached GPA is not out of date is printed exactly when
\* it is shown with a GPA, and with that GPA; when none is, the totals agree, but
\* for the null of the one and the 0 of the other where nothing is graded; the
\* official one of one semester is that part of the whole, and a semester printed
\* is of courses whose result sheet can be had: for any sections, exams, marks and
\* credit hours (result.service.ts:381, transcript.service.ts:69).
THEOREM TranscriptsNeverDisagree == TranscriptsSpec => []TranscriptsAgree
<1>1. ASSUME TranscriptsInv PROVE TranscriptsAgree
  <2> USE <1>1
  <2> DEFINE official == buildTranscriptData(Semesters)
             printed == Printed(Semesters)
             Of(t) == {c \in printed : book[c].semester = t}
  <2>1. /\ DOMAIN official.semesters = {book[c].semester : c \in printed}
        /\ \A t \in DOMAIN official.semesters :
             official.semesters[t] = Weighted(PointsOf(printed), Of(t))
        /\ \A t : t \in DOMAIN official.semesters <=> Of(t) # {}
    <3>1. official.semesters = [t \in {book[c].semester : c \in printed} |->
                                  Weighted(PointsOf(printed), Of(t))]
      BY OfficialIs
    <3> HIDE DEF official, printed
    <3> QED BY <3>1
  <2>2. printed \in SUBSET Taken /\ \A t : Of(t) \in SUBSET Taken
    BY DEF Printed, Enrollments
  <2>3. ASSUME NEW t \in Fresh
        PROVE  LET shown == getTranscript
               IN  /\ t \in DOMAIN official.semesters
                        <=> t \in DOMAIN shown.semesters /\ shown.semesters[t] # Null
                   /\ t \in DOMAIN official.semesters =>
                        shown.semesters[t] = official.semesters[t]
    <3>1. Of(t) # {} => t \in DOMAIN getTranscript.semesters
      <4>1. \A c \in printed : c \in Taken /\ book[c].status # "NONE"
        BY DEF Printed, Enrollments
      <4> HIDE DEF printed
      <4> QED BY <4>1, ShownSemesters
    <3>2. t \in DOMAIN getTranscript.semesters =>
            getTranscript.semesters[t]
              = IF Of(t) = {} THEN Null ELSE Weighted(PointsOf(printed), Of(t))
      BY <2>3, ShownSemesters, ShownIs
    <3>3. Weighted(PointsOf(printed), Of(t)) # Null
      <4> HIDE DEF printed, Of
      <4> QED BY <2>2, CreditsCount
    <3> HIDE DEF official, printed, Of
    <3> QED BY <2>1, <3>1, <3>2, <3>3
  <2>4. ASSUME Fresh = Semesters
        PROVE  LET shown == getTranscript
               IN  /\ shown.cgpa = Null <=> official.totalCreditsEarned = 0
                   /\ shown.cgpa # Null => shown.cgpa = official.cumulativeGpa
                   /\ shown.cgpa = Null => official.cumulativeGpa = Zero
                   /\ ~official.found => shown.cgpa = Null
    <3> DEFINE total == Weighted(PointsOf(printed), printed)
    <3>1. total # Null /\ total.credits \in Nat /\ (total.credits = 0 <=> printed = {})
      <4> HIDE DEF printed
      <4> QED BY <2>2, CreditsCount
    <3>2. getTranscript.cgpa = GpaOr(Null, total)
      BY <2>4, ShownTotal
    <3>3. /\ official.cumulativeGpa = GpaOr(Zero, total)
          /\ official.totalCreditsEarned = total.credits
      BY OfficialIs
    <3>4. ~official.found => printed = {}
      BY OfficialIs DEF Printed
    <3> HIDE DEF official, printed, total
    <3> QED BY <3>1, <3>2, <3>3, <3>4 DEF GpaOr
  <2>5. ASSUME NEW t \in Semesters
        PROVE  LET single == buildTranscriptData({t})
               IN  /\ DOMAIN single.semesters = {t} \cap DOMAIN official.semesters
                   /\ t \in DOMAIN official.semesters =>
                        single.cumulativeGpa = official.semesters[t]
    <3> DEFINE one == Of(t)
    <3>1. Printed({t}) = one
      BY DEF Printed, Enrollments
    <3>2. /\ DOMAIN buildTranscriptData({t}).semesters = {book[c].semester : c \in one}
          /\ buildTranscriptData({t}).cumulativeGpa
               = GpaOr(Zero, Weighted(PointsOf(one), one))
      BY <3>1, OfficialIs
    <3>3. Weighted(PointsOf(one), one) = Weighted(PointsOf(printed), one)
      <4>1. \A c \in one : PointsOf(one)[c] = PointsOf(printed)[c]
        BY DEF PointsOf
      <4> HIDE DEF one, printed
      <4> QED BY <4>1, SameWeight
    <3>4. one # {} => Weighted(PointsOf(one), one).credits > 0
      <4>1. one \in SUBSET Taken
        BY <2>2
      <4> HIDE DEF one
      <4> QED BY <4>1, CreditsCount
    <3>5. {book[c].semester : c \in one} = {t} \cap {book[c].semester : c \in printed}
      OBVIOUS
    <3>6. t \in DOMAIN official.semesters => one # {}
      BY <2>1
    <3> HIDE DEF printed, official, one
    <3> QED BY <2>1, <3>2, <3>3, <3>4, <3>5, <3>6 DEF GpaOr, one
  <2>6. ASSUME NEW t, NEW c \in DOMAIN GpaNow(t) PROVE MayPrintSheet(c)
    <3>1. c \in Printed(Semesters)
      BY <2>6, SameCourses DEF Counted
    <3> QED BY <3>1 DEF Printed, Enrollments, MayPrintSheet
  <2> HIDE DEF official
  <2> QED BY <2>3, <2>4, <2>5, <2>6 DEF TranscriptsAgree, official
<1> QED BY <1>1, TranscriptsInvariant, PTL

-----------------------------------------------------------------------------
(***************************************************************************)
(* The billing arithmetic (BillingLaws).                                   *)
(***************************************************************************)

\* Calls are made on a schedule whose installments are paid up to their amount,
\* with arguments that are numbers.
CallTypes ==
  /\ call.op = "pay" => call.money \in Nat /\ call.refund \in Nat
  /\ call.op = "adjust" => call.delta \in Int
  /\ call.op = "issue" => call.total \in Nat /\ call.plan \in Plans /\ validatePlan(call.plan)
  /\ call.op = "dates" => call.firstDue \in Nat /\ call.interval \in Nat
  /\ call.op = "waive" => call.tuition \in Nat /\ call.waivers \in Waivers \X Waivers
  /\ call.op = "bill" => /\ call.policies \in RateCards /\ call.credits \in Nat
                         /\ call.onlyTuition \in BOOLEAN

LawsInv == schedule \in ValidSchedules /\ CallTypes

LEMMA LawsInvariant == Spec => []LawsInv
<1>1. Init => LawsInv
  BY DEF Init, LawsInv, CallTypes
<1>2. LawsInv /\ [Next]_vars => LawsInv'
  <2> SUFFICES ASSUME LawsInv, [Next]_vars PROVE LawsInv'
    OBVIOUS
  <2> USE BillingLawsAssumption
  <2>1. CASE UNCHANGED vars
    BY <2>1 DEF vars, LawsInv, CallTypes
  <2>2. CASE Next
    <3>1. schedule' \in ValidSchedules
      BY <2>2 DEF Next, LawsInv
    <3>2. MaxMoney \in Nat
      <4>1. N * MaxAmount \in Nat
        BY NAssumption
      <4> QED BY <4>1 DEF MaxMoney
    <3>3. CallTypes' => LawsInv'
      BY <3>1 DEF LawsInv
    <3>4. CASE CallPay
      <4>1. PICK money \in 0..MaxMoney : \E refund \in 0..money :
              call' = [op |-> "pay", money |-> money, refund |-> refund]
        BY <3>4 DEF CallPay
      <4>2. call'.op = "pay" /\ call'.money \in Nat /\ call'.refund \in Nat
        BY <3>2, <4>1
      <4> QED BY <3>3, <4>2 DEF CallTypes
    <3>5. CASE CallAdjust
      <4>1. PICK change \in (-MaxMoney)..MaxMoney : call' = [op |-> "adjust", delta |-> change]
        BY <3>5 DEF CallAdjust
      <4>2. call'.op = "adjust" /\ call'.delta \in Int
        BY <3>2, <4>1
      <4> QED BY <3>3, <4>2 DEF CallTypes
    <3>6. CASE CallIssue
      <4>1. PICK total \in Totals, plan \in Plans :
              validatePlan(plan) /\ call' = [op |-> "issue", total |-> total, plan |-> plan]
        BY <3>6 DEF CallIssue
      <4>2. /\ call'.op = "issue" /\ call'.total \in Nat
            /\ call'.plan = plan /\ validatePlan(plan)
        BY <4>1
      <4> QED BY <3>3, <4>2 DEF CallTypes
    <3>7. CASE CallDueDates
      <4>1. PICK firstDue \in 0..12, interval \in 0..4 :
              call' = [op |-> "dates", firstDue |-> firstDue, interval |-> interval]
        BY <3>7 DEF CallDueDates
      <4>2. call'.op = "dates" /\ call'.firstDue \in Nat /\ call'.interval \in Nat
        BY <4>1
      <4> QED BY <3>3, <4>2 DEF CallTypes
    <3>8. CASE CallWaive
      <4>1. PICK tuition \in Totals, v \in Waivers, w \in Waivers :
              call' = [op |-> "waive", tuition |-> tuition, waivers |-> <<v, w>>]
        BY <3>8 DEF CallWaive
      <4>2. call'.op = "waive" /\ call'.tuition \in Nat /\ call'.waivers \in Waivers \X Waivers
        BY <4>1
      <4> QED BY <3>3, <4>2 DEF CallTypes
    <3>9. CASE CallBill
      <4>1. PICK tariff \in RateCards, c \in Contexts, units \in 0..2, tuition \in BOOLEAN :
              call' = [op |-> "bill", policies |-> tariff, ctx |-> c, credits |-> units,
                       onlyTuition |-> tuition]
        BY <3>9 DEF CallBill
      <4>2. /\ call'.op = "bill" /\ call'.policies \in RateCards
            /\ call'.credits \in Nat /\ call'.onlyTuition \in BOOLEAN
        BY <4>1
      <4> QED BY <3>3, <4>2 DEF CallTypes
    <3> QED BY <2>2, <3>4, <3>5, <3>6, <3>7, <3>8, <3>9 DEF Next
  <2> QED BY <2>1, <2>2
<1> QED BY <1>1, <1>2, PTL DEF Spec

\* The sum of a function over the installments is its total.
LEMMA SumIsTotal ==
  ASSUME NEW D, NEW f \in [Numbers -> D]
  PROVE  Sum(f) = Total(f)
BY DEF Sum, SumFunction, Total

\* What is owed on a schedule.
LEMMA BalanceTypes ==
  ASSUME NEW s \in ValidSchedules
  PROVE  /\ s \in Schedules /\ Balances(s) \in [Numbers -> Nat]
         /\ \A i \in Numbers : /\ s[i] \in [amount : Nat, paid : Nat]
                               /\ Balances(s)[i] = s[i].amount - s[i].paid
BY BillingLawsAssumption DEF ValidSchedules, Schedules, Balances

-----------------------------------------------------------------------------
LEMMA TakesAreWaterfall ==
  ASSUME NEW room \in [Numbers -> Nat], NEW money \in Nat
  PROVE  /\ IsWaterfall(Takes(room, money), room, money)
         /\ Takes(room, money) \in [Numbers -> Nat]
<1> DEFINE takes == Takes(room, money)
<1>1. takes \in [Numbers -> Nat] /\ \A i \in Numbers : takes[i] <= Positive(room[i])
  BY TakesBounds
<1>2. \A i \in Numbers : takes[i] \in 0..room[i]
  BY <1>1 DEF Positive
<1>3. \A i, j \in Numbers : i < j /\ takes[j] > 0 => takes[i] = room[i]
  BY TakesInOrder
<1>4. Sum(takes) = Least(money, Sum(room))
  <2>1. Total(takes) = Least(money, Total(room))
    BY TakesTotal
  <2>2. Sum(takes) = Total(takes) /\ Sum(room) = Total(room)
    BY <1>1, SumIsTotal
  <2> QED BY <2>1, <2>2
<1> HIDE DEF takes
<1> QED BY <1>1, <1>2, <1>3, <1>4 DEF IsWaterfall, takes

\* A refund takes back the newest part of what was allocated.
LEMMA ReversalIsTail ==
  ASSUME NEW taken \in [Numbers -> Nat], NEW refund \in Nat
  PROVE  LET reversed == reverseAllocations(taken, refund)
         IN  /\ reversed \in [Numbers -> Nat]
             /\ \A i \in Numbers : reversed[i] <= taken[i]
             /\ \A i, j \in Numbers : i < j /\ reversed[i] > 0 => reversed[j] = taken[j]
             /\ Total(reversed) = Least(refund, Total(taken))
             /\ CanReverse(taken, refund) <=> refund <= Total(taken)
<1> DEFINE room == Mirror(taken)
           takes == Takes(room, refund)
           reversed == Mirror(takes)
<1>1. /\ room \in [Numbers -> Nat] /\ Total(room) = Total(taken)
      /\ \A i \in Numbers : N + 1 - i \in Numbers /\ room[N + 1 - i] = taken[i]
  <2>1. taken \in [Numbers -> Int]
    OBVIOUS
  <2> QED BY <2>1, MirrorType, TotalMirror
<1>2. /\ takes \in [Numbers -> Nat] /\ \A i \in Numbers : takes[i] <= room[i]
      /\ \A i, j \in Numbers : i < j /\ takes[j] > 0 => takes[i] = room[i]
  <2>1. \A i \in Numbers : Positive(room[i]) = room[i]
    <3>1. \A i \in Numbers : room[i] \in Nat
      BY <1>1
    <3> HIDE DEF room
    <3> QED BY <3>1 DEF Positive
  <2>2. takes \in [Numbers -> Nat] /\ \A i \in Numbers : takes[i] <= Positive(room[i])
    <3>1. room \in [Numbers -> Int]
      BY <1>1
    <3> QED BY <3>1, TakesBounds
  <2>3. \A i, j \in Numbers : i < j /\ takes[j] > 0 => takes[i] = room[i]
    BY <1>1, TakesInOrder
  <2> QED BY <2>1, <2>2, <2>3
<1>3. /\ Total(takes) = Least(refund, Total(taken))
      /\ Left(room, refund)[N] = refund - Least(refund, Total(taken))
  BY <1>1, TakesTotal
<1>4. /\ reversed \in [Numbers -> Nat] /\ Total(reversed) = Total(takes)
      /\ \A i \in Numbers : reversed[i] = takes[N + 1 - i]
  <2>1. takes \in [Numbers -> Int]
    BY <1>2
  <2> QED BY <1>2, <2>1, MirrorType, TotalMirror
<1>5. Total(taken) \in Nat
  BY TotalType
<1>6. CanReverse(taken, refund) <=> refund <= Total(taken)
  BY <1>3, <1>5 DEF CanReverse, Least
<1>7. reverseAllocations(taken, refund) = reversed
  BY DEF reverseAllocations
<1> HIDE DEF takes, room, reversed
<1>8. \A i \in Numbers : reversed[i] <= taken[i]
  BY <1>1, <1>2, <1>4
<1>9. ASSUME NEW i \in Numbers, NEW j \in Numbers, i < j, reversed[i] > 0
      PROVE  reversed[j] = taken[j]
  <2>1. N + 1 - j < N + 1 - i
    BY <1>9, NAssumption DEF Numbers
  <2>2. takes[N + 1 - j] = room[N + 1 - j]
    BY <1>1, <1>2, <1>4, <1>9, <2>1
  <2> QED BY <1>1, <1>4, <2>2
<1> QED BY <1>3, <1>4, <1>6, <1>7, <1>8, <1>9

\* A payment takes the oldest installments in full before a newer one gets
\* anything, never more than is owed, and is allocated but for the excess; a
\* refund of a part leaves the invoice as if that much less had been paid, and is
\* refused exactly when it exceeds what was allocated: for any number of
\* installments and any amounts (billing.ts:346, billing.ts:408).
THEOREM PaymentsFillInOrder == Spec => []PaymentsAreWaterfalls
<1>1. ASSUME LawsInv PROVE PaymentsAreWaterfalls
  <2> SUFFICES ASSUME call.op = "pay" PROVE PaymentsAreWaterfalls
    BY DEF PaymentsAreWaterfalls
  <2> DEFINE room == Balances(schedule)
             paid == allocatePayment(schedule, call.money)
             taken == Takes(room, call.money)
             reversed == reverseAllocations(taken, call.refund)
             kept == [i \in Numbers |-> taken[i] - reversed[i]]
             rest == Sum(taken) - call.refund
  <2>1. room \in [Numbers -> Nat] /\ call.money \in Nat /\ call.refund \in Nat
    BY <1>1, BalanceTypes DEF LawsInv, CallTypes
  <2>2. /\ taken \in [Numbers -> Nat] /\ IsWaterfall(taken, room, call.money)
    BY <2>1, TakesAreWaterfall
  <2>3. /\ paid.allocations = taken /\ paid.excess = Left(room, call.money)[N]
    BY DEF allocatePayment
  <2>4. Sum(taken) = Total(taken) /\ Total(taken) \in Nat
        /\ Sum(room) = Total(room) /\ Total(room) \in Nat
    BY <2>1, <2>2, SumIsTotal, TotalType
  <2>5. paid.excess = call.money - Sum(taken)
    BY <2>1, <2>3, <2>4, TakesTotal
  <2>6. CanReverse(taken, call.refund) <=> call.refund <= Sum(taken)
    BY <2>1, <2>2, <2>4, ReversalIsTail
  <2>7. ASSUME call.refund <= Sum(taken) PROVE kept = Takes(room, rest)
    <3> DEFINE back == Takes(room, rest)
    <3>1. rest \in Nat
      BY <2>1, <2>4, <2>7
    <3>2. back \in [Numbers -> Nat] /\ IsWaterfall(back, room, rest)
      BY <2>1, <3>1, TakesAreWaterfall
    <3>3. /\ reversed \in [Numbers -> Nat] /\ \A i \in Numbers : reversed[i] <= taken[i]
          /\ \A i, j \in Numbers : i < j /\ reversed[i] > 0 => reversed[j] = taken[j]
          /\ Total(reversed) = Least(call.refund, Total(taken))
      BY <2>1, <2>2, ReversalIsTail
    <3> HIDE DEF room, taken, reversed, back
    <3>4. kept \in [Numbers -> Nat] /\ \A i \in Numbers : taken[i] = kept[i] + reversed[i]
      BY <2>2, <3>3
    <3>5. \A i \in Numbers : kept[i] = taken[i] - reversed[i]
      OBVIOUS
    <3> HIDE DEF kept
    <3>6. \A i \in Numbers : taken[i] <= room[i] /\ room[i] \in Nat
      BY <2>1, <2>2 DEF IsWaterfall
    <3>7. \A i \in Numbers : kept[i] <= room[i]
      BY <2>2, <3>3, <3>4, <3>6
    <3>8. ASSUME NEW i \in Numbers, NEW j \in Numbers, i < j, kept[j] > 0
          PROVE  kept[i] = room[i]
      <4>1. taken[j] > 0 /\ reversed[j] # taken[j]
        BY <2>2, <3>3, <3>4, <3>8
      <4>2. taken[i] = room[i]
        BY <2>2, <3>8, <4>1 DEF IsWaterfall
      <4>3. ~(reversed[i] > 0)
        BY <3>3, <3>8, <4>1
      <4> QED BY <3>3, <3>4, <3>6, <4>2, <4>3
    <3>9. Total(kept) = Total(back)
      <4>1. Total(taken) = Total(kept) + Total(reversed)
        <5>1. taken \in [Numbers -> Int] /\ kept \in [Numbers -> Int]
              /\ reversed \in [Numbers -> Int]
          BY <2>2, <3>3, <3>4
        <5> QED BY <3>4, <5>1, TotalPlus
      <4>2. Total(kept) \in Nat /\ Total(reversed) = call.refund
        BY <2>4, <2>7, <3>3, <3>4, TotalType DEF Least
      <4>3. Total(back) = Least(rest, Total(room))
        BY <2>4, <3>2, SumIsTotal DEF IsWaterfall
      <4>4. Total(taken) <= Total(room)
        BY <2>1, <2>2, <3>6, TotalMonotone
      <4>5. Total(back) = Total(taken) - call.refund
        BY <2>1, <2>4, <4>3, <4>4 DEF Least
      <4> QED BY <2>1, <2>4, <4>1, <4>2, <4>5
    <3>10. \A i \in Numbers : back[i] <= room[i]
      BY <3>2, <3>6 DEF IsWaterfall
    <3>11. \A i, j \in Numbers : i < j /\ back[j] > 0 => back[i] = room[i]
      BY <3>2 DEF IsWaterfall
    <3>12. kept = back
      BY <3>2, <3>4, <3>6, <3>7, <3>8, <3>9, <3>10, <3>11, OneWaterfall
    <3> QED BY <3>12 DEF back
  <2>8. allocatePayment(schedule, rest).allocations = Takes(room, rest)
    BY DEF allocatePayment
  <2> HIDE DEF room, paid, taken, reversed, kept, rest
  <2> QED BY <2>2, <2>3, <2>5, <2>6, <2>7, <2>8
          DEF PaymentsAreWaterfalls, room, paid, taken, reversed, kept, rest
<1> QED BY <1>1, LawsInvariant, PTL

-----------------------------------------------------------------------------
\* A correction changes what is owed by its amount to the last unit and no
\* installment to less than is paid on it, cuts one only when all later ones are
\* settled, and is refused exactly when the debt is smaller: for any number of
\* installments and any amounts (billing.ts:305).
THEOREM CorrectionsKeepPaidMoney == Spec => []DeltaKeepsPaidMoney
<1>1. ASSUME LawsInv PROVE DeltaKeepsPaidMoney
  <2> SUFFICES ASSUME call.op = "adjust" PROVE DeltaKeepsPaidMoney
    BY DEF DeltaKeepsPaidMoney
  <2> DEFINE s == schedule
             change == call.delta
             room == Balances(s)
             cut == reverseAllocations(room, -change)
             new == applyDelta(s, change)
  <2>1. change \in Int /\ s \in Schedules /\ room \in [Numbers -> Nat]
        /\ \A i \in Numbers : /\ s[i].amount \in Nat /\ s[i].paid \in Nat
                              /\ room[i] = s[i].amount - s[i].paid
    BY <1>1, BalanceTypes DEF LawsInv, CallTypes
  <2>2. Sum(room) = Total(room) /\ Total(room) \in Nat
    BY <2>1, SumIsTotal, TotalType
  <2>3. CanApplyDelta(s, change) <=> change >= 0 \/ CanReverse(room, -change)
    BY DEF CanApplyDelta, CanReverse
  <2>4. ~(change >= 0) =>
          /\ -change \in Nat /\ cut \in [Numbers -> Nat]
          /\ \A i, j \in Numbers : i < j /\ cut[i] > 0 => cut[j] = room[j]
          /\ CanReverse(room, -change) <=> -change <= Total(room)
    <3>1. SUFFICES ASSUME ~(change >= 0)
          PROVE  /\ -change \in Nat /\ cut \in [Numbers -> Nat]
                 /\ \A i, j \in Numbers : i < j /\ cut[i] > 0 => cut[j] = room[j]
                 /\ CanReverse(room, -change) <=> -change <= Total(room)
      OBVIOUS
    <3>2. -change \in Nat
      BY <2>1, <3>1
    <3> HIDE DEF room, change
    <3> QED BY <2>1, <3>2, ReversalIsTail
  <2>5. CanApplyDelta(s, change) <=> -change <= Sum(room)
    <3>1. change >= 0 => -change <= Total(room)
      BY <2>1, <2>2
    <3> HIDE DEF room, change
    <3> QED BY <2>2, <2>3, <2>4, <3>1
  <2>6. ASSUME CanApplyDelta(s, change)
        PROVE  /\ Sum(Amounts(new)) = Sum(Amounts(s)) + change
               /\ Paids(new) = Paids(s)
               /\ \A i \in Numbers : new[i].amount >= new[i].paid
               /\ \A i, j \in Numbers :
                    i < j /\ new[i].amount < s[i].amount => new[j].amount = new[j].paid
    <3>1. /\ new \in Schedules
          /\ \A i \in Numbers : /\ new[i].paid = s[i].paid
                                /\ s[i].paid <= s[i].amount => new[i].paid <= new[i].amount
          /\ Total(Amounts(new)) = Total(Amounts(s)) + change
      BY <2>1, <2>6, DeltaExact
    <3>2. new = IF change >= 0 THEN [s EXCEPT ![N].amount = @ + change]
                ELSE [i \in Numbers |-> [s[i] EXCEPT !.amount = @ - cut[i]]]
      BY DEF applyDelta, reverseAllocations
    <3> HIDE DEF new, cut, room, change, s
    <3>3. Sum(Amounts(new)) = Sum(Amounts(s)) + change
      <4>1. Amounts(new) \in [Numbers -> Nat] /\ Amounts(s) \in [Numbers -> Nat]
        BY <2>1, <3>1, ScheduleTypes
      <4>2. Sum(Amounts(new)) = Total(Amounts(new)) /\ Sum(Amounts(s)) = Total(Amounts(s))
        BY <4>1, SumIsTotal
      <4> QED BY <3>1, <4>2
    <3>4. Paids(new) = Paids(s)
      BY <3>1 DEF Paids
    <3>5. \A i \in Numbers : /\ new[i].amount \in Nat /\ new[i].paid \in Nat
                             /\ s[i].paid <= s[i].amount
      <4>1. \A i \in Numbers : new[i].amount \in Nat /\ new[i].paid \in Nat
        BY <3>1 DEF Schedules
      <4>2. \A i \in Numbers : room[i] \in Nat
        BY <2>1
      <4> QED BY <2>1, <4>1, <4>2
    <3>6. \A i \in Numbers : new[i].amount >= new[i].paid
      BY <3>1, <3>5
    <3>7. ASSUME NEW i \in Numbers, NEW j \in Numbers, i < j, new[i].amount < s[i].amount
          PROVE  new[j].amount = new[j].paid
      <4>1. CASE change >= 0
        <5>1. \A k \in Numbers : new[k].amount >= s[k].amount
          <6>1. \A k \in Numbers : s[k] \in [amount : Nat, paid : Nat]
            BY <2>1 DEF Schedules
          <6> QED BY <2>1, <3>2, <4>1, <6>1 DEF Schedules
        <5> QED BY <2>1, <3>5, <3>7, <5>1
      <4>2. CASE ~(change >= 0)
        <5>1. \A k \in Numbers : new[k] = [s[k] EXCEPT !.amount = @ - cut[k]]
          BY <3>2, <4>2
        <5>2. \A k \in Numbers : new[k].amount = s[k].amount - cut[k]
          <6>1. \A k \in Numbers : s[k] \in [amount : Nat, paid : Nat]
            BY <2>1 DEF Schedules
          <6> QED BY <5>1, <6>1
        <5>3. cut[i] > 0
          BY <2>1, <2>4, <3>7, <4>2, <5>2
        <5>4. cut[j] = s[j].amount - s[j].paid
          BY <2>1, <2>4, <3>7, <4>2, <5>3
        <5> QED BY <2>1, <3>1, <5>2, <5>4
      <4> QED BY <4>1, <4>2
    <3> QED BY <3>3, <3>4, <3>6, <3>7
  <2> HIDE DEF s, change, room, cut, new
  <2> QED BY <2>5, <2>6 DEF DeltaKeepsPaidMoney, s, change, room, new
<1> QED BY <1>1, LawsInvariant, PTL

-----------------------------------------------------------------------------
\* The last installment takes what the others leave.
LEMMA LastAbsorbs ==
  ASSUME NEW f \in [Numbers -> Int], NEW g \in [Numbers -> Int], g[N] = 0,
         \A i \in Numbers : i # N => f[i] = g[i]
  PROVE  Total(f) = Total(g) + f[N]
<1>1. N \in Numbers /\ IsFiniteSet(Numbers)
  BY NAssumption, NumbersFinite DEF Numbers
<1>2. SumFunctionOnSet(f, Numbers) = SumFunctionOnSet(g, Numbers) - g[N] + f[N]
  <2>1. /\ \A i \in Numbers : g[i] \in Int /\ f[i] \in Int
        /\ \A i \in Numbers \ {N} : g[i] = f[i]
    OBVIOUS
  <2> QED BY <1>1, <2>1, SumChange
<1>3. Total(g) \in Int /\ f[N] \in Int
  BY <1>1, TotalType
<1> QED BY <1>2, <1>3 DEF Total

\* Percentages of a whole, rounded down and without the last, are a part of it.
LEMMA SharesWithin ==
  ASSUME NEW total \in Nat, NEW percents \in [Numbers -> Nat], Total(percents) = 100
  PROVE  LET shares == [i \in Numbers |-> IF i = N THEN 0 ELSE (total * percents[i]) \div 100]
         IN  shares \in [Numbers -> Nat] /\ Total(shares) <= total
<1> DEFINE shares == [i \in Numbers |-> IF i = N THEN 0 ELSE (total * percents[i]) \div 100]
           scaled == [i \in Numbers |-> 100 * shares[i]]
           whole  == [i \in Numbers |-> total * percents[i]]
<1>1. whole \in [Numbers -> Nat]
  OBVIOUS
<1>2. ASSUME NEW i \in Numbers PROVE shares[i] \in Nat /\ 100 * shares[i] <= whole[i]
  <2>1. total * percents[i] \in Nat /\ 100 \in Nat \ {0}
    OBVIOUS
  <2>2. /\ (total * percents[i]) \div 100 \in Nat
        /\ 100 * ((total * percents[i]) \div 100) <= total * percents[i]
    BY <2>1, Quotient
  <2> QED BY <2>1, <2>2
<1>3. shares \in [Numbers -> Nat]
  BY <1>2
<1>4. \A i \in Numbers : scaled[i] = 100 * shares[i] /\ whole[i] = total * percents[i]
  OBVIOUS
<1> HIDE DEF shares
<1>5. scaled \in [Numbers -> Nat]
  BY <1>3
<1> HIDE DEF scaled, whole
<1>6. Total(scaled) <= Total(whole)
  BY <1>1, <1>2, <1>4, <1>5, TotalMonotone
<1>7. Total(scaled) = 100 * Total(shares) /\ Total(whole) = total * Total(percents)
  <2>1. IsFiniteSet(Numbers) /\ 100 \in Int /\ total \in Int
    BY NumbersFinite
  <2>2. SumFunctionOnSet(scaled, Numbers) = 100 * SumFunctionOnSet(shares, Numbers)
    BY <1>3, <1>4, <2>1, SumTimes
  <2>3. SumFunctionOnSet(whole, Numbers) = total * SumFunctionOnSet(percents, Numbers)
    BY <1>4, <2>1, SumTimes
  <2> QED BY <2>2, <2>3 DEF Total
<1>8. Total(shares) \in Nat
  BY <1>3, TotalType
<1> QED BY <1>3, <1>6, <1>7, <1>8 DEF shares

\* Every plan that validatePlan accepts splits the payable amount exactly.
LEMMA SplitExact ==
  ASSUME NEW total \in Nat, NEW plan \in Plans, validatePlan(plan)
  PROVE  LET amounts == buildInstallments(total, plan)
         IN  amounts \in [Numbers -> Nat] /\ Total(amounts) = total
<1> DEFINE amounts == buildInstallments(total, plan)
           percents == plan.customPercents
           shares == [i \in Numbers |-> IF i = N THEN 0 ELSE (total * percents[i]) \div 100]
           advance == IF plan.advanceType = "PERCENT" THEN (total * plan.advance) \div 100
                                                      ELSE Least(plan.advance, total)
<1>1. /\ plan.advance \in Nat /\ percents \in Seq(Int)
      /\ plan.advanceType \in {"NONE", "PERCENT", "FIXED"}
  BY BillingLawsAssumption
<1>2. N \in Numbers /\ 1 \in Numbers /\ N \in Nat \ {0}
  BY NAssumption DEF Numbers
<1>3. CASE N = 1
  <2> DEFINE g == [i \in Numbers |-> 0]
  <2>1. amounts = [i \in Numbers |-> total]
    BY <1>3 DEF buildInstallments
  <2>2. amounts \in [Numbers -> Nat] /\ amounts[N] = total
        /\ \A i \in Numbers : i # N => amounts[i] = g[i]
    BY <1>2, <1>3, <2>1 DEF Numbers
  <2>3. g \in [Numbers -> Int] /\ g[N] = 0 /\ \A i \in Numbers : g[i] = 0
    BY <1>2
  <2> HIDE DEF amounts, g
  <2>4. Total(g) = 0
    BY <2>3, NumbersFinite, SumZero DEF Total
  <2>5. amounts \in [Numbers -> Int]
    BY <2>2
  <2>6. Total(amounts) = Total(g) + amounts[N]
    BY <2>2, <2>3, <2>5, LastAbsorbs
  <2> QED BY <2>2, <2>4, <2>6 DEF amounts
<1>4. CASE N # 1 /\ percents # <<>>
  <2>1. amounts = [i \in Numbers |-> IF i = N THEN total - Total(shares)
                                              ELSE (total * percents[i]) \div 100]
    BY <1>4 DEF buildInstallments
  <2>2. percents \in [Numbers -> Nat] /\ Total(percents) = 100
    <3>1. DOMAIN percents = Numbers /\ Total(percents) = 100 /\ \A i \in Numbers : percents[i] > 0
      BY <1>4 DEF validatePlan
    <3>2. percents \in [Numbers -> Int]
      BY <1>1, <3>1
    <3> HIDE DEF percents
    <3> QED BY <3>1, <3>2
  <2>3. shares \in [Numbers -> Nat] /\ Total(shares) <= total /\ Total(shares) \in Nat
    <3>1. shares \in [Numbers -> Nat] /\ Total(shares) <= total
      BY <2>2, SharesWithin
    <3> HIDE DEF shares
    <3> QED BY <3>1, TotalType
  <2>4. shares[N] = 0 /\ \A i \in Numbers : i # N => shares[i] = (total * percents[i]) \div 100
    BY <1>2
  <2> HIDE DEF amounts, shares, percents
  <2>5. /\ amounts[N] = total - Total(shares)
        /\ \A i \in Numbers : i # N => amounts[i] = shares[i]
    BY <1>2, <2>1, <2>4
  <2>6. amounts \in [Numbers -> Nat]
    <3>1. \A i \in Numbers : amounts[i] \in Nat
      BY <2>3, <2>5
    <3> QED BY <2>1, <3>1
  <2>7. Total(amounts) = Total(shares) + amounts[N]
    <3>1. amounts \in [Numbers -> Int] /\ shares \in [Numbers -> Int]
      BY <2>3, <2>6
    <3> QED BY <2>4, <2>5, <3>1, LastAbsorbs
  <2> QED BY <2>3, <2>5, <2>6, <2>7 DEF amounts
<1>5. CASE N # 1 /\ percents = <<>> /\ plan.advanceType # "NONE" /\ plan.advance # 0
  <2> DEFINE rest == total - advance
             split == equalSplit(rest, 2)
             others == 2..N
  <2>1. amounts = [i \in Numbers |-> IF i = 1 THEN advance ELSE split[i]]
    BY <1>5 DEF buildInstallments
  <2>2. advance \in Nat /\ rest \in Nat
    <3>1. CASE plan.advanceType = "PERCENT"
      <4>1. plan.advance \in 1..99
        BY <3>1, Zenon DEF validatePlan
      <4> DEFINE product == total * plan.advance
      <4>2. product \in Nat /\ product <= total * 100
        <5> DEFINE percent == plan.advance
        <5>1. percent \in Nat /\ percent <= 100
          BY <4>1
        <5> HIDE DEF percent
        <5>2. total * percent \in Nat /\ total * percent <= total * 100
          BY <5>1
        <5> QED BY <5>2 DEF percent
      <4>3. advance = product \div 100
        BY <3>1
      <4> HIDE DEF product, advance
      <4> QED BY <4>2, <4>3
    <3>2. CASE plan.advanceType # "PERCENT"
      BY <1>1, <3>2 DEF Least
    <3> QED BY <3>1, <3>2
  <2>3. 2 \in Numbers
    BY <1>2, <1>5 DEF Numbers
  <2>4. split \in [others -> Nat] /\ SumFunctionOnSet(split, others) = rest
    <3> HIDE DEF rest
    <3> QED BY <2>2, <2>3, EqualSplitExact
  <2>5. others = Numbers \ {1} /\ IsFiniteSet(others) /\ IsFiniteSet(Numbers)
    <3>1. others = Numbers \ {1}
      BY <1>2 DEF Numbers
    <3> HIDE DEF others
    <3> QED BY <3>1, NumbersFinite, FS_Subset
  <2> HIDE DEF amounts, advance, split, others
  <2>6. amounts \in [Numbers -> Nat]
    BY <2>1, <2>2, <2>4, <2>5
  <2>7. amounts[1] = advance /\ \A i \in others : amounts[i] = split[i] /\ amounts[i] \in Int
    BY <1>2, <2>1, <2>5, <2>6
  <2>8. SumFunctionOnSet(amounts, Numbers) = amounts[1] + SumFunctionOnSet(amounts, others)
    <3>1. \A i \in Numbers : amounts[i] \in Int
      BY <2>6
    <3>2. 1 \in Numbers /\ others = Numbers \ {1} /\ IsFiniteSet(Numbers)
      BY <1>2, <2>5
    <3> QED BY <3>1, <3>2, SumWithout
  <2>9. SumFunctionOnSet(amounts, others) = SumFunctionOnSet(split, others)
    BY <2>5, <2>7, SumAgree
  <2> QED BY <2>2, <2>4, <2>6, <2>7, <2>8, <2>9 DEF Total, amounts
<1>6. CASE N # 1 /\ percents = <<>> /\ ~(plan.advanceType # "NONE" /\ plan.advance # 0)
  <2>1. amounts = equalSplit(total, 1)
    BY <1>6 DEF buildInstallments
  <2>2. Numbers = 1..N
    BY DEF Numbers
  <2> QED BY <1>2, <2>1, <2>2, EqualSplitExact DEF Total
<1> QED BY <1>3, <1>4, <1>5, <1>6

-----------------------------------------------------------------------------
\* No installment is due in the past, and due dates never go backwards.
LEMMA DatesAdvance ==
  ASSUME NEW firstDue \in Nat, NEW interval \in Nat, NEW now \in Nat
  PROVE  LET due == dueDates(firstDue, interval, now)
         IN  /\ \A i \in Numbers : due[i] >= now
             /\ \A i, j \in Numbers : i <= j => due[i] <= due[j]
<1> DEFINE planned(i) == firstDue + (i - 1) * interval
           moved(i) == IF planned(i) < now THEN now + LATE_JOINER_GRACE_DAYS ELSE planned(i)
           Later(i, last) == IF moved(i) < last THEN last ELSE moved(i)
           Body(h, i) == IF i = 1 THEN moved(1) ELSE Later(i, h[i-1])
           step == [x \in (1..N) \X Nat |-> Later(x[1], x[2])]
<1>1. ASSUME NEW i \in Numbers PROVE moved(i) \in Nat /\ moved(i) >= now
  <2>1. i \in Nat /\ i - 1 \in Nat
    BY <1>1, NAssumption DEF Numbers
  <2>2. planned(i) \in Nat
    <3>1. \A a, b \in Nat : a * b \in Nat
      OBVIOUS
    <3> QED BY <2>1, <3>1
  <2> HIDE DEF planned
  <2> QED BY <2>2 DEF LATE_JOINER_GRACE_DAYS
<1> HIDE DEF moved
<1>2. 1 \in Numbers /\ N \in Nat \ {0} /\ Numbers = 1..N
  BY NAssumption DEF Numbers
<1>3. \E f \in [Numbers -> Nat] : f = [i \in Numbers |-> Body(f, i)]
  <2>1. \A i \in 1..N, x \in Nat : step[<<i, x>>] = Later(i, x)
    OBVIOUS
  <2>2. step \in [(1..N) \X Nat -> Nat]
    BY <1>1, <1>2
  <2> HIDE DEF step
  <2>3. PICK g : IsLoop(g, Nat, moved(1), step, N)
    <3>1. moved(1) \in Nat /\ N \in Nat
      BY <1>1, <1>2
    <3> QED BY <2>2, <3>1, RecursionExists
  <2> DEFINE f == [i \in Numbers |-> g[i]]
  <2>4. g \in [0..N -> Nat] /\ g[0] = moved(1) /\ \A i \in 1..N : g[i] = step[<<i, g[i-1]>>]
    BY <2>3 DEF IsLoop
  <2>5. \A i \in 1..N : g[i] = Later(i, g[i-1]) /\ (i = 1 => g[i] = moved(1))
    <3>1. \A i \in 1..N : g[i-1] \in Nat
      BY <1>2, <2>4
    <3>2. \A i \in 1..N : g[i] = Later(i, g[i-1])
      BY <2>1, <2>4, <3>1
    <3>3. Later(1, moved(1)) = moved(1)
      OBVIOUS
    <3> HIDE DEF Later
    <3> QED BY <1>2, <2>4, <3>2, <3>3
  <2>6. ASSUME NEW i \in Numbers PROVE f[i] = Body(f, i)
    <3>1. CASE i = 1
      BY <1>2, <2>5, <3>1
    <3>2. CASE i # 1
      <4>1. i - 1 \in Numbers
        BY <1>2, <3>2
      <4>2. f[i-1] = g[i-1] /\ f[i] = g[i] /\ g[i] = Later(i, g[i-1])
        BY <1>2, <2>5, <4>1
      <4> QED BY <3>2, <4>2
    <3> QED BY <3>1, <3>2
  <2>7. f \in [Numbers -> Nat]
    BY <1>2, <2>4
  <2>8. f = [i \in Numbers |-> Body(f, i)]
    BY <2>6
  <2> HIDE DEF f, Body
  <2> QED BY <2>7, <2>8
<1> DEFINE due == CHOOSE f : f = [i \in Numbers |-> Body(f, i)]
<1>4. due = [i \in Numbers |-> Body(due, i)]
  <2>1. \E f : f = [i \in Numbers |-> Body(f, i)]
    BY <1>3
  <2> HIDE DEF Body
  <2> QED BY <2>1
<1>5. dueDates(firstDue, interval, now) = due
  BY DEF dueDates, moved
<1> HIDE DEF due
<1>6. due[1] = moved(1) /\ \A i \in Numbers : i # 1 => due[i] = Later(i, due[i-1])
  <2>1. \A i \in Numbers : due[i] = Body(due, i)
    <3> DEFINE body == [j \in Numbers |-> Body(due, j)]
    <3>1. \A i \in Numbers : body[i] = Body(due, i)
      OBVIOUS
    <3> QED BY <3>1, <1>4, Zenon
  <2> QED BY <1>2, <2>1
<1> DEFINE Steps == {k \in Nat : k + 1 <= N =>
                       /\ due[k+1] \in Nat /\ due[k+1] >= now
                       /\ \A i \in 1..(k+1) : due[i] \in Nat /\ due[i] <= due[k+1]}
<1>7. 0 \in Steps
  BY <1>1, <1>2, <1>6
<1>8. ASSUME NEW k \in Nat, k \in Steps PROVE k + 1 \in Steps
  <2>1. SUFFICES ASSUME k + 2 <= N
                 PROVE  /\ due[k+2] \in Nat /\ due[k+2] >= now
                        /\ \A i \in 1..(k+2) : due[i] \in Nat /\ due[i] <= due[k+2]
    <3>1. k + 1 \in Nat /\ (k + 1) + 1 = k + 2
      OBVIOUS
    <3> QED BY <3>1
  <2>2. /\ due[k+1] \in Nat /\ due[k+1] >= now
        /\ \A i \in 1..(k+1) : due[i] \in Nat /\ due[i] <= due[k+1]
    BY <1>8, <1>2, <2>1
  <2>3. k + 2 \in Numbers /\ k + 2 # 1 /\ (k + 2) - 1 = k + 1
    BY <1>2, <2>1
  <2>4. due[k+2] = Later(k+2, due[k+1]) /\ moved(k+2) \in Nat /\ moved(k+2) >= now
    BY <1>1, <1>6, <2>3
  <2>5. due[k+2] \in Nat /\ due[k+2] >= now /\ due[k+1] <= due[k+2]
    BY <2>2, <2>4
  <2>6. ASSUME NEW i \in 1..(k+2) PROVE due[i] \in Nat /\ due[i] <= due[k+2]
    <3>1. CASE i = k + 2
      BY <2>5, <3>1
    <3>2. CASE i # k + 2
      <4>1. i \in 1..(k+1)
        BY <3>2
      <4> QED BY <2>2, <2>5, <4>1
    <3> QED BY <3>1, <3>2
  <2> QED BY <2>5, <2>6
<1>9. Nat \subseteq Steps
  <2> HIDE DEF Steps
  <2> QED BY <1>7, <1>8, SetInduction
<1>10. ASSUME NEW j \in Numbers
       PROVE  due[j] >= now /\ \A i \in Numbers : i <= j => due[i] <= due[j]
  <2>1. j - 1 \in Nat /\ (j - 1) + 1 = j /\ j <= N
    BY <1>2
  <2>2. j - 1 \in Steps
    BY <1>9, <2>1
  <2>3. due[j] >= now /\ \A i \in 1..j : due[i] <= due[j]
    BY <2>1, <2>2
  <2> QED BY <1>2, <2>3
<1> QED BY <1>5, <1>10

-----------------------------------------------------------------------------
\* Every plan that validatePlan accepts splits the payable amount without losing
\* or inventing a unit, with no installment negative; none is due in the past and
\* due dates never go backwards: for any number of installments, any amount, plan
\* and interval (billing.ts:252).
THEOREM PlansSplitExactly == Spec => []InstallmentsAreSound
<1>1. ASSUME LawsInv PROVE InstallmentsAreSound
  <2>1. ASSUME call.op = "issue"
        PROVE  LET amounts == buildInstallments(call.total, call.plan)
               IN  /\ Sum(amounts) = call.total
                   /\ \A i \in Numbers : amounts[i] >= 0
    <3> DEFINE amounts == buildInstallments(call.total, call.plan)
    <3>1. call.total \in Nat /\ call.plan \in Plans /\ validatePlan(call.plan)
      BY <1>1, <2>1 DEF LawsInv, CallTypes
    <3>2. amounts \in [Numbers -> Nat] /\ Total(amounts) = call.total
      BY <3>1, SplitExact
    <3> HIDE DEF amounts
    <3>3. Sum(amounts) = call.total
      BY <3>2, SumIsTotal
    <3>4. \A i \in Numbers : amounts[i] >= 0
      BY <3>2
    <3> QED BY <3>3, <3>4 DEF amounts
  <2>2. ASSUME call.op = "dates", NEW now \in 0..14
        PROVE  LET due == dueDates(call.firstDue, call.interval, now)
               IN  /\ \A i \in Numbers : due[i] >= now
                   /\ \A i, j \in Numbers : i <= j => due[i] <= due[j]
    <3>1. call.firstDue \in Nat /\ call.interval \in Nat /\ now \in Nat
      BY <1>1, <2>2 DEF LawsInv, CallTypes
    <3> QED BY <3>1, DatesAdvance
  <2> QED BY <2>1, <2>2 DEF InstallmentsAreSound
<1> QED BY <1>1, LawsInvariant, PTL

-----------------------------------------------------------------------------
\* One more wish against what is left adds what it can still take.
LEMMA OneMoreWish ==
  ASSUME NEW tuition \in Nat, NEW p \in Nat, NEW u \in Nat, NEW v \in Nat,
         NEW t \in Int, t = tuition - p, t = Least(tuition, v)
  PROVE  /\ Least(u, p) + t = tuition - (p - Least(u, p))
         /\ Least(u, p) + t = Least(tuition, u + v)
<1>1. CASE u <= p
  BY <1>1 DEF Least
<1>2. CASE ~(u <= p)
  BY <1>2 DEF Least
<1> QED BY <1>1, <1>2

\* taken is what n waivers asking for wish take off the tuition.
TakesTheLeast(taken, tuition, wish, n) ==
  /\ taken \in [1..n -> Nat]
  /\ SumFunctionOnSet(taken, 1..n) = Least(tuition, SumFunctionOnSet(wish, 1..n))

\* What each waiver takes adds up to what is asked, up to the whole tuition.
LEMMA WaiversTake ==
  ASSUME NEW tuition \in Nat, NEW n \in Nat, NEW waivers, Len(waivers) = n,
         NEW wish \in [1..n -> Nat],
         \A i \in 1..n : wish[i] = WaiverWish(tuition, waivers[i])
  PROVE  TakesTheLeast(computeWaiverAdjustments(tuition, waivers), tuition, wish, n)
<1> DEFINE Body(h, i) == IF i = 0 THEN tuition
                         ELSE h[i-1] - Take(WaiverWish(tuition, waivers[i]), h[i-1])
           remaining == CHOOSE h : h = [i \in 0..n |-> Body(h, i)]
           step == [x \in (1..n) \X Nat |-> x[2] - Take(wish[x[1]], x[2])]
           taken == [i \in 1..n |-> remaining[i-1] - remaining[i]]
<1>1. ASSUME NEW i \in 1..n, NEW x \in Nat
      PROVE  /\ x - Take(wish[i], x) \in Nat /\ Take(wish[i], x) \in Nat
             /\ step[<<i, x>>] = x - Take(wish[i], x)
  <2>1. wish[i] \in Int
    OBVIOUS
  <2> QED BY <2>1, TakeBounds
<1>2. step \in [(1..n) \X Nat -> Nat]
  BY <1>1
<1> HIDE DEF step
<1>3. PICK g : IsLoop(g, Nat, tuition, step, n)
  BY <1>2, RecursionExists
<1>4. g = [i \in 0..n |-> Body(g, i)]
  <2>1. g \in [0..n -> Nat] /\ g[0] = tuition /\ \A i \in 1..n : g[i] = step[<<i, g[i-1]>>]
    BY <1>3 DEF IsLoop
  <2>2. ASSUME NEW i \in 1..n PROVE g[i] = g[i-1] - Take(WaiverWish(tuition, waivers[i]), g[i-1])
    <3>1. g[i-1] \in Nat /\ g[i] = step[<<i, g[i-1]>>]
      BY <2>1
    <3> QED BY <1>1, <3>1
  <2>3. \A i \in 0..n : i # 0 => i \in 1..n
    OBVIOUS
  <2>4. \A i \in 0..n : g[i] = Body(g, i)
    BY <2>1, <2>2, <2>3
  <2> HIDE DEF Body
  <2> QED BY <2>1, <2>4
<1>5. remaining = [i \in 0..n |-> Body(remaining, i)]
  <2> HIDE DEF Body
  <2> QED BY <1>4
<1>6. computeWaiverAdjustments(tuition, waivers) = taken
  BY DEF computeWaiverAdjustments
<1> HIDE DEF remaining
<1>7. remaining[0] = tuition
      /\ \A i \in 1..n : remaining[i] = remaining[i-1] - Take(wish[i], remaining[i-1])
  <2>1. \A i \in 0..n : remaining[i] = Body(remaining, i)
    <3> DEFINE body == [j \in 0..n |-> Body(remaining, j)]
    <3>1. \A i \in 0..n : body[i] = Body(remaining, i)
      OBVIOUS
    <3> QED BY <3>1, <1>5, Zenon
  <2>2. 0 \in 0..n /\ \A i \in 1..n : i \in 0..n /\ i # 0
    OBVIOUS
  <2> QED BY <2>1, <2>2
<1> DEFINE T(s) == SumFunctionOnSet(taken, s)
           W(s) == SumFunctionOnSet(wish, s)
           Good(k) == /\ remaining[k] \in Nat
                      /\ \A i \in 1..k : taken[i] \in Nat
                      /\ W(1..k) \in Nat
                      /\ T(1..k) = tuition - remaining[k]
                      /\ T(1..k) = Least(tuition, W(1..k))
           Steps == {k \in Nat : k <= n => Good(k)}
<1>8. 0 \in Steps
  <2>1. 1..0 = {}
    OBVIOUS
  <2>2. T(1..0) = 0 /\ W(1..0) = 0
    BY <2>1, SumEmpty
  <2> HIDE DEF T, W
  <2>3. Good(0)
    BY <1>7, <2>2 DEF Least
  <2> QED BY <2>3
<1>9. ASSUME NEW k \in Nat, k \in Steps PROVE k + 1 \in Steps
  <2>1. SUFFICES ASSUME k + 1 <= n PROVE Good(k + 1)
    <3>1. k + 1 \in Nat
      OBVIOUS
    <3> HIDE DEF Good
    <3> QED BY <3>1
  <2>2. Good(k)
    <3> HIDE DEF Good
    <3> QED BY <1>9, <2>1
  <2>3. /\ k + 1 \in 1..n /\ (k + 1) - 1 = k /\ wish[k+1] \in Nat
        /\ remaining[k+1] = remaining[k] - Take(wish[k+1], remaining[k])
        /\ taken[k+1] = remaining[k] - remaining[k+1]
    <3>1. k + 1 \in 1..n /\ (k + 1) - 1 = k
      BY <2>1
    <3> QED BY <1>7, <3>1
  <2> HIDE DEF taken
  <2>4. /\ remaining[k+1] \in Nat /\ taken[k+1] \in Nat
        /\ taken[k+1] = Least(wish[k+1], remaining[k])
    BY <2>2, <2>3 DEF Take, Least
  <2>5. \A i \in 1..(k+1) : taken[i] \in Nat
    <3>1. \A i \in 1..(k+1) : i = k + 1 \/ i \in 1..k
      OBVIOUS
    <3> QED BY <2>2, <2>4, <3>1
  <2>6. IsFiniteSet(1..(k+1)) /\ k + 1 \in 1..(k+1) /\ 1..k = (1..(k+1)) \ {k+1}
    <3>1. 1 \in Int /\ k + 1 \in Int
      OBVIOUS
    <3>2. IsFiniteSet(1..(k+1))
      BY <3>1, FS_Interval
    <3> QED BY <3>2
  <2>7. T(1..(k+1)) = taken[k+1] + T(1..k)
    <3>1. \A i \in 1..(k+1) : taken[i] \in Int
      BY <2>5
    <3> QED BY <2>6, <3>1, SumWithout
  <2>8. W(1..(k+1)) = wish[k+1] + W(1..k)
    <3>1. \A i \in 1..(k+1) : wish[i] \in Int
      BY <2>1
    <3> QED BY <2>6, <3>1, SumWithout
  <2> HIDE DEF T, W
  <2>9. /\ remaining[k] \in Nat /\ wish[k+1] \in Nat /\ W(1..k) \in Nat
        /\ T(1..k) = tuition - remaining[k] /\ T(1..k) = Least(tuition, W(1..k))
    BY <2>2, <2>3
  <2>10. /\ Least(wish[k+1], remaining[k]) + T(1..k)
              = tuition - (remaining[k] - Least(wish[k+1], remaining[k]))
         /\ Least(wish[k+1], remaining[k]) + T(1..k) = Least(tuition, wish[k+1] + W(1..k))
    <3> DEFINE t == T(1..k)
               v == W(1..k)
               p == remaining[k]
               u == wish[k+1]
    <3>1. /\ p \in Nat /\ u \in Nat /\ v \in Nat /\ t \in Int
          /\ t = tuition - p /\ t = Least(tuition, v)
      BY <2>9
    <3> HIDE DEF t, v, p, u
    <3>2. /\ Least(u, p) + t = tuition - (p - Least(u, p))
          /\ Least(u, p) + t = Least(tuition, u + v)
      BY <3>1, OneMoreWish
    <3> QED BY <3>2 DEF t, v, p, u
  <2>11. remaining[k+1] = remaining[k] - taken[k+1]
    BY <2>3, <2>4, <2>9
  <2>12. T(1..(k+1)) = tuition - remaining[k+1]
    BY <2>4, <2>7, <2>10, <2>11
  <2>13. T(1..(k+1)) = Least(tuition, W(1..(k+1)))
    BY <2>4, <2>7, <2>8, <2>10
  <2>14. W(1..(k+1)) \in Nat
    BY <2>8, <2>9
  <2> QED BY <2>4, <2>5, <2>12, <2>13, <2>14
<1>10. Nat \subseteq Steps
  <2> HIDE DEF Steps
  <2> QED BY <1>8, <1>9, SetInduction
<1>11. Good(n)
  <2> HIDE DEF Good
  <2>1. n \in Steps /\ n <= n
    <3>1. n <= n
      OBVIOUS
    <3> HIDE DEF Steps
    <3> QED BY <1>10, <3>1
  <2> QED BY <2>1
<1>12. taken \in [1..n -> Nat]
  <2>1. \A i \in 1..n : taken[i] \in Nat
    BY <1>11
  <2> QED BY <2>1
<1> HIDE DEF taken
<1> QED BY <1>6, <1>11, <1>12 DEF TakesTheLeast

\* What the waivers take is what they ask for, or the tuition if that is less.
WaiversTakeTheLeast(tuition, waivers) ==
  LET taken == computeWaiverAdjustments(tuition, waivers)
      asked == [i \in DOMAIN waivers |-> WaiverWish(tuition, waivers[i])]
  IN  Sum(taken) = Least(tuition, Sum(asked))
LEMMA TwoWaiversTake ==
  ASSUME NEW tuition \in Nat, NEW waivers \in Waivers \X Waivers
  PROVE  WaiversTakeTheLeast(tuition, waivers)
<1> DEFINE taken == computeWaiverAdjustments(tuition, waivers)
           asked == [i \in DOMAIN waivers |-> WaiverWish(tuition, waivers[i])]
<1>2. /\ DOMAIN waivers = 1..2 /\ Len(waivers) = 2
      /\ \A i \in 1..2 : waivers[i] \in [percent : Nat, fixed : Nat]
  BY BillingLawsAssumption
<1>3. asked \in [1..2 -> Nat] /\ \A i \in 1..2 : asked[i] = WaiverWish(tuition, waivers[i])
  <2>1. ASSUME NEW w \in [percent : Nat, fixed : Nat] PROVE WaiverWish(tuition, w) \in Nat
    <3>1. w.percent \in Nat /\ w.fixed \in Nat
      OBVIOUS
    <3>2. \A a, b \in Nat : a * b \in Nat
      OBVIOUS
    <3>3. tuition * w.percent \in Nat
      BY <3>1, <3>2
    <3>4. (tuition * w.percent) \div 100 \in Nat
      BY <3>3, Quotient
    <3> QED BY <3>1, <3>4 DEF WaiverWish
  <2> QED BY <1>2, <2>1
<1> HIDE DEF asked, taken
<1>4. taken \in [1..2 -> Nat]
      /\ SumFunctionOnSet(taken, 1..2) = Least(tuition, SumFunctionOnSet(asked, 1..2))
  <2>1. 2 \in Nat
    OBVIOUS
  <2>2. TakesTheLeast(computeWaiverAdjustments(tuition, waivers), tuition, asked, 2)
    BY <1>2, <1>3, <2>1, WaiversTake
  <2> QED BY <2>2 DEF TakesTheLeast, taken
<1>5. Sum(taken) = SumFunctionOnSet(taken, 1..2) /\ Sum(asked) = SumFunctionOnSet(asked, 1..2)
  BY <1>3, <1>4 DEF Sum, SumFunction
<1>6. Sum(taken) = Least(tuition, Sum(asked))
  BY <1>4, <1>5
<1> QED BY <1>6 DEF WaiversTakeTheLeast, taken, asked

\* Waivers together take exactly what they ask for, up to the whole tuition and
\* no further: for any tuition, percentages and amounts (billing.ts:170).
THEOREM WaiversNeverExceedTuition == Spec => []WaiversCappedAtTuition
<1>1. ASSUME LawsInv PROVE WaiversCappedAtTuition
  <2> SUFFICES ASSUME call.op = "waive" PROVE WaiversCappedAtTuition
    BY DEF WaiversCappedAtTuition
  <2>1. call.tuition \in Nat /\ call.waivers \in Waivers \X Waivers
    BY <1>1 DEF LawsInv, CallTypes
  <2>2. WaiversTakeTheLeast(call.tuition, call.waivers)
    BY <2>1, TwoWaiversTake
  <2> QED BY <2>2 DEF WaiversCappedAtTuition, WaiversTakeTheLeast
<1> QED BY <1>1, LawsInvariant, PTL

-----------------------------------------------------------------------------
\* How pickPolicy orders the policies of a sequence.
Ahead(tariff, i, j) ==
  \/ Before(tariff[i], tariff[j])
  \/ i < j /\ ~Before(tariff[j], tariff[i])

LEMMA PolicyTypes ==
  ASSUME NEW tariff \in RateCards
  PROVE  \A i \in DOMAIN tariff : i \in Nat /\ tariff[i] \in FeePolicy
BY BillingLawsAssumption

\* The order is total, and transitive.
LEMMA AheadTotal ==
  ASSUME NEW tariff \in RateCards, NEW i \in DOMAIN tariff, NEW j \in DOMAIN tariff, i # j
  PROVE  Ahead(tariff, i, j) \/ Ahead(tariff, j, i)
<1>1. i \in Nat /\ j \in Nat
  BY PolicyTypes
<1> QED BY <1>1 DEF Ahead

LEMMA AheadTransitive ==
  ASSUME NEW tariff \in RateCards, NEW i \in DOMAIN tariff, NEW j \in DOMAIN tariff,
         NEW k \in DOMAIN tariff, Ahead(tariff, i, j), Ahead(tariff, j, k)
  PROVE  Ahead(tariff, i, k)
<1> DEFINE rank(x) == specificity(tariff[x])
           from(x) == tariff[x].effectiveFrom
<1>1. \A x \in DOMAIN tariff : x \in Nat /\ rank(x) \in Int /\ from(x) \in Int
  BY PolicyTypes DEF FeePolicy, IPolicyLike, specificity
<1>2. \A x, y \in DOMAIN tariff :
        Ahead(tariff, x, y) <=>
          \/ rank(x) > rank(y)
          \/ rank(x) = rank(y) /\ from(x) > from(y)
          \/ rank(x) = rank(y) /\ from(x) = from(y) /\ x < y
  <2> SUFFICES ASSUME NEW x \in DOMAIN tariff, NEW y \in DOMAIN tariff
               PROVE  Ahead(tariff, x, y) <=>
                        \/ rank(x) > rank(y)
                        \/ rank(x) = rank(y) /\ from(x) > from(y)
                        \/ rank(x) = rank(y) /\ from(x) = from(y) /\ x < y
    OBVIOUS
  <2>1. Before(tariff[x], tariff[y])
          <=> rank(x) > rank(y) \/ (rank(x) = rank(y) /\ from(x) > from(y))
    BY DEF Before
  <2>2. Before(tariff[y], tariff[x])
          <=> rank(y) > rank(x) \/ (rank(y) = rank(x) /\ from(y) > from(x))
    BY DEF Before
  <2>3. /\ x \in Nat /\ rank(x) \in Int /\ from(x) \in Int
        /\ y \in Nat /\ rank(y) \in Int /\ from(y) \in Int
    BY <1>1
  <2> HIDE DEF rank, from
  <2> QED BY <2>1, <2>2, <2>3 DEF Ahead
<1> HIDE DEF rank, from
<1> QED BY <1>1, <1>2

\* There is one policy that pickPolicy picks, whenever one applies at all.
LEMMA PickIsCandidate ==
  ASSUME NEW tariff \in RateCards, NEW S \in SUBSET DOMAIN tariff, S # {}
  PROVE  pickPolicy(tariff, S) \in S
<1> DEFINE G == {n \in Nat : \A U \in SUBSET DOMAIN tariff :
                   IsFiniteSet(U) /\ Cardinality(U) = n /\ U # {}
                     => \E i \in U : \A j \in U \ {i} : Ahead(tariff, i, j)}
<1>1. 0 \in G
  BY FS_EmptySet
<1>2. ASSUME NEW n \in Nat, n \in G PROVE n + 1 \in G
  <2>1. SUFFICES ASSUME NEW U \in SUBSET DOMAIN tariff, IsFiniteSet(U),
                        Cardinality(U) = n + 1, U # {}
                 PROVE  \E i \in U : \A j \in U \ {i} : Ahead(tariff, i, j)
    OBVIOUS
  <2>2. PICK u \in U : TRUE
    BY <2>1
  <2>3. IsFiniteSet(U \ {u}) /\ Cardinality(U \ {u}) = n
    <3>1. IsFiniteSet(U \ {u}) /\ Cardinality(U \ {u}) = Cardinality(U) - 1
      BY <2>1, <2>2, FS_RemoveElement
    <3> QED BY <2>1, <3>1
  <2>4. CASE U \ {u} = {}
    BY <2>2, <2>4
  <2>5. CASE U \ {u} # {}
    <3>1. PICK i \in U \ {u} : \A j \in (U \ {u}) \ {i} : Ahead(tariff, i, j)
      BY <1>2, <2>3, <2>5
    <3>2. CASE Ahead(tariff, i, u)
      BY <3>1, <3>2
    <3>3. CASE Ahead(tariff, u, i)
      <4>1. \A j \in U \ {u} : Ahead(tariff, u, j)
        BY <3>1, <3>3, AheadTransitive
      <4> QED BY <4>1
    <3> QED BY <3>1, <3>2, <3>3, AheadTotal
  <2> QED BY <2>4, <2>5
<1>3. Nat \subseteq G
  <2> HIDE DEF G
  <2> QED BY <1>1, <1>2, SetInduction
<1>4. IsFiniteSet(S) /\ Cardinality(S) \in Nat
  <2>1. PICK m \in Nat : DOMAIN tariff = 1..m
    BY BillingLawsAssumption
  <2>2. IsFiniteSet(1..m)
    BY FS_Interval
  <2> QED BY <2>1, <2>2, FS_Subset, FS_CardinalityType
<1>5. \E i \in S : \A j \in S \ {i} : Ahead(tariff, i, j)
  BY <1>3, <1>4
<1> QED BY <1>5 DEF pickPolicy, Ahead

\* What is billed for an item type that some policy applies to.
LEMMA ItemIs ==
  ASSUME NEW tariff \in RateCards, NEW scope \in SUBSET DOMAIN tariff, NEW type, NEW c,
         NEW units \in Nat, Candidates(tariff, scope, type, c) # {}
  PROVE  \E i \in Candidates(tariff, scope, type, c) :
           /\ tariff[i] \in FeePolicy /\ tariff[i].itemType = type
           /\ ItemOf(tariff, scope, type, c, units)
                = [itemType |-> type, policyId |-> i,
                   amountMinor |-> tariff[i].amountMinor * quantity(tariff[i], units)]
           /\ i = pickPolicy(tariff, Candidates(tariff, scope, type, c))
<1>1. Candidates(tariff, scope, type, c) \in SUBSET DOMAIN tariff
  BY DEF Candidates
<1> DEFINE i == pickPolicy(tariff, Candidates(tariff, scope, type, c))
<1>2. i \in Candidates(tariff, scope, type, c)
  BY <1>1, PickIsCandidate
<1>3. tariff[i] \in FeePolicy /\ tariff[i].itemType = type
  BY <1>1, <1>2, PolicyTypes DEF Candidates
<1> QED BY <1>2, <1>3 DEF ItemOf

\* The lines of one unit each that have an amount.
UnitLines(tariff, scope, types, c) ==
  {<<line.itemType, line.policyId>> :
     line \in {l \in {ItemOf(tariff, scope, t, c, 1) :
                      t \in {u \in types : Candidates(tariff, scope, u, c) # {}}} :
                 l.amountMinor > 0}}

\* Whatever number of credits is billed, as long as every policy of the scope bills
\* some units, the same lines have an amount, from the same policies.
LEMMA SameLines ==
  ASSUME NEW tariff \in RateCards, NEW scope \in SUBSET DOMAIN tariff, NEW types, NEW c,
         NEW units \in Nat,
         \A i \in scope : quantity(tariff[i], units) \in Nat \ {0}
  PROVE  BilledLines(buildInvoiceItems(tariff, scope, types, c, units))
           = UnitLines(tariff, scope, types, c)
<1> DEFINE chosen == {u \in types : Candidates(tariff, scope, u, c) # {}}
           billed(t) == ItemOf(tariff, scope, t, c, units)
           unit(t) == ItemOf(tariff, scope, t, c, 1)
<1>1. ASSUME NEW t \in chosen
      PROVE  /\ billed(t).itemType = unit(t).itemType /\ billed(t).policyId = unit(t).policyId
             /\ billed(t).amountMinor > 0 <=> unit(t).amountMinor > 0
  <2>1. Candidates(tariff, scope, t, c) # {}
    BY <1>1
  <2> DEFINE i == pickPolicy(tariff, Candidates(tariff, scope, t, c))
             p == tariff[i]
             many == quantity(p, units)
             one == quantity(p, 1)
  <2>2. i \in scope /\ p \in FeePolicy
    <3>1. Candidates(tariff, scope, t, c) \in SUBSET scope
      BY DEF Candidates
    <3>2. i \in Candidates(tariff, scope, t, c)
      <4> HIDE DEF i
      <4>1. pickPolicy(tariff, Candidates(tariff, scope, t, c))
              \in Candidates(tariff, scope, t, c)
        BY <2>1, <3>1, PickIsCandidate
      <4> QED BY <4>1 DEF i
    <3> HIDE DEF i
    <3> QED BY <3>1, <3>2, PolicyTypes DEF p
  <2>3. billed(t) = [itemType |-> t, policyId |-> i, amountMinor |-> p.amountMinor * many]
    BY DEF ItemOf
  <2>4. unit(t) = [itemType |-> t, policyId |-> i, amountMinor |-> p.amountMinor * one]
    BY DEF ItemOf
  <2>5. p.amountMinor \in Nat /\ many \in Nat /\ many > 0 /\ one = 1
    BY <2>2 DEF FeePolicy, IPolicyLike, quantity
  <2> HIDE DEF i, p, many, one, billed, unit
  <2>6. p.amountMinor * many > 0 <=> p.amountMinor * one > 0
    <3> DEFINE a == p.amountMinor
    <3>1. a \in Nat /\ many \in Nat /\ many > 0 /\ one = 1
      BY <2>5
    <3> HIDE DEF a
    <3>2. a = 0 => (a * many > 0 <=> a * one > 0)
      BY <3>1
    <3>3. a > 0 => a * many > 0
      BY <3>1
    <3>4. a * many > 0 <=> a * one > 0
      BY <3>1, <3>2, <3>3
    <3> QED BY <3>4 DEF a
  <2> QED BY <2>3, <2>4, <2>6
<1>2. buildInvoiceItems(tariff, scope, types, c, units)
        = {item \in {billed(t) : t \in chosen} : item.amountMinor > 0}
  BY DEF buildInvoiceItems
<1> HIDE DEF chosen, billed, unit
<1>3. BilledLines(buildInvoiceItems(tariff, scope, types, c, units))
        = {<<line.itemType, line.policyId>> :
             line \in {l \in {unit(t) : t \in chosen} : l.amountMinor > 0}}
  BY <1>1, <1>2 DEF BilledLines
<1> QED BY <1>3 DEF UnitLines, chosen, unit

\* The admission invoice bills what the schedule of an admission shows.
LEMMA AdmissionBillsShown ==
  ASSUME NEW tariff \in RateCards, NEW c
  PROVE  BilledLines(AdmissionItems(tariff, c))
           = {x \in {<<line.itemType, line.policyId>> :
                       line \in {l \in getFeeSchedule(tariff, "ADMISSION", c) :
                                   l.amountMinor > 0}} : x[1] # "ID_CARD"}
<1> DEFINE scope == ByInvoiceType(tariff, "ADMISSION")
           types == ItemTypes(tariff)
           lines(T) == UnitLines(tariff, scope, T, c)
<1>1. scope \in SUBSET DOMAIN tariff
  BY DEF ByInvoiceType
<1>2. \A i \in scope : quantity(tariff[i], 0) \in Nat \ {0}
  BY PolicyTypes DEF ByInvoiceType, FeePolicy, IPolicyLike, quantity
<1>3. BilledLines(AdmissionItems(tariff, c)) = lines(types \ {"ID_CARD"})
  <2> HIDE DEF scope, types
  <2>1. AdmissionItems(tariff, c) = buildInvoiceItems(tariff, scope, types \ {"ID_CARD"}, c, 0)
    BY DEF AdmissionItems, scope, types
  <2>2. BilledLines(buildInvoiceItems(tariff, scope, types \ {"ID_CARD"}, c, 0))
          = lines(types \ {"ID_CARD"})
    BY <1>1, <1>2, SameLines
  <2> QED BY <2>1, <2>2
<1>4. \A t : ItemOf(tariff, scope, t, c, 1).itemType = t
  BY DEF ItemOf
<1>5. lines(types \ {"ID_CARD"}) = {x \in lines(types) : x[1] # "ID_CARD"}
  <2> HIDE DEF scope, types
  <2> QED BY <1>4 DEF UnitLines
<1>6. lines(types) = {<<line.itemType, line.policyId>> :
                       line \in {l \in getFeeSchedule(tariff, "ADMISSION", c) :
                                   l.amountMinor > 0}}
  BY DEF getFeeSchedule, UnitLines
<1> HIDE DEF lines
<1> QED BY <1>3, <1>5, <1>6

\* The ID card is billed by its own invoice, unless it is free.
LEMMA CardIsBilled ==
  ASSUME NEW tariff \in RateCards, NEW c, FreeCards(tariff, c) = {},
         NEW type, NEW line \in getFeeSchedule(tariff, type, c), line.itemType = "ID_CARD"
  PROVE  \E y \in IdCardItems(tariff, c) :
           IdCardItems(tariff, c) = {y} /\ y.itemType = "ID_CARD"
<1> DEFINE scope == ByItemType(tariff, "ID_CARD")
           all == Candidates(tariff, scope, "ID_CARD", c)
<1>1. scope \in SUBSET DOMAIN tariff
  BY DEF ByItemType
<1>2. all = Candidates(tariff, DOMAIN tariff, "ID_CARD", c)
  BY DEF ByItemType, Candidates
<1>3. all # {}
  <2>1. PICK t \in ItemTypes(tariff) :
          /\ line = ItemOf(tariff, ByInvoiceType(tariff, type), t, c, 1)
          /\ Candidates(tariff, ByInvoiceType(tariff, type), t, c) # {}
    BY DEF getFeeSchedule
  <2>2. t = "ID_CARD"
    BY <2>1 DEF ItemOf
  <2> QED BY <1>2, <2>1, <2>2 DEF Candidates, ByInvoiceType
<1> DEFINE y == ItemOf(tariff, scope, "ID_CARD", c, 0)
<1>4. y.itemType = "ID_CARD" /\ y.amountMinor > 0
  <2>1. PICK i \in all :
          /\ tariff[i] \in FeePolicy /\ tariff[i].itemType = "ID_CARD"
          /\ y = [itemType |-> "ID_CARD", policyId |-> i,
                  amountMinor |-> tariff[i].amountMinor * quantity(tariff[i], 0)]
    BY <1>1, <1>3, ItemIs
  <2>2. tariff[i].amountMinor # 0
    BY <1>2 DEF FreeCards
  <2>3. quantity(tariff[i], 0) = 1 /\ tariff[i].amountMinor \in Nat
    BY <2>1 DEF FeePolicy, IPolicyLike, quantity
  <2> HIDE DEF y
  <2> QED BY <2>1, <2>2, <2>3
<1>5. IdCardItems(tariff, c) = {y}
  <2>1. {t \in {"ID_CARD"} : Candidates(tariff, scope, t, c) # {}} = {"ID_CARD"}
    BY <1>3
  <2>2. IdCardItems(tariff, c)
          = {item \in {ItemOf(tariff, scope, t, c, 0) : t \in {"ID_CARD"}} : item.amountMinor > 0}
    BY <2>1 DEF IdCardItems, buildInvoiceItems
  <2> HIDE DEF scope
  <2> QED BY <2>2, <1>4
<1> QED BY <1>4, <1>5

\* The application invoice bills what the schedule of an application shows.
LEMMA ApplicationBillsShown ==
  ASSUME NEW tariff \in RateCards, NEW c
  PROVE  BilledLines(ApplicationItems(tariff, c))
           = {<<line.itemType, line.policyId>> :
                line \in {l \in getFeeSchedule(tariff, "APPLICATION", c) : l.amountMinor > 0}}
<1> DEFINE scope == ByInvoiceType(tariff, "APPLICATION")
<1>1. scope \in SUBSET DOMAIN tariff
  BY DEF ByInvoiceType
<1>2. \A i \in scope : quantity(tariff[i], 0) \in Nat \ {0}
  BY PolicyTypes DEF ByInvoiceType, FeePolicy, IPolicyLike, quantity
<1>3. ApplicationItems(tariff, c) = buildInvoiceItems(tariff, scope, ItemTypes(tariff), c, 0)
  BY DEF ApplicationItems
<1>4. getFeeSchedule(tariff, "APPLICATION", c)
        = {ItemOf(tariff, scope, t, c, 1) :
             t \in {u \in ItemTypes(tariff) : Candidates(tariff, scope, u, c) # {}}}
  BY DEF getFeeSchedule
<1> HIDE DEF scope
<1>5. BilledLines(ApplicationItems(tariff, c)) = UnitLines(tariff, scope, ItemTypes(tariff), c)
  BY <1>1, <1>2, <1>3, SameLines
<1> QED BY <1>4, <1>5 DEF UnitLines

\* The semester invoice bills what the schedule of a semester shows, and of that
\* a supplementary one the tuition.
LEMMA SemesterBillsShown ==
  ASSUME NEW tariff \in RateCards, NEW c, NEW units \in Nat, units > 0
  PROVE  LET shown == {<<line.itemType, line.policyId>> :
                         line \in {l \in getFeeSchedule(tariff, "SEMESTER", c) :
                                     l.amountMinor > 0}}
         IN  /\ BilledLines(SemesterItems(tariff, c, units, FALSE)) = shown
             /\ BilledLines(SemesterItems(tariff, c, units, TRUE))
                  = {x \in shown : x[1] = "TUITION"}
<1> DEFINE scope == ByInvoiceType(tariff, "SEMESTER")
           types == ItemTypes(tariff)
           lines(T) == UnitLines(tariff, scope, T, c)
<1>1. scope \in SUBSET DOMAIN tariff
  BY DEF ByInvoiceType
<1>2. \A i \in scope : quantity(tariff[i], units) \in Nat \ {0}
  BY DEF quantity
<1>3. /\ BilledLines(SemesterItems(tariff, c, units, FALSE)) = lines(types)
      /\ BilledLines(SemesterItems(tariff, c, units, TRUE)) = lines({"TUITION"})
  <2>1. /\ SemesterItems(tariff, c, units, FALSE)
             = buildInvoiceItems(tariff, scope, types, c, units)
        /\ SemesterItems(tariff, c, units, TRUE)
             = buildInvoiceItems(tariff, scope, {"TUITION"}, c, units)
    BY DEF SemesterItems
  <2> HIDE DEF scope, types
  <2>2. BilledLines(buildInvoiceItems(tariff, scope, types, c, units)) = lines(types)
    BY <1>1, <1>2, SameLines
  <2>3. BilledLines(buildInvoiceItems(tariff, scope, {"TUITION"}, c, units))
          = lines({"TUITION"})
    BY <1>1, <1>2, SameLines
  <2> QED BY <2>1, <2>2, <2>3
<1>4. \A t : ItemOf(tariff, scope, t, c, 1).itemType = t
  BY DEF ItemOf
<1>5. \A t : Candidates(tariff, scope, t, c) # {} => t \in types
  BY DEF Candidates, ItemTypes, ByInvoiceType
<1>6. lines({"TUITION"}) = {x \in lines(types) : x[1] = "TUITION"}
  <2> HIDE DEF scope, types
  <2> QED BY <1>4, <1>5 DEF UnitLines
<1>7. lines(types) = {<<line.itemType, line.policyId>> :
                       line \in {l \in getFeeSchedule(tariff, "SEMESTER", c) :
                                   l.amountMinor > 0}}
  BY DEF getFeeSchedule, UnitLines
<1> HIDE DEF lines
<1> QED BY <1>3, <1>6, <1>7

\* What a student is shown is what she is billed on the invoice of that type, line
\* by line and from the same policies - the ID card of an admission on the ID card
\* invoice, and only the tuition once more - for any policies createFeePolicy
\* accepts (invoiceCore.ts:304, invoice.service.ts:120).  It does not say that a
\* card is charged once: see CardNotRecharged of IdCardCharges.
THEOREM BillsAreAsShown == Spec => []ShownIsBilled
<1>1. ASSUME LawsInv PROVE ShownIsBilled
  <2> SUFFICES ASSUME call.op = "bill" PROVE ShownIsBilled
    BY DEF ShownIsBilled
  <2> DEFINE once == [call.ctx EXCEPT !.semesterId = 0]
  <2>1. call.policies \in RateCards /\ call.credits \in Nat /\ call.onlyTuition \in BOOLEAN
    BY <1>1 DEF LawsInv, CallTypes
  <2> HIDE DEF once
  <2>2. BilledLines(ApplicationItems(call.policies, once)) = Shown("APPLICATION", once)
    BY <2>1, ApplicationBillsShown DEF Shown
  <2>3. BilledLines(AdmissionItems(call.policies, once))
          = {x \in Shown("ADMISSION", once) : x[1] # "ID_CARD"}
    BY <2>1, AdmissionBillsShown DEF Shown
  <2>4. ASSUME FreeCards(call.policies, once) = {},
               NEW x \in Shown("ADMISSION", once) \cup Shown("ID_CARD", once), x[1] = "ID_CARD"
        PROVE  \E y \in IdCardItems(call.policies, once) :
                 IdCardItems(call.policies, once) = {y} /\ y.itemType = "ID_CARD"
    <3>1. PICK type \in {"ADMISSION", "ID_CARD"} :
            \E line \in getFeeSchedule(call.policies, type, once) :
              x = <<line.itemType, line.policyId>>
      BY <2>4 DEF Shown
    <3>2. PICK line \in getFeeSchedule(call.policies, type, once) :
            x = <<line.itemType, line.policyId>>
      BY <3>1
    <3>3. line.itemType = "ID_CARD"
      BY <2>4, <3>2
    <3> QED BY <2>1, <2>4, <3>3, CardIsBilled
  <2>5. ASSUME call.credits > 0
        PROVE  BilledLines(SemesterItems(call.policies, call.ctx, call.credits,
                                         call.onlyTuition))
                 = {x \in Shown("SEMESTER", call.ctx) : call.onlyTuition => x[1] = "TUITION"}
    <3>1. /\ BilledLines(SemesterItems(call.policies, call.ctx, call.credits, FALSE))
               = Shown("SEMESTER", call.ctx)
          /\ BilledLines(SemesterItems(call.policies, call.ctx, call.credits, TRUE))
               = {x \in Shown("SEMESTER", call.ctx) : x[1] = "TUITION"}
      BY <2>1, <2>5, SemesterBillsShown DEF Shown
    <3>2. CASE call.onlyTuition = TRUE
      BY <3>1, <3>2
    <3>3. CASE call.onlyTuition = FALSE
      BY <3>1, <3>3
    <3> QED BY <2>1, <3>2, <3>3
  <2> QED BY <2>2, <2>3, <2>4, <2>5 DEF ShownIsBilled, once
<1> QED BY <1>1, LawsInvariant, PTL

-----------------------------------------------------------------------------
(***************************************************************************)
(* The invoices an ID card is on (IdCardCharges).                          *)
(***************************************************************************)

CardInv == IdCardTypeOK /\ CardNotRecharged

LEMMA CardInitInv == IdCardInit => CardInv
<1> SUFFICES ASSUME IdCardInit PROVE CardInv
  OBVIOUS
<1>1. OlderInvoice \in Received
  BY DEF OlderInvoice, Received
<1>2. CASE applied
  <2>1. received = <<OlderInvoice>>
    BY <1>2 DEF IdCardInit
  <2> QED BY <1>1, <2>1, IdCardChargesAssumption
          DEF IdCardInit, CardInv, IdCardTypeOK, CardNotRecharged
<1>3. CASE ~applied
  <2>1. received = <<>>
    BY <1>3 DEF IdCardInit
  <2> QED BY <2>1, IdCardChargesAssumption
          DEF IdCardInit, CardInv, IdCardTypeOK, CardNotRecharged
<1> QED BY <1>2, <1>3

\* The admission invoice leaves the card out, whatever is priced.
LEMMA AdmissionHasNoCard ==
  ASSUME NEW tariff, NEW c
  PROVE  \A item \in AdmissionItems(tariff, c) : item.itemType # "ID_CARD"
BY DEF AdmissionItems, buildInvoiceItems, ItemOf

\* A further invoice, if the card is on it only when it may be.
LEMMA IssueKeepsInv ==
  ASSUME CardInv, NEW type \in {"APPLICATION", "ADMISSION", "ID_CARD", "SEMESTER"},
         NEW semester \in CardSemesters \cup {0}, NEW items,
         Issue(type, semester, items),
         \/ type \in {"APPLICATION", "SEMESTER"}
         \/ \A item \in items : item.itemType # "ID_CARD"
         \/ ~CardCovered
  PROVE  /\ received' \in Seq(Received) /\ UNCHANGED <<rates, applied>>
         /\ CardNotRecharged'
<1> DEFINE new == Invoice(type, semester, items)
<1>1. new \in Received /\ new.type = type
  BY DEF Invoice, Received
<1>2. ~new.card \/ ~CardCovered \/ type \in {"APPLICATION", "SEMESTER"}
  BY DEF Invoice
<1>3. received' = Append(received, new) /\ UNCHANGED <<rates, applied>>
  BY DEF Issue
<1>4. received \in Seq(Received)
  BY DEF CardInv, IdCardTypeOK
<1> HIDE DEF new
<1>5. received' \in Seq(Received)
  BY <1>1, <1>3, <1>4
<1>6. ASSUME NEW i \in DOMAIN received', NEW j \in DOMAIN received', i < j,
             received'[i].live, received'[i].card, received'[j].live, received'[j].card
      PROVE  received'[j].type \in {"APPLICATION", "SEMESTER"}
  <2>1. i \in DOMAIN received /\ received'[i] = received[i]
    BY <1>1, <1>3, <1>4, <1>6
  <2>2. CASE j \in DOMAIN received
    <3>1. received'[j] = received[j]
      BY <1>1, <1>3, <1>4, <2>2
    <3> QED BY <1>6, <2>1, <2>2, <3>1 DEF CardInv, CardNotRecharged
  <2>3. CASE j \notin DOMAIN received
    <3>1. received'[j] = new
      BY <1>1, <1>3, <1>4, <2>3
    <3>2. CardCovered
      BY <1>6, <2>1 DEF CardCovered
    <3> QED BY <1>1, <1>2, <1>6, <3>1, <3>2
  <2> QED BY <2>2, <2>3
<1>7. CardNotRecharged'
  BY <1>6 DEF CardNotRecharged
<1> QED BY <1>3, <1>5, <1>7

LEMMA CardNextInv == CardInv /\ [IdCardNext]_idCardVars => CardInv'
<1> SUFFICES ASSUME CardInv, [IdCardNext]_idCardVars PROVE CardInv'
  OBVIOUS
<1>1. CASE UNCHANGED idCardVars
  BY <1>1 DEF idCardVars, CardInv, IdCardTypeOK, CardNotRecharged
<1>2. CASE submitApplication
  BY <1>2 DEF submitApplication, CardInv, IdCardTypeOK, CardNotRecharged
<1>3. CASE createApplicationInvoice
  <2>1. Issue("APPLICATION", 0, ApplicationItems(rates, Once))
    BY <1>3 DEF createApplicationInvoice
  <2> QED BY <2>1, IssueKeepsInv DEF CardInv, IdCardTypeOK
<1>4. CASE createAdmissionInvoice
  <2>1. Issue("ADMISSION", 0, AdmissionItems(rates, Once))
    BY <1>4 DEF createAdmissionInvoice
  <2> QED BY <2>1, AdmissionHasNoCard, IssueKeepsInv DEF CardInv, IdCardTypeOK
<1>5. CASE createIdCardInvoice
  <2>1. ~CardCovered /\ Issue("ID_CARD", 0, IdCardItems(rates, Once))
    BY <1>5 DEF createIdCardInvoice
  <2> QED BY <2>1, IssueKeepsInv DEF CardInv, IdCardTypeOK
<1>6. ASSUME NEW t \in CardSemesters, generateSemesterInvoice(t)
      PROVE  CardInv'
  <2>1. PICK items : Issue("SEMESTER", t, items)
    BY <1>6 DEF generateSemesterInvoice
  <2> QED BY <2>1, IssueKeepsInv DEF CardInv, IdCardTypeOK
<1>7. ASSUME NEW i \in 1..MaxReceived, CancelReceived(i)
      PROVE  CardInv'
  <2>1. /\ i \in DOMAIN received /\ received \in Seq(Received)
        /\ received' = [received EXCEPT ![i].live = FALSE]
        /\ UNCHANGED <<rates, applied>>
    BY <1>7 DEF CancelReceived, CardInv, IdCardTypeOK
  <2>2. received[i] \in Received
    BY <2>1
  <2>3. [received[i] EXCEPT !.live = FALSE] \in Received
    BY <2>2 DEF Received
  <2>4. received' \in Seq(Received)
    BY <2>1, <2>3
  <2>5. DOMAIN received' = DOMAIN received
    BY <2>1
  <2>6. \A j \in DOMAIN received :
          /\ received'[j].type = received[j].type /\ received'[j].card = received[j].card
          /\ received'[j].live => received[j].live
    BY <2>1, <2>2 DEF Received
  <2> QED BY <2>1, <2>4, <2>5, <2>6 DEF CardInv, IdCardTypeOK, CardNotRecharged
<1>8. CASE PoliciesChange
  BY <1>8 DEF PoliciesChange, CardInv, IdCardTypeOK, CardNotRecharged
<1> QED BY <1>1, <1>2, <1>3, <1>4, <1>5, <1>6, <1>7, <1>8 DEF IdCardNext

LEMMA CardInvariant == IdCardSpec => []CardInv
BY CardInitInv, CardNextInv, PTL DEF IdCardSpec

\* The ID card and the admission invoice are never a further charge for the card,
\* whatever is issued, cancelled and re-priced before them, for any policies,
\* semesters and number of invoices (invoice.service.ts:166, 178).
THEOREM CardIsNeverRecharged == IdCardSpec => []CardNotRecharged
<1>1. CardInv => CardNotRecharged
  BY DEF CardInv
<1> QED BY <1>1, CardInvariant, PTL

-----------------------------------------------------------------------------
(***************************************************************************)
(* The composition (MCServices).                                           *)
(***************************************************************************)

\* The services share nothing: side by side each of them behaves as it does
\* alone, and so keeps what is proved of it above.
THEOREM ServicesRunAlone ==
  ServicesSpec => /\ GatewayTokensSpec /\ AccountsSpec /\ FeePlansSpec
                  /\ TeachingSpec /\ SemesterBillingSpec /\ TranscriptsSpec
                  /\ IdCardSpec /\ Spec
<1>1. ServicesInit => GatewayTokensInit /\ AccountsInit /\ FeePlansInit /\ TeachingInit
                        /\ SemesterBillingInit /\ TranscriptsInit /\ IdCardInit /\ Init
  BY DEF ServicesInit
<1>2. [ServicesNext]_servicesVars => [GatewayTokensNext]_gatewayTokensVars
  BY DEF servicesVars, ServicesNext
<1>3. [ServicesNext]_servicesVars => [AccountsNext]_accountsVars
  BY DEF servicesVars, ServicesNext
<1>4. [ServicesNext]_servicesVars => [FeePlansNext]_feePlansVars
  BY DEF servicesVars, ServicesNext
<1>5. [ServicesNext]_servicesVars => [TeachingNext]_teachingVars
  BY DEF servicesVars, ServicesNext
<1>6. [ServicesNext]_servicesVars => [SemesterBillingNext]_semesterBillingVars
  BY DEF servicesVars, ServicesNext
<1>7. [ServicesNext]_servicesVars => [TranscriptsNext]_transcriptsVars
  BY DEF servicesVars, ServicesNext
<1>8. [ServicesNext]_servicesVars => [IdCardNext]_idCardVars
  BY DEF servicesVars, ServicesNext
<1>9. [ServicesNext]_servicesVars => [Next]_vars
  BY DEF servicesVars, ServicesNext
<1> QED
  BY <1>1, <1>2, <1>3, <1>4, <1>5, <1>6, <1>7, <1>8, <1>9, PTL
     DEF ServicesSpec, GatewayTokensSpec, AccountsSpec, FeePlansSpec, TeachingSpec,
         SemesterBillingSpec, TranscriptsSpec, IdCardSpec, Spec

\* Every variable of the services keeps its type, as long as there is a section
\* that can be offered and a time of day to teach it: a request that is idle
\* holds an arbitrary entry of the timetable, so there has to be one.
THEOREM ServicesKeepTypes ==
  ASSUME Offered # {}, Times # {}
  PROVE  ServicesSpec => []ServicesTypeOK
<1>1. TeachingInv => TeachingTypeOK
  <2>1. AnyEntry \in Entry
    <3>1. PICK section \in Offered, time \in Times : TRUE
      OBVIOUS
    <3>2. [section |-> section, startTime |-> time, endTime |-> time] \in Entry
      BY <3>1 DEF Entry
    <3> QED BY <3>2 DEF AnyEntry
  <2>2. AnyEntry.section \in Offered
    BY <2>1 DEF Entry
  <2>3. Entry \cup {AnyEntry} = Entry /\ Offered \cup {AnyEntry.section} = Offered
    BY <2>1, <2>2
  <2>4. /\ Planning = [step : PlannerStep, entry : Entry \cup {AnyEntry},
                       teachers : SUBSET Instructors, sections : SUBSET Offered]
        /\ Edit = [step : {"idle", "writing"}, section : Offered \cup {AnyEntry.section},
                   lead : Instructors \cup {NoInstructor}, co : SUBSET Instructors,
                   sent : BOOLEAN]
    BY <2>3 DEF Planning, Edit
  <2>5. TeachingTypes => TeachingTypeOK
    BY <2>4 DEF TeachingTypes, TeachingTypeOK
  <2> QED BY <2>5 DEF TeachingInv
<1>2. TokensInv /\ AccountsInv /\ PlansInv /\ TeachingInv /\ SemesterInv /\ TranscriptsInv
        /\ CardInv
        => ServicesTypeOK
  BY <1>1 DEF TokensInv, AccountsInv, PlansInv, SemesterInv, TranscriptsInv, CardInv,
              ServicesTypeOK
<1> QED
  BY <1>2, ServicesRunAlone, TokensInvariant, AccountsInvariant, PlansInvariant,
     TeachingInvariant, SemesterInvariant, TranscriptsInvariant, CardInvariant, PTL
==============================================================================
