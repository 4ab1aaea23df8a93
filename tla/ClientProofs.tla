---------------------------- MODULE ClientProofs ----------------------------
(***************************************************************************)
(* Proofs about the parts of the page that MCClient puts side by side: for *)
(* each an invariant that its own steps keep, here or in PageProofs, and   *)
(* in the last section the theorems about all of them together.            *)
(***************************************************************************)
EXTENDS MCClient, PageProofs

-----------------------------------------------------------------------------
(* Who is signed in.                                                       *)

\* What completes the gate, or lies behind it, was vouched for.
GateInv ==
  /\ storedBirth \in {"none", "minor", "adult"}
  /\ storedComplete \in BOOLEAN /\ profileNeeded \in BOOLEAN /\ vouched \in BOOLEAN
  /\ begun \in BOOLEAN /\ persistent \in BOOLEAN
  /\ wizard \in {"closed", "mode", "devices", "prefs"}
  /\ storedComplete \/ storedBirth = "adult" \/ ~profileNeeded \/ wizard # "closed" \/ begun => vouched

AccountTypes ==
  /\ server \in {"cookie", "legacy"} /\ boot \in {"probing", "done"}
  /\ cookie \in MaybeAccount /\ memoryToken \in MaybeAccount
  /\ storedUser \in MaybeAccount /\ user \in MaybeAccount
  /\ sessions \subseteq Accounts
  /\ checks \in [Requests -> MaybeAccount \cup {Quiet}]
  /\ checks["login"] # NoUser
  /\ authOpen \in BOOLEAN /\ verifyLink \in BOOLEAN
  /\ overtaken \in BOOLEAN /\ unheard \in BOOLEAN

\* A bearer belongs to a page of a legacy server, and is good until something is
\* lost or ends; nothing is asked before the API was found.
BearerInv ==
  /\ server = "cookie" => memoryToken = NoUser /\ checks["refresh"] = Quiet
  /\ ~unheard => memoryToken \in sessions \cup {NoUser}
  /\ boot = "probing" => /\ checks["me"] = Quiet /\ checks["verify"] = Quiet
                        /\ checks["verifyMe"] = Quiet /\ checks["refresh"] = Quiet

\* Until the user signs in or out while the page is asking, what it asks with are its
\* credentials still, and what it has learnt is who they are.
AskedInv ==
  boot = "done" /\ ~overtaken /\ ~unheard =>
    /\ checks["refresh"] = Quiet
    /\ checks["me"] # Quiet => checks["me"] = Credentials
    /\ checks["verifyMe"] # Quiet => checks["verifyMe"] = Credentials
    /\ checks["me"] = Quiet => user = Credentials /\ (user = NoUser => memoryToken = NoUser)

IdentityInv == AccountTypes /\ GateInv /\ BearerInv /\ AskedInv
LEMMA AccountsApart ==
    /\ Quiet \in Nat /\ NoUser = 0 /\ NoUser \in MaybeAccount /\ Accounts \subseteq MaybeAccount
    /\ Quiet \notin MaybeAccount /\ NoUser \notin Accounts
    /\ \A x \in MaybeAccount : x # NoUser => x \in Accounts
<1>1. Cardinality(Accounts) \in Nat
  BY IdentityConstants, FS_CardinalityType
<1>2. PICK n \in Nat : n = Cardinality(Accounts)
  BY <1>1
<1>3. Accounts = 1 .. n /\ Quiet = 1 + n
  BY <1>2, IdentityConstants DEF Quiet
<1> QED BY <1>3 DEF MaybeAccount, NoUser

LEMMA CredentialsAre ==
    ASSUME AccountTypes
    PROVE  Credentials \in MaybeAccount /\ (Credentials # NoUser => Credentials \in sessions)
BY AccountsApart DEF Credentials, AccountTypes

LEMMA CredentialsStay ==
    ASSUME UNCHANGED <<server, cookie, memoryToken, sessions>>
    PROVE  Credentials' = Credentials
BY DEF Credentials

\* the gate under a step that shows somebody, and under one that does not
LEMMA GateApplied ==
    ASSUME GateInv, NEW a \in MaybeAccount, ApplyUser(a), persistent' = persistent,
           begun' \in BOOLEAN, begun' => begun, wizard' \in {wizard, "closed"}
    PROVE  GateInv' /\ user' = a
<1>1. user' = a
  BY DEF ApplyUser
<1>2. vouched' \in BOOLEAN /\ (vouched => vouched')
  BY AccountsApart DEF ApplyUser, ApplyUserToClient, IsAdult, GateInv
<1>3. /\ storedBirth' \in {"none", "minor", "adult"}
      /\ storedBirth' = "adult" => vouched'
  <2>1. CASE a = NoUser
    BY <2>1 DEF ApplyUser, GateInv
  <2>2. CASE a # NoUser
    <3>1. BirthOf[a] \in {"adult", "minor", "none"}
      BY <2>2, AccountsApart, IdentityConstants
    <3>2. /\ storedBirth' = Keeps(storedBirth, IF BirthOf[a] = "none" THEN storedBirth ELSE BirthOf[a])
          /\ vouched' = (vouched \/ BirthOf[a] = "adult")
      BY <2>2 DEF ApplyUser, ApplyUserToClient, IsAdult
    <3> QED BY <3>1, <3>2 DEF Keeps, GateInv
  <2> QED BY <2>1, <2>2
<1>4. /\ storedComplete' \in BOOLEAN /\ (storedComplete' => vouched')
      /\ profileNeeded' \in BOOLEAN /\ (~profileNeeded' => vouched')
  <2>1. CASE a = NoUser
    BY <2>1 DEF ApplyUser, GateInv, IsAgeGateComplete, IsAdult
  <2>2. CASE a # NoUser
    BY <2>2 DEF ApplyUser, ApplyUserToClient, GateInv, IsAgeGateComplete, IsAdult, Keeps
  <2> QED BY <2>1, <2>2
<1> QED BY <1>1, <1>2, <1>3, <1>4 DEF GateInv

LEMMA GateStill ==
    ASSUME GateInv,
           UNCHANGED <<storedBirth, storedComplete, profileNeeded, vouched, begun, persistent, wizard>>
    PROVE  GateInv'
BY DEF GateInv

\* A request is sent or ended.
LEMMA RequestAsked ==
    ASSUME AccountTypes, NEW k \in Requests, NEW v \in MaybeAccount \cup {Quiet},
           checks' = [checks EXCEPT ![k] = v]
    PROVE  /\ checks' \in [Requests -> MaybeAccount \cup {Quiet}] /\ checks'[k] = v
           /\ \A j \in Requests : j # k => checks'[j] = checks[j]
BY DEF AccountTypes

LEMMA RequestsAre ==
    /\ "me" \in Requests /\ "verify" \in Requests /\ "verifyMe" \in Requests
    /\ "refresh" \in Requests /\ "login" \in Requests /\ "logout" \in Requests
BY DEF Requests

\* What the proof of a step has to say when it concerns neither bearer nor answers.
LEMMA IdentityStill ==
    ASSUME IdentityInv, GateInv',
           UNCHANGED <<server, cookie, memoryToken, sessions, storedUser, user, boot, overtaken>>,
           checks' \in [Requests -> MaybeAccount \cup {Quiet}],
           checks'["me"] = checks["me"], checks'["verifyMe"] = checks["verifyMe"],
           checks'["refresh"] = checks["refresh"], checks'["verify"] \in {checks["verify"], Quiet},
           checks'["login"] # NoUser,
           authOpen' \in BOOLEAN, verifyLink' \in BOOLEAN, unheard' = unheard
    PROVE  IdentityInv'
<1>1. AccountTypes'
  BY DEF IdentityInv, AccountTypes
<1>2. BearerInv'
  <2>1. BearerInv
    BY DEF IdentityInv
  <2> QED BY ONLY <2>1, UNCHANGED <<server, memoryToken, sessions, boot>>, unheard' = unheard,
             checks'["me"] = checks["me"], checks'["verifyMe"] = checks["verifyMe"],
             checks'["refresh"] = checks["refresh"], checks'["verify"] \in {checks["verify"], Quiet}
          DEF BearerInv
<1>3. Credentials' = Credentials
  BY CredentialsStay
<1>4. AskedInv'
  BY <1>3 DEF IdentityInv, AskedInv
<1> QED BY <1>1, <1>2, <1>4 DEF IdentityInv

LEMMA IdentityStarts == IdentityInit => IdentityInv
<1> SUFFICES ASSUME IdentityInit PROVE IdentityInv
  OBVIOUS
<1>1. \A k \in Requests : checks[k] = Quiet
  BY DEF IdentityInit, Silence
<1>2. checks \in [Requests -> MaybeAccount \cup {Quiet}]
  BY DEF IdentityInit, Silence
<1>3. AccountTypes
  BY <1>1, <1>2, RequestsAre, AccountsApart DEF IdentityInit, AccountTypes
<1>4. GateInv
  BY DEF IdentityInit, GateInv
<1>5. BearerInv
  BY <1>1, RequestsAre DEF IdentityInit, BearerInv
<1>6. AskedInv
  BY DEF IdentityInit, AskedInv
<1> QED BY <1>3, <1>4, <1>5, <1>6 DEF IdentityInv

LEMMA BootsKeeps == ASSUME IdentityInv, Boots PROVE IdentityInv'
<1>1. /\ boot = "probing" /\ boot' = "done"
      /\ UNCHANGED <<server, persistent, cookie, sessions, memoryToken, storedUser, storedBirth,
                     storedComplete, user, profileNeeded, authOpen, wizard, verifyLink, vouched,
                     begun, overtaken, unheard>>
  BY DEF Boots, storage
<1>2. PICK v \in MaybeAccount \cup {Quiet} : v = IF verifyLink THEN Credentials ELSE Quiet
  BY CredentialsAre DEF IdentityInv
<1>3. Credentials \in MaybeAccount /\ Credentials' = Credentials
  BY <1>1, CredentialsAre, CredentialsStay DEF IdentityInv
<1>4. checks' = [checks EXCEPT !["me"] = Credentials, !["verify"] = v]
  BY <1>2 DEF Boots
<1>5. /\ checks' \in [Requests -> MaybeAccount \cup {Quiet}]
      /\ checks'["me"] = Credentials /\ checks'["verifyMe"] = checks["verifyMe"]
      /\ checks'["refresh"] = checks["refresh"] /\ checks'["login"] = checks["login"]
  BY <1>3, <1>4, RequestsAre DEF IdentityInv, AccountTypes
<1>6. AccountTypes'
  BY <1>1, <1>5 DEF IdentityInv, AccountTypes
<1>7. GateInv'
  BY <1>1, GateStill DEF IdentityInv
<1>8. BearerInv'
  BY <1>1, <1>5 DEF IdentityInv, BearerInv
<1>9. AskedInv'
  BY <1>1, <1>3, <1>5, AccountsApart DEF IdentityInv, AskedInv, BearerInv
<1> QED BY <1>6, <1>7, <1>8, <1>9 DEF IdentityInv

LEMMA MeAnswersKeeps == ASSUME IdentityInv, MeAnswers PROVE IdentityInv'
<1>1. /\ checks["me"] \in Accounts /\ Ends("me") /\ ApplyUser(checks["me"])
      /\ storedUser' = Keeps(storedUser, checks["me"])
      /\ UNCHANGED <<server, persistent, cookie, sessions, memoryToken, authOpen, wizard, boot,
                     verifyLink, begun, overtaken, unheard>>
  BY DEF MeAnswers
<1>2. PICK a \in Accounts : a = checks["me"]
  BY <1>1
<1>3. a \in MaybeAccount /\ a # NoUser /\ a # Quiet
  BY AccountsApart
<1>4. GateInv' /\ user' = a
  BY <1>1, <1>2, <1>3, GateApplied DEF IdentityInv, GateInv
<1>5. /\ checks' \in [Requests -> MaybeAccount \cup {Quiet}] /\ checks'["me"] = Quiet
      /\ \A j \in Requests : j # "me" => checks'[j] = checks[j]
  BY <1>1, RequestsAre, RequestAsked DEF Ends, IdentityInv
<1>6. storedUser' \in MaybeAccount
  BY <1>1, <1>2, <1>3 DEF Keeps, IdentityInv, AccountTypes
<1>8. /\ checks'["verifyMe"] = checks["verifyMe"] /\ checks'["refresh"] = checks["refresh"]
      /\ checks'["verify"] = checks["verify"] /\ checks'["login"] = checks["login"]
  BY <1>5, RequestsAre
<1>7. AccountTypes'
  BY <1>1, <1>3, <1>4, <1>5, <1>6, <1>8 DEF IdentityInv, AccountTypes
<1>9. BearerInv'
  BY <1>1, <1>5, <1>8 DEF IdentityInv, BearerInv
<1>10. Credentials' = Credentials
  BY <1>1, CredentialsStay
<1>11. AskedInv'
  BY <1>1, <1>2, <1>3, <1>4, <1>5, <1>8, <1>10 DEF IdentityInv, AskedInv
<1> QED BY <1>4, <1>7, <1>9, <1>11 DEF IdentityInv

LEMMA MeFailsKeeps == ASSUME IdentityInv, MeFails PROVE IdentityInv'
<1>a. /\ checks["me"] # Quiet
      /\ server' = server /\ persistent' = persistent /\ cookie' = cookie /\ sessions' = sessions
      /\ memoryToken' = memoryToken /\ storedUser' = storedUser /\ authOpen' = authOpen
      /\ wizard' = wizard /\ boot' = boot /\ verifyLink' = verifyLink /\ begun' = begun
      /\ overtaken' = overtaken
  BY DEF MeFails
<1>b. unheard \in BOOLEAN
  BY DEF IdentityInv, AccountTypes
<1>c. (checks["me"] \notin sessions /\ unheard' = unheard) \/ unheard' = TRUE
  BY DEF MeFails
<1>1. /\ checks["me"] # Quiet
      /\ UNCHANGED <<server, persistent, cookie, sessions, memoryToken, storedUser, authOpen, wizard,
                     boot, verifyLink, begun, overtaken>>
      /\ unheard' \in BOOLEAN /\ (unheard => unheard')
      /\ ~unheard' => checks["me"] \notin sessions
  BY <1>a, <1>b, <1>c
<1>2. boot = "done"
  BY <1>1 DEF IdentityInv, BearerInv, AccountTypes
<1>3. Credentials' = Credentials /\ Credentials \in MaybeAccount
      /\ (Credentials # NoUser => Credentials \in sessions)
  BY <1>1, CredentialsStay, CredentialsAre DEF IdentityInv
<1>4. ~overtaken /\ ~unheard' => Credentials = NoUser /\ memoryToken = NoUser
  <2> SUFFICES ASSUME ~overtaken, ~unheard' PROVE Credentials = NoUser /\ memoryToken = NoUser
    OBVIOUS
  <2>1. ~unheard /\ checks["me"] \notin sessions /\ checks["me"] = Credentials
    BY <1>1, <1>2 DEF IdentityInv, AskedInv
  <2>2. Credentials = NoUser
    BY <2>1, <1>3
  <2>3. memoryToken \in sessions \cup {NoUser} /\ (server = "cookie" => memoryToken = NoUser)
    BY <2>1 DEF IdentityInv, BearerInv
  <2> QED BY <2>2, <2>3 DEF Credentials, IdentityInv, AccountTypes
<1>5. CASE memoryToken = NoUser
  <2>1. Ends("me") /\ ApplyUser(NoUser)
    BY <1>5 DEF MeFails
  <2>2. GateInv' /\ user' = NoUser
    BY <1>1, <2>1, AccountsApart, GateApplied DEF IdentityInv, GateInv
  <2>3. /\ checks' \in [Requests -> MaybeAccount \cup {Quiet}] /\ checks'["me"] = Quiet
        /\ \A j \in Requests : j # "me" => checks'[j] = checks[j]
    BY <2>1, RequestsAre, RequestAsked DEF Ends, IdentityInv
  <2>4. /\ checks'["verifyMe"] = checks["verifyMe"] /\ checks'["refresh"] = checks["refresh"]
        /\ checks'["verify"] = checks["verify"] /\ checks'["login"] = checks["login"]
    BY <2>3, RequestsAre
  <2>5. AccountTypes'
    BY <1>1, <2>2, <2>3, <2>4, AccountsApart DEF IdentityInv, AccountTypes
  <2>6. BearerInv'
    BY <1>1, <2>3, <2>4 DEF IdentityInv, BearerInv
  <2>7. AskedInv'
    BY <1>1, <1>3, <1>4, <2>2, <2>3, <2>4 DEF IdentityInv, AskedInv
  <2> QED BY <2>2, <2>5, <2>6, <2>7 DEF IdentityInv
<1>6. CASE memoryToken # NoUser
  <2>1. /\ checks' = [checks EXCEPT !["me"] = Quiet, !["refresh"] = Credentials]
        /\ UNCHANGED <<user, profileNeeded, storedBirth, storedComplete, vouched>>
    BY <1>6 DEF MeFails
  <2>2. GateInv'
    BY <1>1, <2>1, GateStill DEF IdentityInv
  <2>3. checks' \in [Requests -> MaybeAccount \cup {Quiet}] /\ checks'["login"] = checks["login"]
    BY <2>1, <1>3, RequestsAre DEF IdentityInv, AccountTypes
  <2>4. AccountTypes'
    BY <1>1, <2>1, <2>3 DEF IdentityInv, AccountTypes
  <2>5. server # "cookie"
    BY <1>6 DEF IdentityInv, BearerInv
  <2>6. BearerInv'
    BY <1>1, <1>2, <2>5 DEF IdentityInv, BearerInv
  <2>7. AskedInv'
    BY <1>1, <1>4, <1>6 DEF AskedInv
  <2> QED BY <2>2, <2>4, <2>6, <2>7 DEF IdentityInv
<1> QED BY <1>5, <1>6

LEMMA RefreshKeeps == ASSUME IdentityInv, RefreshAnswers \/ RefreshFails PROVE IdentityInv'
<1>1. checks["refresh"] # Quiet /\ Ends("refresh")
  BY AccountsApart DEF RefreshAnswers, RefreshFails
<1>2. /\ UNCHANGED <<server, persistent, cookie, authOpen, wizard, boot, verifyLink, begun,
                     overtaken, unheard>>
  BY DEF RefreshAnswers, RefreshFails
<1>3. overtaken \/ unheard
  BY <1>1 DEF IdentityInv, AskedInv, BearerInv, AccountTypes
<1>4. server # "cookie" /\ boot # "probing"
  BY <1>1 DEF IdentityInv, BearerInv
<1>5. PICK a \in MaybeAccount :
        /\ ApplyUser(a) /\ memoryToken' = a /\ storedUser' = Keeps(storedUser, a)
        /\ sessions' \subseteq Accounts /\ sessions \subseteq sessions'
        /\ a # NoUser => a \in sessions'
  <2>1. CASE RefreshAnswers
    BY <2>1, AccountsApart DEF RefreshAnswers, IdentityInv, AccountTypes
  <2>2. CASE RefreshFails
    BY <2>2, AccountsApart DEF RefreshFails, IdentityInv, AccountTypes
  <2> QED BY <2>1, <2>2
<1>6. GateInv' /\ user' = a
  BY <1>2, <1>5, GateApplied DEF IdentityInv, GateInv
<1>7. /\ checks' \in [Requests -> MaybeAccount \cup {Quiet}]
      /\ checks'["login"] = checks["login"]
  BY <1>1, RequestsAre, RequestAsked DEF Ends, IdentityInv
<1>8. storedUser' \in MaybeAccount
  BY <1>5 DEF Keeps, IdentityInv, AccountTypes
<1>9. AccountTypes'
  BY <1>2, <1>5, <1>6, <1>7, <1>8 DEF IdentityInv, AccountTypes
<1>10. BearerInv'
  BY <1>2, <1>4, <1>5 DEF IdentityInv, BearerInv
<1>11. AskedInv'
  BY <1>2, <1>3 DEF AskedInv
<1> QED BY <1>6, <1>9, <1>10, <1>11 DEF IdentityInv

LEMMA VerifyAnswersKeeps == ASSUME IdentityInv, VerifyAnswers PROVE IdentityInv'
<1>1. /\ checks["verify"] # Quiet
      /\ UNCHANGED <<server, persistent, cookie, sessions, memoryToken, storedUser, storedBirth,
                     storedComplete, user, profileNeeded, authOpen, wizard, boot, vouched,
                     begun, overtaken, unheard>>
      /\ verifyLink' \in BOOLEAN
  BY DEF VerifyAnswers, storage, shownPage, IdentityInv, AccountTypes
<1>2. GateInv'
  BY <1>1, GateStill DEF IdentityInv
<1>3. Credentials' = Credentials /\ Credentials \in MaybeAccount
  BY <1>1, CredentialsStay, CredentialsAre DEF IdentityInv
<1>4. CASE Ends("verify")
  <2>1. /\ checks' \in [Requests -> MaybeAccount \cup {Quiet}]
        /\ \A j \in Requests : j # "verify" => checks'[j] = checks[j]
    BY <1>4, RequestsAre, RequestAsked DEF Ends, IdentityInv
  <2>2. /\ checks'["me"] = checks["me"] /\ checks'["verifyMe"] = checks["verifyMe"]
        /\ checks'["refresh"] = checks["refresh"] /\ checks'["login"] = checks["login"]
        /\ checks'["verify"] = Quiet
    BY <1>4, <2>1, RequestsAre, AccountsApart DEF Ends, IdentityInv, AccountTypes
  <2> QED BY <1>1, <1>2, <2>1, <2>2, IdentityStill DEF IdentityInv, AccountTypes
<1>5. CASE checks' = [checks EXCEPT !["verify"] = Quiet, !["verifyMe"] = Credentials]
  <2>1. /\ checks' \in [Requests -> MaybeAccount \cup {Quiet}]
        /\ checks'["me"] = checks["me"] /\ checks'["verifyMe"] = Credentials
        /\ checks'["refresh"] = checks["refresh"] /\ checks'["login"] = checks["login"]
    BY <1>3, <1>5, RequestsAre DEF IdentityInv, AccountTypes
  <2>2. AccountTypes'
    BY <1>1, <2>1 DEF IdentityInv, AccountTypes
  <2>3. boot # "probing"
    BY <1>1 DEF IdentityInv, BearerInv
  <2>4. BearerInv'
    BY <1>1, <2>1, <2>3 DEF IdentityInv, BearerInv
  <2>5. AskedInv'
    BY <1>1, <1>3, <2>1 DEF IdentityInv, AskedInv
  <2> QED BY <1>2, <2>2, <2>4, <2>5 DEF IdentityInv
<1> QED BY <1>4, <1>5 DEF VerifyAnswers
LEMMA VerifyMeAnswersKeeps == ASSUME IdentityInv, VerifyMeAnswers PROVE IdentityInv'
<1>1. /\ checks["verifyMe"] # Quiet /\ Ends("verifyMe")
      /\ server' = server /\ persistent' = persistent /\ cookie' = cookie /\ sessions' = sessions
      /\ memoryToken' = memoryToken /\ storedUser' = storedUser /\ authOpen' = authOpen
      /\ wizard' = wizard /\ boot' = boot /\ verifyLink' = verifyLink /\ begun' = begun
      /\ overtaken' = overtaken /\ unheard' = unheard
  BY DEF VerifyMeAnswers, counts
<1>2. /\ checks' \in [Requests -> MaybeAccount \cup {Quiet}] /\ checks'["verifyMe"] = Quiet
      /\ \A j \in Requests : j # "verifyMe" => checks'[j] = checks[j]
  BY <1>1, RequestsAre, RequestAsked DEF Ends, IdentityInv
<1>3. /\ checks'["me"] = checks["me"] /\ checks'["refresh"] = checks["refresh"]
      /\ checks'["verify"] = checks["verify"] /\ checks'["login"] = checks["login"]
  BY <1>2, RequestsAre
<1>4. Credentials' = Credentials
  BY <1>1, CredentialsStay
<1>5. BearerInv'
  BY <1>1, <1>2, <1>3 DEF IdentityInv, BearerInv
<1>6. CASE /\ checks["verifyMe"] \notin sessions
           /\ UNCHANGED <<user, profileNeeded, storedBirth, storedComplete, vouched>>
  <2>1. GateInv'
    BY <1>1, <1>6, GateStill DEF IdentityInv
  <2>2. AccountTypes'
    BY <1>1, <1>2, <1>3, <1>6 DEF IdentityInv, AccountTypes
  <2>3. AskedInv'
    BY <1>1, <1>2, <1>3, <1>4, <1>6 DEF IdentityInv, AskedInv
  <2> QED BY <2>1, <2>2, <1>5, <2>3 DEF IdentityInv
<1>7. CASE checks["verifyMe"] \in Accounts /\ ApplyUser(checks["verifyMe"])
  <2>1. PICK a \in Accounts : a = checks["verifyMe"]
    BY <1>7
  <2>2. a \in MaybeAccount /\ a # NoUser /\ a # Quiet
    BY AccountsApart
  <2>3. GateInv' /\ user' = a
    BY <1>1, <1>7, <2>1, <2>2, GateApplied DEF IdentityInv, GateInv
  <2>4. AccountTypes'
    BY <1>1, <1>2, <1>3, <2>2, <2>3 DEF IdentityInv, AccountTypes
  <2>5. AskedInv'
    BY <1>1, <1>2, <1>3, <1>4, <2>1, <2>2, <2>3 DEF IdentityInv, AskedInv
  <2> QED BY <2>3, <2>4, <1>5, <2>5 DEF IdentityInv
<1> QED BY <1>6, <1>7 DEF VerifyMeAnswers

LEMMA OpenAuthKeeps == ASSUME IdentityInv, OpenAuth PROVE IdentityInv'
<1>1. /\ authOpen' = TRUE /\ checks' = checks
      /\ server' = server /\ persistent' = persistent /\ cookie' = cookie /\ sessions' = sessions
      /\ memoryToken' = memoryToken /\ storedUser' = storedUser /\ storedBirth' = storedBirth
      /\ storedComplete' = storedComplete /\ user' = user /\ profileNeeded' = profileNeeded
      /\ wizard' = wizard /\ boot' = boot /\ verifyLink' = verifyLink /\ vouched' = vouched
      /\ begun' = begun /\ overtaken' = overtaken /\ unheard' = unheard
  BY DEF OpenAuth, storage
<1>2. GateInv'
  BY <1>1, GateStill DEF IdentityInv
<1> QED BY <1>1, <1>2, IdentityStill DEF IdentityInv, AccountTypes

\* a request of the user's own is sent, or one that changes nothing ends
LEMMA OwnRequestKeeps ==
    ASSUME IdentityInv, NEW k \in {"login", "logout"}, NEW v \in MaybeAccount \cup {Quiet},
           k = "login" => v # NoUser, checks' = [checks EXCEPT ![k] = v],
           UNCHANGED <<server, persistent, cookie, sessions, memoryToken, storedUser, storedBirth,
                       storedComplete, user, profileNeeded, authOpen, wizard, boot, verifyLink, vouched,
                       begun, overtaken, unheard>>
    PROVE  IdentityInv'
<1>1. k \in Requests /\ k # "me" /\ k # "verifyMe" /\ k # "refresh"
  BY DEF Requests
<1>2. /\ checks' \in [Requests -> MaybeAccount \cup {Quiet}]
      /\ \A j \in Requests : j # k => checks'[j] = checks[j]
      /\ checks'[k] = v
  BY <1>1, RequestAsked DEF IdentityInv
<1>b. checks'["login"] # NoUser
  BY <1>2, RequestsAre DEF IdentityInv, AccountTypes
<1>3. /\ checks'["me"] = checks["me"] /\ checks'["verifyMe"] = checks["verifyMe"]
      /\ checks'["refresh"] = checks["refresh"] /\ checks'["verify"] = checks["verify"]
  BY <1>1, <1>2, RequestsAre
<1>4. GateInv'
  BY GateStill DEF IdentityInv
<1> QED BY <1>2, <1>b, <1>3, <1>4, IdentityStill DEF IdentityInv, AccountTypes

LEMMA RequestsOfUserKeep ==
    ASSUME IdentityInv, LoginFails \/ Logout \/ \E a \in Accounts : Submit(a)
    PROVE  IdentityInv'
<1>1. UNCHANGED <<server, persistent, cookie, sessions, memoryToken, storedUser, storedBirth,
                  storedComplete, user, profileNeeded, authOpen, wizard, boot, verifyLink, vouched,
                  begun, overtaken, unheard>>
  <2>1. CASE LoginFails
    BY <2>1 DEF LoginFails, storage, shownPage
  <2>2. CASE Logout
    BY <2>2 DEF Logout, storage, shownPage
  <2>3. CASE \E a \in Accounts : Submit(a)
    BY <2>3 DEF Submit, storage, shownPage
  <2> QED BY <2>1, <2>2, <2>3
<1>2. PICK k \in {"login", "logout"}, v \in MaybeAccount \cup {Quiet} :
        checks' = [checks EXCEPT ![k] = v] /\ (k = "login" => v # NoUser)
  <2>1. CASE LoginFails
    BY <2>1, AccountsApart DEF LoginFails, Ends
  <2>2. CASE Logout
    BY <2>2, CredentialsAre DEF Logout, Sends, IdentityInv
  <2>3. CASE \E a \in Accounts : Submit(a)
    BY <2>3, AccountsApart DEF Submit, Sends
  <2> QED BY <2>1, <2>2, <2>3
<1> QED BY <1>1, <1>2, OwnRequestKeeps

\* the user signed in or out: nothing that was asked before is about who they are now
LEMMA LoginAnswersKeeps == ASSUME IdentityInv, LoginAnswers PROVE IdentityInv'
<1>1. /\ checks["login"] # Quiet /\ Ends("login") /\ ApplyUser(checks["login"])
      /\ sessions' = sessions \cup {checks["login"]}
      /\ storedUser' = Keeps(storedUser, checks["login"])
      /\ authOpen' = FALSE /\ overtaken' = (overtaken \/ Asking)
      /\ server' = server /\ persistent' = persistent /\ wizard' = wizard /\ boot' = boot
      /\ verifyLink' = verifyLink /\ begun' = begun /\ unheard' = unheard
  BY DEF LoginAnswers
<1>2. PICK a \in MaybeAccount : a = checks["login"]
  BY <1>1, RequestsAre DEF IdentityInv, AccountTypes
<1>3. a # NoUser /\ a # Quiet /\ a \in Accounts
  BY <1>2, AccountsApart DEF IdentityInv, AccountTypes
<1>4. /\ server = "cookie" => cookie' = a /\ memoryToken' = NoUser
      /\ server # "cookie" => memoryToken' = a /\ cookie' = cookie
  BY <1>2 DEF LoginAnswers
<1>5. GateInv' /\ user' = a
  BY <1>1, <1>2, <1>3, GateApplied DEF IdentityInv, GateInv
<1>6. /\ checks' \in [Requests -> MaybeAccount \cup {Quiet}] /\ checks'["login"] = Quiet
      /\ \A j \in Requests : j # "login" => checks'[j] = checks[j]
  BY <1>1, RequestsAre, RequestAsked DEF Ends, IdentityInv
<1>7. /\ checks'["me"] = checks["me"] /\ checks'["verifyMe"] = checks["verifyMe"]
      /\ checks'["refresh"] = checks["refresh"] /\ checks'["verify"] = checks["verify"]
  BY <1>6, RequestsAre
<1>8. /\ storedUser' \in MaybeAccount /\ cookie' \in MaybeAccount /\ memoryToken' \in MaybeAccount
      /\ sessions' \subseteq Accounts /\ a \in sessions'
  BY <1>1, <1>2, <1>3, <1>4, AccountsApart DEF Keeps, IdentityInv, AccountTypes
<1>9. overtaken' \in BOOLEAN
  BY <1>1 DEF IdentityInv, AccountTypes, Asking
<1>10. AccountTypes'
  BY <1>1, <1>3, <1>5, <1>6, <1>8, <1>9, AccountsApart DEF IdentityInv, AccountTypes
<1>11. BearerInv'
  BY <1>1, <1>4, <1>7, <1>8 DEF IdentityInv, BearerInv
<1>12. Credentials' = a
  BY <1>1, <1>4, <1>8 DEF Credentials
<1>13. ~overtaken' => checks["me"] = Quiet /\ checks["verifyMe"] = Quiet /\ checks["refresh"] = Quiet
  BY <1>1 DEF Asking
<1>14. AskedInv'
  BY <1>3, <1>5, <1>7, <1>12, <1>13 DEF AskedInv
<1> QED BY <1>5, <1>10, <1>11, <1>14 DEF IdentityInv

LEMMA LogoutAnswersKeeps == ASSUME IdentityInv, LogoutAnswers PROVE IdentityInv'
<1>1. /\ checks["logout"] # Quiet /\ Ends("logout") /\ ApplyUser(NoUser) /\ memoryToken' = NoUser
      /\ storedUser' = Keeps(storedUser, NoUser)
      /\ overtaken' = (overtaken \/ Asking \/ checks["login"] # Quiet)
      /\ server' = server /\ persistent' = persistent /\ wizard' = wizard /\ boot' = boot
      /\ verifyLink' = verifyLink /\ begun' = begun /\ authOpen' = authOpen
  BY DEF LogoutAnswers
<1>2. /\ sessions' \subseteq sessions /\ cookie' \in {cookie, NoUser}
      /\ unheard' \in BOOLEAN
      /\ ~unheard' => cookie' = NoUser
  <2>1. CASE sessions' = sessions \ {checks["logout"]} /\ cookie' = NoUser /\ unheard' = unheard
    BY <2>1 DEF IdentityInv, AccountTypes
  <2>2. CASE unheard' = TRUE /\ UNCHANGED <<sessions, cookie>>
    BY <2>2
  <2> QED BY <2>1, <2>2 DEF LogoutAnswers
<1>3. GateInv' /\ user' = NoUser
  BY <1>1, AccountsApart, GateApplied DEF IdentityInv, GateInv
<1>4. /\ checks' \in [Requests -> MaybeAccount \cup {Quiet}]
      /\ \A j \in Requests : j # "logout" => checks'[j] = checks[j]
  BY <1>1, RequestsAre, RequestAsked DEF Ends, IdentityInv
<1>5. /\ checks'["me"] = checks["me"] /\ checks'["verifyMe"] = checks["verifyMe"]
      /\ checks'["refresh"] = checks["refresh"] /\ checks'["verify"] = checks["verify"]
      /\ checks'["login"] = checks["login"]
  BY <1>4, RequestsAre
<1>6. /\ storedUser' \in MaybeAccount /\ cookie' \in MaybeAccount /\ sessions' \subseteq Accounts
  BY <1>1, <1>2, AccountsApart DEF Keeps, IdentityInv, AccountTypes
<1>7. overtaken' \in BOOLEAN
  BY <1>1 DEF IdentityInv, AccountTypes, Asking
<1>8. AccountTypes'
  BY <1>1, <1>2, <1>3, <1>4, <1>5, <1>6, <1>7, AccountsApart DEF IdentityInv, AccountTypes
<1>9. BearerInv'
  BY <1>1, <1>5 DEF IdentityInv, BearerInv
<1>10. ~unheard' => Credentials' = NoUser
  BY <1>1, <1>2 DEF Credentials
<1>11. ~overtaken' => checks["me"] = Quiet /\ checks["verifyMe"] = Quiet /\ checks["refresh"] = Quiet
  BY <1>1 DEF Asking
<1>12. AskedInv'
  BY <1>1, <1>3, <1>5, <1>10, <1>11 DEF AskedInv
<1> QED BY <1>3, <1>8, <1>9, <1>12 DEF IdentityInv

LEMMA ExpiresKeeps == ASSUME IdentityInv, NEW a \in Accounts, Expires(a) PROVE IdentityInv'
<1>1. /\ sessions' = sessions \ {a} /\ unheard' = TRUE
      /\ server' = server /\ persistent' = persistent /\ cookie' = cookie
      /\ memoryToken' = memoryToken /\ storedUser' = storedUser /\ storedBirth' = storedBirth
      /\ storedComplete' = storedComplete /\ user' = user /\ profileNeeded' = profileNeeded
      /\ authOpen' = authOpen /\ wizard' = wizard /\ boot' = boot /\ verifyLink' = verifyLink
      /\ checks' = checks /\ vouched' = vouched /\ begun' = begun /\ overtaken' = overtaken
  BY DEF Expires, storage, shownPage
<1>2. GateInv'
  BY <1>1, GateStill DEF IdentityInv
<1>3. AccountTypes'
  BY <1>1 DEF IdentityInv, AccountTypes
<1>4. BearerInv'
  BY <1>1 DEF IdentityInv, BearerInv
<1>5. AskedInv'
  BY <1>1 DEF AskedInv
<1> QED BY <1>2, <1>3, <1>4, <1>5 DEF IdentityInv

LEMMA ReloadKeeps == ASSUME IdentityInv, Reload PROVE IdentityInv'
<1>1. /\ memoryToken' = NoUser /\ checks' = Silence /\ boot' = "probing" /\ ApplyUser(storedUser)
      /\ authOpen' = FALSE /\ wizard' = "closed" /\ begun' = FALSE /\ overtaken' = FALSE
      /\ unheard' = FALSE
      /\ server' = server /\ persistent' = persistent /\ cookie' = cookie /\ sessions' = sessions
      /\ storedUser' = storedUser /\ verifyLink' = verifyLink
  BY DEF Reload
<1>2. storedUser \in MaybeAccount
  BY DEF IdentityInv, AccountTypes
<1>3. GateInv' /\ user' = storedUser
  BY <1>1, <1>2, GateApplied DEF IdentityInv, GateInv
<1>4. checks' \in [Requests -> MaybeAccount \cup {Quiet}] /\ \A k \in Requests : checks'[k] = Quiet
  BY <1>1 DEF Silence
<1>5. AccountTypes'
  BY <1>1, <1>2, <1>3, <1>4, RequestsAre, AccountsApart DEF IdentityInv, AccountTypes
<1>6. BearerInv'
  BY <1>1, <1>4, RequestsAre DEF BearerInv
<1>7. AskedInv'
  BY <1>1 DEF AskedInv
<1> QED BY <1>3, <1>5, <1>6, <1>7 DEF IdentityInv

LEMMA GateStepsKeep ==
    ASSUME IdentityInv, OnStartClick \/ WizardStep \/ \E birth \in {"adult", "minor"} : Complete(birth)
    PROVE  IdentityInv'
<1>1. /\ server' = server /\ persistent' = persistent /\ cookie' = cookie /\ sessions' = sessions
      /\ memoryToken' = memoryToken /\ storedUser' = storedUser /\ user' = user
      /\ authOpen' = authOpen /\ boot' = boot /\ verifyLink' = verifyLink
      /\ checks' = checks /\ overtaken' = overtaken /\ unheard' = unheard
  <2>1. CASE OnStartClick
    BY <2>1 DEF OnStartClick, storage
  <2>2. CASE WizardStep
    BY <2>2 DEF WizardStep, storage
  <2>3. CASE \E birth \in {"adult", "minor"} : Complete(birth)
    BY <2>3 DEF Complete
  <2> QED BY <2>1, <2>2, <2>3
<1>2. GateInv'
  <2>1. CASE OnStartClick
    <3>1. /\ storedBirth' = storedBirth /\ storedComplete' = storedComplete
          /\ profileNeeded' = profileNeeded /\ vouched' = vouched /\ ~profileNeeded
          /\ wizard' \in {wizard, "mode"} /\ begun' \in {begun, TRUE}
      BY <2>1 DEF OnStartClick, storage
    <3> QED BY <1>1, <3>1 DEF IdentityInv, GateInv
  <2>2. CASE WizardStep
    <3>1. /\ storedBirth' = storedBirth /\ storedComplete' = storedComplete
          /\ profileNeeded' = profileNeeded /\ vouched' = vouched
          /\ wizard' \in {"devices", "prefs", "closed"} /\ begun' \in {begun, TRUE}
          /\ wizard # "closed"
      BY <2>2 DEF WizardStep, storage
    <3> QED BY <1>1, <3>1 DEF IdentityInv, GateInv
  <2>3. CASE \E birth \in {"adult", "minor"} : Complete(birth)
    <3>1. /\ storedBirth' \in {storedBirth, "adult"} /\ storedComplete' \in {storedComplete, TRUE}
          /\ profileNeeded' = FALSE /\ vouched' = TRUE /\ wizard' = wizard /\ begun' = begun
      BY <2>3 DEF Complete, IsAdult, Keeps
    <3> QED BY <1>1, <3>1 DEF IdentityInv, GateInv
  <2> QED BY <2>1, <2>2, <2>3
<1> QED BY <1>1, <1>2, IdentityStill DEF IdentityInv, AccountTypes

LEMMA IdentityStep == ASSUME IdentityInv, [IdentityNext]_identityVars PROVE IdentityInv'
<1>1. CASE UNCHANGED identityVars
  <2>1. /\ server' = server /\ persistent' = persistent /\ cookie' = cookie /\ sessions' = sessions
        /\ memoryToken' = memoryToken /\ storedUser' = storedUser /\ storedBirth' = storedBirth
        /\ storedComplete' = storedComplete /\ user' = user /\ profileNeeded' = profileNeeded
        /\ authOpen' = authOpen /\ wizard' = wizard /\ boot' = boot /\ verifyLink' = verifyLink
        /\ checks' = checks /\ vouched' = vouched /\ begun' = begun /\ overtaken' = overtaken
        /\ unheard' = unheard
    BY <1>1 DEF identityVars, storage, shownPage
  <2>2. GateInv'
    BY <2>1, GateStill DEF IdentityInv
  <2> QED BY <2>1, <2>2, IdentityStill DEF IdentityInv, AccountTypes
<1>2. CASE IdentityNext
  BY <1>2, BootsKeeps, MeAnswersKeeps, MeFailsKeeps, RefreshKeeps, VerifyAnswersKeeps,
     VerifyMeAnswersKeeps, OpenAuthKeeps, RequestsOfUserKeep, LoginAnswersKeeps, LogoutAnswersKeeps,
     ExpiresKeeps, ReloadKeeps, GateStepsKeep
  DEF IdentityNext
<1> QED BY <1>1, <1>2

LEMMA IdentityMeans == ASSUME IdentityInv PROVE IdentityTypeOK /\ IdentityAgrees /\ GateKept
<1>1. IdentityTypeOK
  BY DEF IdentityInv, AccountTypes, GateInv, IdentityTypeOK
<1>2. IdentityAgrees
  <2>1. checks = Silence => checks["me"] = Quiet
    BY RequestsAre DEF Silence
  <2> QED BY <2>1 DEF IdentityInv, AskedInv, IdentityAgrees
<1>3. GateKept
  BY DEF IdentityInv, GateInv, GateKept
<1> QED BY <1>1, <1>2, <1>3

-----------------------------------------------------------------------------
(* The controls of a call: what a report or a block is about.              *)

\* A report or a block names the account of the tile it was given from, if it has one.
FairOrders == {o \in Order : o.kind \in {"report", "block"} => o.id = AsId(o.aim)}

FairNotices == {n \in Notice : n.kind = "matched" => n.who \in Strangers}

\* What the server holds and was told.
AtServer ==
  /\ partner \in Somebody /\ queued \in BOOLEAN /\ (queued => partner = 0)
  /\ meetings \in Nat /\ meetings <= MaxMeetings
  /\ hits \subseteq Hit /\ ReportsHitTheirTile

OnWire == orders \in Seq(FairOrders) /\ notices \in Seq(FairNotices)

\* What the page shows: a tile has its stranger, an open report is about the tile it came from.
AtTile ==
  /\ phase \in {"idle", "finding", "matched"} /\ requeues \in Nat /\ peer \in Somebody
  /\ signedIn \in BOOLEAN
  /\ phase = "matched" => peer \in Strangers
AtMenus ==
  /\ tileMenu \in BOOLEAN /\ finger \in {"up", "pressed", "long"} /\ barMenu \in BOOLEAN
AtDialog ==
  /\ dialog \in {"none", "report", "rating"} /\ target \in Somebody /\ aim \in Somebody
  /\ dialog = "report" => aim \in Strangers /\ target = AsId(aim)

ControlsInv == AtServer /\ OnWire /\ AtTile /\ AtMenus /\ AtDialog

\* A stranger has a number, and is named by it or not at all.
LEMMA StrangersAre ==
  /\ \A s \in Strangers : s \in Nat /\ s # 0 /\ s \in Somebody /\ AsId(s) \in {s, 0}
  /\ 0 \in Somebody /\ AsId(0) = 0
  /\ \A s \in Somebody : AsId(s) \in Somebody
  /\ \A s \in Strangers : s \notin Guests => AsId(s) = s
  BY ControlsConstants DEF Somebody, AsId

LEMMA NobodyIs == 0 \in Somebody
  BY DEF Somebody

\* The frames the page and the server write.
LEMMA CommandsAre == [kind |-> "next"] \in FairOrders /\ [kind |-> "leave"] \in FairOrders
  BY DEF FairOrders, Order

LEMMA AckIs == [kind |-> "ack"] \in FairNotices
  BY DEF FairNotices, Notice

LEMMA NoticesAre ==
  /\ \A s \in Somebody : [kind |-> "left", who |-> s] \in FairNotices
  /\ \A s \in Strangers : [kind |-> "matched", who |-> s] \in FairNotices
<1>1. \A s \in Somebody : [kind |-> "left", who |-> s] \in FairNotices
  BY DEF FairNotices, Notice
<1>2. \A s \in Strangers : [kind |-> "matched", who |-> s] \in FairNotices
  BY StrangersAre DEF FairNotices, Notice
<1> QED BY <1>1, <1>2

LEMMA ComplaintsAre ==
  ASSUME NEW s \in Strangers
  PROVE  /\ [kind |-> "report", id |-> AsId(s), aim |-> s] \in FairOrders
         /\ [kind |-> "block", id |-> AsId(s), aim |-> s] \in FairOrders
<1>1. AsId(s) \in Somebody
  BY StrangersAre
<1> QED BY <1>1 DEF FairOrders, Order

\* What a step leaves alone stays as it was.
LEMMA ServerStill ==
  ASSUME AtServer, partner' = partner, queued' = queued, meetings' = meetings, hits' = hits
  PROVE  AtServer'
  BY DEF AtServer, ReportsHitTheirTile

\* An order ends the match; a report or a block of the tile's own stranger may be stored.
LEMMA CommandStored ==
  ASSUME AtServer, partner' = 0, queued' \in BOOLEAN, meetings' = meetings,
         NEW h \in Hit, h.aim \notin Guests => h.hit \in {h.aim, 0}, hits' = hits \cup {h}
  PROVE  AtServer'
<1>1. partner' \in Somebody
  BY NobodyIs
<1>2. queued' => partner' = 0
  OBVIOUS
<1>3. ReportsHitTheirTile'
  BY DEF AtServer, ReportsHitTheirTile
<1>4. meetings' \in Nat /\ meetings' <= MaxMeetings
  BY DEF AtServer
<1>5. hits' \subseteq Hit
  BY DEF AtServer
<1> QED BY <1>1, <1>2, <1>3, <1>4, <1>5 DEF AtServer

LEMMA ServerLetsGo ==
  ASSUME AtServer, partner' = 0, queued' \in BOOLEAN, meetings' = meetings, hits' = hits
  PROVE  AtServer'
<1>1. partner' \in Somebody
  BY NobodyIs
<1>2. queued' => partner' = 0
  OBVIOUS
<1>3. ReportsHitTheirTile'
  BY DEF AtServer, ReportsHitTheirTile
<1>4. meetings' \in Nat /\ meetings' <= MaxMeetings
  BY DEF AtServer
<1>5. hits' \subseteq Hit
  BY DEF AtServer
<1> QED BY <1>1, <1>2, <1>3, <1>4, <1>5 DEF AtServer

\* A frame more, or one less, on either way.
LEMMA OneMore == ASSUME NEW S, NEW q \in Seq(S), NEW x \in S PROVE Append(q, x) \in Seq(S)
  OBVIOUS

LEMMA TileStill ==
  ASSUME AtTile, phase' = phase, requeues' = requeues, peer' = peer, signedIn' = signedIn
  PROVE  AtTile'
  BY DEF AtTile

LEMMA MenusStill ==
  ASSUME AtMenus, tileMenu' = tileMenu, finger' = finger, barMenu' = barMenu PROVE AtMenus'
  BY DEF AtMenus

LEMMA DialogStill ==
  ASSUME AtDialog, dialog' = dialog, target' = target, aim' = aim PROVE AtDialog'
  BY DEF AtDialog

LEMMA ControlsStart == ASSUME ControlsInit PROVE ControlsInv
<1>1. AtServer
  BY StrangersAre, ControlsConstants DEF ControlsInit, AtServer, ReportsHitTheirTile
<1>2. OnWire
  BY DEF ControlsInit, OnWire
<1>3. AtTile /\ AtMenus /\ AtDialog
  BY StrangersAre DEF ControlsInit, AtTile, AtMenus, AtDialog
<1> QED BY <1>1, <1>2, <1>3 DEF ControlsInv

LEMMA ServerMeetsKeeps ==
  ASSUME ControlsInv, NEW s \in Strangers, ServerMeets(s) PROVE ControlsInv'
<1> USE DEF ControlsInv
<1>1. OnWire'
  <2>1. [kind |-> "matched", who |-> s] \in FairNotices
    BY NoticesAre
  <2> QED BY <2>1, OneMore DEF ServerMeets, OnWire
<1>2. AtServer'
  <2>1. partner' \in Somebody /\ queued' = FALSE /\ hits' = hits
    BY StrangersAre DEF ServerMeets
  <2>2. meetings' \in Nat /\ meetings' <= MaxMeetings
    BY ControlsConstants DEF ServerMeets, AtServer
  <2> QED BY <2>1, <2>2 DEF AtServer, ReportsHitTheirTile
<1>3. AtTile'
  BY TileStill DEF ServerMeets
<1>4. AtMenus' /\ AtDialog'
  BY MenusStill, DialogStill DEF ServerMeets, gestures
<1> QED BY <1>1, <1>2, <1>3, <1>4

LEMMA PartnerLeavesKeeps == ASSUME ControlsInv, PartnerLeaves PROVE ControlsInv'
<1> USE DEF ControlsInv
<1>1. OnWire'
  <2>1. [kind |-> "left", who |-> partner] \in FairNotices
    BY NoticesAre DEF AtServer
  <2> QED BY <2>1, OneMore DEF PartnerLeaves, OnWire
<1>2. AtServer'
  BY ServerLetsGo DEF PartnerLeaves, AtServer
<1>3. AtTile'
  BY TileStill DEF PartnerLeaves
<1>4. AtMenus' /\ AtDialog'
  BY MenusStill, DialogStill DEF PartnerLeaves, gestures
<1> QED BY <1>1, <1>2, <1>3, <1>4

\* The order that is executed is about its own tile or about nobody.
LEMMA ExecutesKeeps == ASSUME ControlsInv, Executes PROVE ControlsInv'
<1> USE DEF ControlsInv
<1> DEFINE o == Head(orders)
<1>1. o \in FairOrders /\ orders' \in Seq(FairOrders)
  BY DEF Executes, OnWire
<1>2. o.kind \in {"next", "leave", "report", "block"}
  BY <1>1 DEF FairOrders, Order
<1>3. partner' = 0 /\ queued' \in BOOLEAN /\ meetings' = meetings
  BY <1>2 DEF Executes, AtServer
<1>4. notices' = notices \/ notices' = Append(notices, [kind |-> "ack"])
  BY <1>2 DEF Executes
<1>5. OnWire'
  BY <1>1, <1>4, AckIs, OneMore DEF OnWire
<1>6. \/ hits' = hits
      \/ /\ o.kind \in {"report", "block"}
         /\ hits' = hits \cup {[aim |-> o.aim, hit |-> resolve_target(o.id)]}
  BY <1>2 DEF Executes
<1>7. AtServer'
  <2>1. CASE hits' = hits
    BY <1>3, <2>1, ServerLetsGo
  <2>2. CASE /\ o.kind \in {"report", "block"}
             /\ hits' = hits \cup {[aim |-> o.aim, hit |-> resolve_target(o.id)]}
    <3>1. o.aim \in Strangers /\ o.id = AsId(o.aim)
      BY <1>1, <2>2 DEF FairOrders, Order
    <3>2. resolve_target(o.id) \in Somebody
      BY <3>1, StrangersAre DEF resolve_target, AtServer
    <3>3. o.aim \notin Guests => resolve_target(o.id) \in {o.aim, 0}
      <4>1. o.aim \notin Guests => o.id = o.aim /\ o.aim # 0
        BY <3>1, StrangersAre
      <4> QED BY <4>1 DEF resolve_target
    <3>4. PICK h : h = [aim |-> o.aim, hit |-> resolve_target(o.id)]
      OBVIOUS
    <3>5. h \in Hit
      BY <3>1, <3>2, <3>4 DEF Hit
    <3>6. h.aim \notin Guests => h.hit \in {h.aim, 0}
      BY <3>3, <3>4
    <3>7. hits' = hits \cup {h}
      BY <2>2, <3>4
    <3> QED BY <1>3, <3>5, <3>6, <3>7, CommandStored
  <2> QED BY <1>6, <2>1, <2>2
<1>8. AtTile'
  BY TileStill DEF Executes
<1>9. AtMenus' /\ AtDialog'
  BY MenusStill, DialogStill DEF Executes, gestures
<1> QED BY <1>5, <1>7, <1>8, <1>9

LEMMA NoticesKeep ==
  ASSUME ControlsInv, OnMatchedTile \/ OnTileLeft \/ OnAck PROVE ControlsInv'
<1> USE DEF ControlsInv
<1>1. Head(notices) \in FairNotices /\ notices' \in Seq(FairNotices)
  <2>1. notices # <<>> /\ notices' = Tail(notices)
    BY DEF OnMatchedTile, OnTileLeft, OnAck, Notified
  <2>2. notices \in Seq(FairNotices)
    BY DEF OnWire
  <2> QED BY ONLY <2>1, <2>2, SMTT(30)
<1>2. OnWire'
  <2>1. [kind |-> "leave"] \in FairOrders
    BY CommandsAre
  <2>2. orders' \in Seq(FairOrders)
    <3>1. orders \in Seq(FairOrders)
      BY DEF OnWire
    <3>2. orders' = orders \/ orders' = Append(orders, [kind |-> "leave"])
      BY DEF OnMatchedTile, OnTileLeft, OnAck
    <3>3. Append(orders, [kind |-> "leave"]) \in Seq(FairOrders)
      BY ONLY <2>1, <3>1, OneMore
    <3> QED BY ONLY <3>1, <3>2, <3>3
  <2> QED BY ONLY <1>1, <2>2 DEF OnWire
<1>3. AtServer'
  BY ServerStill DEF OnMatchedTile, OnTileLeft, OnAck
<1>4. AtMenus' /\ AtDialog'
  BY MenusStill, DialogStill DEF OnMatchedTile, OnTileLeft, OnAck, gestures
<1>5. AtTile'
  <2>1. CASE OnMatchedTile
    <3>1. Head(notices).who \in Strangers
      BY <1>1, <2>1 DEF OnMatchedTile, Notified, FairNotices
    <3> QED BY <2>1, <3>1, StrangersAre DEF OnMatchedTile, AtTile
  <2>2. CASE OnTileLeft \/ OnAck
    BY <2>2, StrangersAre DEF OnTileLeft, OnAck, AtTile
  <2> QED BY <2>1, <2>2
<1> QED BY <1>2, <1>3, <1>4, <1>5

LEMMA GesturesKeep ==
  ASSUME ControlsInv,
         \/ RequeueTimer \/ PressTile \/ HoldTile \/ LiftFinger \/ MenuButton
         \/ CloseDialog \/ BarMenuButton \/ PickBarItem
  PROVE  ControlsInv'
<1> USE DEF ControlsInv, RequeueTimer, PressTile, HoldTile, LiftFinger, MenuButton, CloseDialog,
            BarMenuButton, PickBarItem, wire
<1>1. OnWire'
  BY CommandsAre, OneMore DEF OnWire
<1>2. AtServer'
  BY ServerStill
<1>3. AtTile'
  <2>1. CASE RequeueTimer
    BY <2>1 DEF AtTile
  <2>2. CASE ~RequeueTimer
    BY <2>2, TileStill DEF onPage
  <2> QED BY <2>1, <2>2
<1>4. AtMenus'
  BY DEF AtMenus, gestures
<1>5. AtDialog'
  BY StrangersAre DEF AtDialog, reporting
<1> QED BY <1>1, <1>2, <1>3, <1>4, <1>5

LEMMA TileItemsKeep ==
  ASSUME ControlsInv, ReportItem \/ BlockItem \/ SubmitReport PROVE ControlsInv'
<1> USE DEF ControlsInv, ReportItem, BlockItem, SubmitReport, Item, wire
<1>1. ReportItem \/ BlockItem => peer \in Strangers
  BY DEF TileShown, AtTile
<1>2. OnWire'
  <2>1. CASE ReportItem
    BY <2>1 DEF OnWire
  <2>2. CASE BlockItem
    <3>1. [kind |-> "block", id |-> AsId(peer), aim |-> peer] \in FairOrders
      BY <1>1, <2>2, ComplaintsAre
    <3> QED BY <2>2, <3>1, OneMore DEF OnWire
  <2>3. CASE SubmitReport
    <3>1. aim \in Strangers /\ target = AsId(aim)
      BY <2>3 DEF AtDialog
    <3>2. [kind |-> "report", id |-> target, aim |-> aim] \in FairOrders
      BY <3>1, ComplaintsAre
    <3> QED BY <2>3, <3>2, OneMore DEF OnWire
  <2> QED BY <2>1, <2>2, <2>3
<1>3. AtServer'
  BY ServerStill
<1>4. AtTile'
  BY TileStill DEF onPage
<1>5. AtMenus'
  BY DEF AtMenus, gestures
<1>6. AtDialog'
  BY <1>1, StrangersAre DEF AtDialog, reporting
<1> QED BY <1>2, <1>3, <1>4, <1>5, <1>6

LEMMA StoppingKeeps ==
  ASSUME ControlsInv, StopClick \/ EscapeKey \/ NextClick PROVE ControlsInv'
<1> USE DEF ControlsInv, StopClick, EscapeKey, NextClick, Stops, wire
<1>1. OnWire'
  BY CommandsAre, OneMore DEF OnWire
<1>2. AtServer'
  BY ServerStill
<1>3. AtTile'
  BY NobodyIs DEF AtTile, onPage
<1>4. AtMenus'
  BY DEF AtMenus, gestures
<1>5. AtDialog'
  BY DEF AtDialog, reporting
<1> QED BY <1>1, <1>2, <1>3, <1>4, <1>5

LEMMA ControlsStep == ASSUME ControlsInv, [ControlsNext]_controlsVars PROVE ControlsInv'
<1>1. CASE UNCHANGED controlsVars
  <2>1. OnWire'
    BY <1>1 DEF controlsVars, ControlsInv, OnWire
  <2> QED BY <1>1, <2>1, ServerStill, TileStill, MenusStill, DialogStill DEF controlsVars, ControlsInv
<1>2. CASE ControlsNext
  BY <1>2, ServerMeetsKeeps, PartnerLeavesKeeps, ExecutesKeeps, NoticesKeep, GesturesKeep,
     TileItemsKeep, StoppingKeeps DEF ControlsNext
<1> QED BY <1>1, <1>2

LEMMA ControlsMean == ASSUME ControlsInv PROVE ControlsTypeOK /\ ReportsHitTheirTile
<1>1. FairOrders \subseteq Order /\ FairNotices \subseteq Notice
  BY DEF FairOrders, FairNotices
<1>2. orders \in Seq(Order) /\ notices \in Seq(Notice)
  BY <1>1 DEF ControlsInv, OnWire
<1>3. meetings \in 0 .. MaxMeetings
  BY ControlsConstants DEF ControlsInv, AtServer
<1> QED BY <1>2, <1>3 DEF ControlsInv, AtServer, AtTile, AtMenus, AtDialog, ControlsTypeOK

-----------------------------------------------------------------------------
(* The console: what is on the screen is what the server has, or a read is *)
(* on its way that will show it.                                           *)

Screens == [reports : SUBSET (Reported \X {"open", "resolved"}), bans : SUBSET Bannable]

Asked ==
  [id : Nat, job : Jobs, what : Reported \cup Bannable \cup {0}, filter : Filters,
   key : {"none", "good", "bad"}, state : {"sent", "ok", "refused"}, alone : BOOLEAN, view : Screens]

Queries == {q \in Asked : q.job = "ban" => q.what \in Bannable}

\* A read, or a change that a read will follow.
Renews(q) == q.job = "load" \/ (q.job \in {"resolve", "ban", "unban"} /\ q.state = "ok")

Renewing(Q) == \E q \in Q : Renews(q)

OnScreen == [reports |-> reports, bans |-> bans]

ConsoleTyped ==
  /\ adminKey \in {"none", "good", "bad"} /\ reportFilter \in Filters /\ tab \in Tabs
  /\ overview \in BOOLEAN /\ failed \in BOOLEAN
  /\ reports \subseteq Reported \X {"open", "resolved"} /\ bans \subseteq Bannable
  /\ users \subseteq Bannable
  /\ banForm \in Bannable \cup {0} /\ banned \subseteq Bannable
  /\ filed \in [Reported -> {"unfiled", "open", "resolved"}]
  /\ queries \subseteq Queries /\ queryCount \in Nat

ConsoleInv ==
  /\ ConsoleTyped /\ muddled \in BOOLEAN
  /\ ~muddled /\ overview => OnScreen = View(reportFilter) \/ Renewing(queries)

LEMMA ViewsAre ==
  /\ ConsoleTyped => \A f : View(f) \in Screens
  /\ NoView \in Screens
<1>1. ASSUME ConsoleTyped, NEW f PROVE View(f) \in Screens
  <2>1. {<<r, filed[r]>> : r \in Matching(f)} \in SUBSET (Reported \X {"open", "resolved"})
    BY <1>1 DEF ConsoleTyped, Matching
  <2>2. banned \in SUBSET Bannable
    BY <1>1 DEF ConsoleTyped
  <2> QED BY <2>1, <2>2 DEF View, Screens
<1>2. NoView \in Screens
  BY DEF NoView, Screens
<1> QED BY <1>1, <1>2

\* A query that is no longer alone is the same query.
LEMMA QueryCrossed ==
  ASSUME NEW q \in Queries
  PROVE  /\ [q EXCEPT !.alone = FALSE] \in Queries
         /\ Renews(q) => Renews([q EXCEPT !.alone = FALSE])
  BY DEF Queries, Asked, Renews

\* A request more: what was renewing still is.
LEMMA UnansweredKeeps ==
  ASSUME NEW rest, NEW job \in Jobs, NEW what \in Reported \cup Bannable \cup {0},
         NEW f \in Filters, NEW k \in {"none", "good", "bad"},
         job = "ban" => what \in Bannable, rest \subseteq Queries, queryCount \in Nat, Unanswered(rest, job, what, f, k)
  PROVE  /\ queries' \subseteq Queries /\ queryCount' \in Nat
         /\ Renewing(rest) \/ job = "load" => Renewing(queries')
<1> DEFINE new == [id |-> queryCount, job |-> job, what |-> what, filter |-> f, key |-> k,
                   state |-> "sent", alone |-> rest = {}, view |-> NoView]
           old == {[q EXCEPT !.alone = FALSE] : q \in rest}
<1>1. queries' = old \cup {new} /\ queryCount' \in Nat
  BY DEF Unanswered
<1>2. new \in Queries /\ (job = "load" => Renews(new))
  <2>1. (rest = {}) \in BOOLEAN
    OBVIOUS
  <2> QED BY <2>1, ViewsAre DEF Queries, Asked, Renews
<1>3. old \subseteq Queries /\ (Renewing(rest) => Renewing(old))
  <2>1. \A q \in rest : [q EXCEPT !.alone = FALSE] \in Queries
    BY QueryCrossed
  <2>2. ASSUME NEW q \in rest, Renews(q) PROVE Renewing(old)
    <3>1. Renews([q EXCEPT !.alone = FALSE])
      BY <2>2, QueryCrossed
    <3>2. [q EXCEPT !.alone = FALSE] \in old
      OBVIOUS
    <3> QED BY <3>1, <3>2 DEF Renewing
  <2> QED BY <2>1, <2>2 DEF Renewing
<1> HIDE DEF old, new
<1> QED BY <1>1, <1>2, <1>3 DEF Renewing

LEMMA LoadAsked ==
  ASSUME NEW rest, NEW what \in Reported \cup Bannable \cup {0}, NEW f \in Filters,
         NEW k \in {"none", "good", "bad"},
         rest \subseteq Queries, queryCount \in Nat, Unanswered(rest, "load", what, f, k)
  PROVE  queries' \subseteq Queries /\ queryCount' \in Nat /\ Renewing(queries')
<1>1. "load" \in Jobs /\ "load" # "ban"
  BY DEF Jobs
<1> QED BY <1>1, UnansweredKeeps

\* What the screen shows changes with the server's lists and the screen only.
LEMMA ScreenStill ==
  ASSUME filed' = filed, banned' = banned, reports' = reports, bans' = bans,
         reportFilter' = reportFilter
  PROVE  (OnScreen = View(reportFilter))' <=> OnScreen = View(reportFilter)
  BY DEF OnScreen, View, Matching

LEMMA ConsoleStart == ASSUME ConsoleInit PROVE ConsoleInv
  BY DEF ConsoleInit, ConsoleInv, ConsoleTyped, Filters, Tabs

\* Nothing but the form, the tab and the key.
LEMMA ConsoleClicksKeep ==
  ASSUME ConsoleInv, Lock \/ (\E t \in Tabs : SetTab(t)) \/ (\E b \in Bannable : FillBan(b))
  PROVE  ConsoleInv'
<1> USE DEF Lock, SetTab, FillBan
<1>1. /\ UNCHANGED <<filed, banned, reports, bans, reportFilter, queries, queryCount, muddled>>
      /\ UNCHANGED <<overview, users, failed>>
      /\ adminKey' \in {adminKey, "none"} /\ tab' \in Tabs
      /\ banForm' = banForm \/ banForm' \in Bannable
  BY DEF Screen, Served, Tabs, ConsoleInv, ConsoleTyped
<1>2. ConsoleTyped'
  BY <1>1 DEF ConsoleInv, ConsoleTyped
<1> QED BY <1>1, <1>2, ScreenStill DEF ConsoleInv

\* Whatever asks again keeps the rest of the console, or has muddled it.
LEMMA AskingAgainKeeps ==
  ASSUME ConsoleInv, adminKey' \in {"none", "good", "bad"}, reportFilter' \in Filters,
         tab' = tab, failed' \in BOOLEAN, banForm' \in Bannable \cup {0},
         UNCHANGED Screen, UNCHANGED Served, muddled' \in BOOLEAN,
         (muddled' = muddled /\ reportFilter' = reportFilter) \/ muddled',
         queries' \subseteq Queries, queryCount' \in Nat,
         Renewing(queries) => Renewing(queries')
  PROVE  ConsoleInv'
<1>1. /\ UNCHANGED <<filed, banned, reports, bans, overview, users>>
  BY DEF Screen, Served
<1>2. ConsoleTyped'
  BY <1>1 DEF ConsoleInv, ConsoleTyped
<1> QED BY <1>1, <1>2, ScreenStill DEF ConsoleInv

LEMMA ReadsKeep ==
  ASSUME ConsoleInv,
         \/ \E k \in {"good", "bad"} : Unlock(k)
         \/ Poll \/ (\E f \in Filters : SetFilter(f))
  PROVE  ConsoleInv'
<1>1. /\ queries' \subseteq Queries /\ queryCount' \in Nat /\ Renewing(queries')
      /\ adminKey' \in {"none", "good", "bad"}
  <2>1. PICK f \in Filters, k \in {"none", "good", "bad"} :
          Unanswered(queries, "load", 0, f, k) /\ adminKey' = k /\ 0 \in Reported \cup Bannable \cup {0}
    BY DEF ConsoleInv, ConsoleTyped, Unlock, Poll, SetFilter
  <2>2. queries \subseteq Queries /\ queryCount \in Nat
    BY DEF ConsoleInv, ConsoleTyped
  <2> QED BY <2>1, <2>2, LoadAsked
<1>2. /\ reportFilter' \in Filters /\ tab' = tab /\ failed' \in BOOLEAN
      /\ banForm' \in Bannable \cup {0} /\ UNCHANGED Screen /\ UNCHANGED Served
      /\ muddled' \in BOOLEAN
      /\ (muddled' = muddled /\ reportFilter' = reportFilter) \/ muddled'
  BY DEF ConsoleInv, ConsoleTyped, Unlock, Poll, SetFilter
<1> QED BY <1>1, <1>2, AskingAgainKeeps

LEMMA OrdersKeep ==
  ASSUME ConsoleInv,
         \/ SubmitBan \/ SearchUsers
         \/ (\E r \in Reported : Resolve(r)) \/ (\E b \in Bannable : RemoveBan(b))
  PROVE  ConsoleInv'
<1>1. PICK job \in Jobs, what \in Reported \cup Bannable \cup {0} :
        Orders(job, what) /\ (job = "ban" => what \in Bannable)
  BY DEF SubmitBan, SearchUsers, Resolve, RemoveBan, Jobs, ConsoleInv, ConsoleTyped
<1>2. Unanswered(queries, job, what, reportFilter, adminKey)
  BY <1>1 DEF Orders
<1>3. /\ queries' \subseteq Queries /\ queryCount' \in Nat
      /\ Renewing(queries) => Renewing(queries')
  <2>1. /\ queries \subseteq Queries /\ queryCount \in Nat
        /\ reportFilter \in Filters /\ adminKey \in {"none", "good", "bad"}
    BY DEF ConsoleInv, ConsoleTyped
  <2>2. job = "ban" => what \in Bannable
    BY <1>1
  <2> QED BY ONLY <1>2, <2>1, <2>2, UnansweredKeeps
<1>4. /\ adminKey' = adminKey /\ reportFilter' = reportFilter /\ tab' = tab /\ failed' = failed
      /\ banForm' = banForm /\ UNCHANGED Screen /\ UNCHANGED Served /\ muddled' = muddled
  BY <1>1 DEF Orders
<1> QED BY <1>3, <1>4, AskingAgainKeeps DEF ConsoleInv, ConsoleTyped

\* What the server changes is a change that is read again once it is answered.
LEMMA QueryServedKeeps ==
  ASSUME ConsoleInv, NEW q \in queries, QueryServed(q) PROVE ConsoleInv'
<1> DEFINE Answered(s) == [q EXCEPT !.state = s, !.view = IF s = "ok" THEN View(q.filter) ELSE NoView]
<1>1. q \in Queries /\ q.state = "sent" /\ q.job \in Jobs
  BY DEF ConsoleInv, ConsoleTyped, Queries, Asked, QueryServed
<1>2. PICK s \in {"ok", "refused"} :
        /\ queries' = (queries \ {q}) \cup {Answered(s)}
        /\ s = "refused" \/ q.job \in {"load", "search"} => UNCHANGED Served
        /\ UNCHANGED Served \/ (q.job \in {"resolve", "ban", "unban"} /\ s = "ok")
  BY DEF QueryServed
<1>3. Answered(s) \in Queries /\ Answered(s).job = q.job /\ Answered(s).state = s
  <2>1. (IF s = "ok" THEN View(q.filter) ELSE NoView) \in Screens
    BY ViewsAre DEF ConsoleInv
  <2>2. PICK v \in Screens : v = IF s = "ok" THEN View(q.filter) ELSE NoView
    BY <2>1
  <2>3. PICK p : p = Answered(s) /\ p = [q EXCEPT !.state = s, !.view = v]
    BY <2>2
  <2>4. p \in Queries /\ p.job = q.job /\ p.state = s
    <3>1. s \in {"ok", "refused"} /\ v \in Screens
      BY <1>2, <2>2
    <3>2. p = [q EXCEPT !.state = s, !.view = v]
      BY <2>3
    <3> QED BY ONLY <1>1, <3>1, <3>2 DEF Queries, Asked
  <2> QED BY <2>3, <2>4
<1> HIDE DEF Answered
<1>4. queries' \subseteq Queries
  BY <1>2, <1>3 DEF ConsoleInv, ConsoleTyped
<1>5. Renewing(queries) => Renewing(queries')
  BY <1>1, <1>2, <1>3 DEF Renewing, Renews
<1>6. ~UNCHANGED Served => Renewing(queries')
  BY <1>2, <1>3 DEF Renewing, Renews
<1>7. /\ UNCHANGED <<adminKey, reportFilter, tab, banForm, failed, muddled, queryCount>>
      /\ UNCHANGED <<overview, reports, bans, users>>
  BY DEF QueryServed, Screen
<1>8. filed' \in [Reported -> {"unfiled", "open", "resolved"}] /\ banned' \subseteq Bannable
  <2>1. filed' = filed \/ filed' = [filed EXCEPT ![q.what] = "resolved"]
    BY DEF QueryServed, Served
  <2>2. \/ banned' = banned \/ banned' = banned \ {q.what}
        \/ q.job = "ban" /\ banned' = banned \cup {q.what}
    BY DEF QueryServed, Served
  <2>3. q.job = "ban" => q.what \in Bannable
    BY <1>1 DEF Queries
  <2> QED BY <2>1, <2>2, <2>3 DEF ConsoleInv, ConsoleTyped
<1>9. ConsoleTyped'
  BY <1>4, <1>7, <1>8 DEF ConsoleInv, ConsoleTyped
<1>10. CASE UNCHANGED Served
  BY <1>5, <1>7, <1>9, <1>10, ScreenStill DEF ConsoleInv, Served
<1>11. CASE ~UNCHANGED Served
  BY <1>6, <1>7, <1>9, <1>11 DEF ConsoleInv
<1> QED BY <1>10, <1>11

LEMMA ElsewhereKeeps == ASSUME ConsoleInv, Elsewhere PROVE ConsoleInv'
<1>1. filed' \in [Reported -> {"unfiled", "open", "resolved"}] /\ muddled'
  BY DEF Elsewhere, ConsoleInv, ConsoleTyped
<1>2. /\ UNCHANGED <<adminKey, reportFilter, tab, banForm, failed, queries, queryCount, banned>>
      /\ UNCHANGED <<overview, reports, bans, users>> /\ muddled' = TRUE
  BY DEF Elsewhere, Screen
<1>3. ConsoleTyped'
  BY <1>1, <1>2 DEF ConsoleInv, ConsoleTyped
<1> QED BY <1>2, <1>3 DEF ConsoleInv

\* A read that was alone, under the filter that is lit, and of what the server still has,
\* is what is shown from then on.
LEMMA LoadAnswersKeeps ==
  ASSUME ConsoleInv, NEW q \in queries, LoadAnswers(q) PROVE ConsoleInv'
<1>1. q \in Queries /\ q.view \in Screens /\ q.what \in Reported \cup Bannable \cup {0}
  BY DEF ConsoleInv, ConsoleTyped, Queries, Asked
<1>2. /\ UNCHANGED <<adminKey, reportFilter, users, banForm, queryCount, filed, banned>>
      /\ tab' \in {tab, "bans"} /\ queries' \subseteq queries
  BY DEF LoadAnswers, Served
<1>3. CASE q.state = "ok"
  <2>1. /\ overview' = TRUE /\ reports' = q.view.reports /\ bans' = q.view.bans /\ failed' = failed
        /\ muddled' = (~q.alone \/ q.view # View(q.filter) \/ q.filter # reportFilter)
    BY <1>3 DEF LoadAnswers
  <2>2. ConsoleTyped'
    <3>1. reports' \subseteq Reported \X {"open", "resolved"} /\ bans' \subseteq Bannable
      BY <1>1, <2>1 DEF Screens
    <3>2. tab' \in Tabs /\ queries' \subseteq Queries
      BY <1>2 DEF ConsoleInv, ConsoleTyped, Tabs
    <3> QED BY <1>2, <2>1, <3>1, <3>2 DEF ConsoleInv, ConsoleTyped
  <2>3. ~muddled' => (OnScreen = View(reportFilter))'
    <3>1. ASSUME ~muddled' PROVE q.view = View(reportFilter)
      BY <2>1, <3>1
    <3>2. View(reportFilter)' = View(reportFilter)
      BY <1>2 DEF View, Matching
    <3>3. OnScreen' = q.view
      BY <1>1, <2>1 DEF OnScreen, Screens
    <3> QED BY <3>1, <3>2, <3>3
  <2> QED BY <2>1, <2>2, <2>3 DEF ConsoleInv
<1>4. CASE q.state # "ok"
  <2>1. overview' = FALSE /\ failed' = TRUE /\ UNCHANGED <<reports, bans, muddled>>
    BY <1>4 DEF LoadAnswers
  <2>2. tab' \in Tabs /\ queries' \subseteq Queries
    BY <1>2 DEF ConsoleInv, ConsoleTyped, Tabs
  <2>3. ConsoleTyped'
    BY <1>2, <2>1, <2>2 DEF ConsoleInv, ConsoleTyped
  <2> QED BY <2>1, <2>3 DEF ConsoleInv
<1> QED BY <1>3, <1>4

LEMMA ChangeAnswersKeeps ==
  ASSUME ConsoleInv, NEW q \in queries, ChangeAnswers(q) PROVE ConsoleInv'
<1>1. /\ q \in Queries /\ q.filter \in Filters /\ q.key \in {"none", "good", "bad"}
      /\ q.what \in Reported \cup Bannable \cup {0}
  BY DEF ConsoleInv, ConsoleTyped, Queries, Asked
<1>2. /\ adminKey' = adminKey /\ reportFilter' = reportFilter /\ tab' = tab /\ muddled' = muddled
      /\ UNCHANGED Screen /\ UNCHANGED Served
      /\ failed' \in BOOLEAN /\ banForm' \in Bannable \cup {0}
  BY DEF ChangeAnswers, ConsoleInv, ConsoleTyped
<1>3. queries \ {q} \subseteq Queries /\ queryCount \in Nat
  BY DEF ConsoleInv, ConsoleTyped
<1>4. /\ queries' \subseteq Queries /\ queryCount' \in Nat
      /\ Renewing(queries) => Renewing(queries')
  <2>1. CASE q.state = "ok"
    <3>1. PICK w \in Reported \cup Bannable \cup {0} : Unanswered(queries \ {q}, "load", w, q.filter, q.key)
      BY <1>1, <2>1 DEF ChangeAnswers
    <3>2. queries \ {q} \subseteq Queries
      BY <1>3
    <3>3. PICK rest : rest = queries \ {q}
      OBVIOUS
    <3>4. /\ w \in Reported \cup Bannable \cup {0}
          /\ rest \subseteq Queries /\ Unanswered(rest, "load", w, q.filter, q.key)
      BY <3>1, <3>2, <3>3
    <3>5. PICK f \in Filters, k \in {"none", "good", "bad"} : f = q.filter /\ k = q.key
      BY <1>1
    <3>6. Unanswered(rest, "load", w, f, k)
      BY <3>4, <3>5
    <3> QED BY <1>3, <3>4, <3>6, LoadAsked
  <2>2. CASE q.state # "ok"
    <3>1. queries' = queries \ {q} /\ queryCount' = queryCount /\ ~Renews(q)
      BY <2>2 DEF ChangeAnswers, Renews
    <3> QED BY <1>3, <3>1 DEF Renewing
  <2> QED BY <2>1, <2>2
<1> QED BY <1>2, <1>4, AskingAgainKeeps DEF ConsoleInv, ConsoleTyped

LEMMA SearchAnswersKeeps ==
  ASSUME ConsoleInv, NEW q \in queries, SearchAnswers(q) PROVE ConsoleInv'
<1>1. /\ UNCHANGED <<adminKey, reportFilter, overview, reports, bans, banForm, muddled, queryCount>>
      /\ UNCHANGED <<filed, banned>> /\ queries' = queries \ {q} /\ ~Renews(q)
  BY DEF SearchAnswers, Served, Renews
<1>2. users' \subseteq Bannable /\ tab' \in Tabs /\ failed' \in BOOLEAN
  BY DEF SearchAnswers, ConsoleInv, ConsoleTyped, Tabs
<1>3. ConsoleTyped'
  BY <1>1, <1>2 DEF ConsoleInv, ConsoleTyped
<1>4. Renewing(queries) => Renewing(queries')
  BY <1>1 DEF Renewing
<1> QED BY <1>1, <1>3, <1>4, ScreenStill DEF ConsoleInv

LEMMA ConsoleStep == ASSUME ConsoleInv, [ConsoleNext]_consoleVars PROVE ConsoleInv'
<1>1. CASE UNCHANGED consoleVars
  <2>1. /\ UNCHANGED <<adminKey, reportFilter, tab, overview, reports, bans, users, banForm, failed>>
        /\ UNCHANGED <<queries, filed, banned, muddled, queryCount>>
    BY <1>1 DEF consoleVars
  <2>2. ConsoleTyped'
    BY <2>1 DEF ConsoleInv, ConsoleTyped
  <2> QED BY <2>1, <2>2, ScreenStill DEF ConsoleInv
<1>2. CASE ConsoleNext
  BY <1>2, ConsoleClicksKeep, ReadsKeep, OrdersKeep, QueryServedKeeps, ElsewhereKeeps,
     LoadAnswersKeeps, ChangeAnswersKeeps, SearchAnswersKeeps DEF ConsoleNext
<1> QED BY <1>1, <1>2

LEMMA ConsoleMeans == ASSUME ConsoleInv PROVE ConsoleTypeOK /\ ConsoleIsTrue
<1>1. ConsoleTypeOK
  BY DEF ConsoleInv, ConsoleTyped, ConsoleTypeOK, Queries, Asked
<1>2. ConsoleIsTrue
  BY DEF ConsoleInv, ConsoleIsTrue, Renewing, OnScreen
<1> QED BY <1>1, <1>2

-----------------------------------------------------------------------------
(* The points a page shows: at most one answer about them is on its way,   *)
(* and what it says, or what is shown already, is what the server holds.   *)

PurseAsk == [kind : AskKinds, from : Int, state : {"sent", "ok", "refused"}, value : Int]

\* With nothing on its way.
PointsSettled ==
  /\ points \in {-1, coins}
  /\ panel # 0 => balance \in {-1, points}

\* With this one on its way: it was asked by what is shown, and once it was served it is the news.
PointsAwait(a) ==
  /\ a.kind = "app" => panel = 0
  /\ a.kind # "app" /\ panel # 0 => a.from = panel
  /\ IF a.state = "ok" THEN a.value = coins ELSE PointsSettled

WalletTyped ==
  /\ coins \in Int /\ panel \in Int /\ panels \in Int /\ purseAsks \subseteq PurseAsk

PointsInv ==
  /\ \A a, b \in purseAsks : Money(a) /\ Money(b) => a = b
  /\ \A a \in purseAsks : Money(a) => PointsAwait(a)
  /\ (\A a \in purseAsks : ~Money(a)) => PointsSettled

WalletInv ==
  /\ WalletTyped
  /\ ~account => panel = 0
  /\ ~untold => PointsInv

LEMMA WalletStart == ASSUME WalletInit PROVE WalletInv
  BY WalletConstants DEF WalletInit, WalletInv, WalletTyped, PointsInv, PointsSettled

\* While no request about the points comes or goes, and the panel stays or closes.
LEMMA PointsStill ==
  ASSUME PointsInv, coins' = coins,
         purseAsks' \subseteq purseAsks, \A a \in purseAsks : Money(a) => a \in purseAsks',
         \/ points' = points /\ panel' = panel /\ balance' = balance
         \/ panel' = 0 /\ points' \in {points, -1}
  PROVE  PointsInv'
<1>1. PointsSettled => PointsSettled'
  BY DEF PointsSettled
<1>2. \A a \in purseAsks : PointsAwait(a) => PointsAwait(a)'
  BY <1>1 DEF PointsAwait
<1> QED BY <1>1, <1>2 DEF PointsInv, Money

LEMMA OneAsk ==
  ASSUME NEW k \in AskKinds, panel' \in Int, PanelAsks({k})
  PROVE  \E new \in PurseAsk :
           /\ new.kind = k /\ new.from = panel' /\ new.state = "sent"
           /\ purseAsks' = purseAsks \cup {new}
           /\ untold' = (untold \/ (Money(new) /\ \E a \in purseAsks : Money(a)))
<1>1. PICK new : new = [kind |-> k, from |-> panel', state |-> "sent", value |-> -1]
  OBVIOUS
<1>2. new \in PurseAsk /\ new.kind = k /\ new.from = panel' /\ new.state = "sent"
  BY <1>1 DEF PurseAsk
<1>3. {[kind |-> j, from |-> panel', state |-> "sent", value |-> -1] : j \in {k}} = {new}
  BY <1>1
<1>4. /\ purseAsks' = purseAsks \cup {new}
      /\ untold' = (untold \/ \E a \in purseAsks : Money(a) /\ \E b \in {new} : Money(b))
  BY <1>3 DEF PanelAsks
<1> QED BY <1>2, <1>4

\* A question about the points finds none under way, or crosses one.
LEMMA MoneyAsked ==
  ASSUME WalletTyped, ~untold => PointsInv, NEW k \in {"app", "panel", "claim", "gift"},
         PanelAsks({k}), panel' \in Int, k = "app" => panel' = 0,
         PointsSettled => PointsSettled'
  PROVE  purseAsks' \subseteq PurseAsk /\ (~untold' => PointsInv')
<1>1. k \in AskKinds
  BY DEF AskKinds
<1>2. PICK new \in PurseAsk :
        /\ new.kind = k /\ new.from = panel' /\ new.state = "sent"
        /\ purseAsks' = purseAsks \cup {new}
        /\ untold' = (untold \/ (Money(new) /\ \E a \in purseAsks : Money(a)))
  BY <1>1, OneAsk
<1>3. purseAsks' \subseteq PurseAsk
  BY <1>2 DEF WalletTyped
<1>4. ASSUME ~untold' PROVE PointsInv'
  <2>1. PointsInv /\ \A a \in purseAsks : ~Money(a)
    BY <1>2, <1>4 DEF Money
  <2>2. PointsSettled'
    BY <2>1 DEF PointsInv
  <2>3. PointsAwait(new)'
    BY <1>2, <2>2 DEF PointsAwait
  <2>4. \A a \in purseAsks' : Money(a) => a = new
    BY <1>2, <2>1
  <2> QED BY <2>2, <2>3, <2>4, <1>2 DEF PointsInv, Money
<1> QED BY <1>3, <1>4

LEMMA OtherAsked ==
  ASSUME WalletTyped, ~untold => PointsInv, NEW k \in {"blocks", "unblock", "delete"},
         PanelAsks({k}), coins' = coins, points' = points, panel' = panel, balance' = balance
  PROVE  purseAsks' \subseteq PurseAsk /\ (~untold' => PointsInv')
<1>1. k \in AskKinds /\ panel' \in Int
  BY DEF AskKinds, WalletTyped
<1>2. PICK new \in PurseAsk :
        /\ new.kind = k /\ new.from = panel' /\ new.state = "sent"
        /\ purseAsks' = purseAsks \cup {new}
        /\ untold' = (untold \/ (Money(new) /\ \E a \in purseAsks : Money(a)))
  BY <1>1, OneAsk
<1>3. purseAsks' \subseteq PurseAsk
  BY <1>2 DEF WalletTyped
<1>4. ~Money(new)
  BY <1>2 DEF Money
<1>5. ASSUME ~untold' PROVE PointsInv'
  <2>1. PointsInv
    BY <1>2, <1>5
  <2>2. PointsSettled => PointsSettled'
    BY DEF PointsSettled
  <2>3. \A a \in purseAsks : PointsAwait(a) => PointsAwait(a)'
    BY <2>2 DEF PointsAwait
  <2> QED BY <1>2, <1>4, <2>1, <2>2, <2>3 DEF PointsInv, Money
<1> QED BY <1>3, <1>5

\* Pages that open and close, and the ad that runs in one.
LEMMA WalletPagesKeep ==
  ASSUME WalletInv,
         \/ SignedOut \/ CloseEconomy \/ WatchAd \/ CooldownOver \/ CloseSettings \/ AskToDelete
         \/ ConfirmDelete(FALSE)
  PROVE  WalletInv'
<1>1. /\ coins' = coins /\ purseAsks' = purseAsks /\ untold' = untold /\ panels' = panels
      /\ (account' = account \/ panel' = 0)
      /\ \/ points' = points /\ panel' = panel /\ balance' = balance
         \/ panel' = 0 /\ points' \in {points, -1}
  BY DEF WalletInv, WalletTyped, SignedOut, CloseEconomy, WatchAd, CooldownOver, CloseSettings,
         AskToDelete, ConfirmDelete, PanelVars, ServerVars
<1>2. WalletTyped'
  BY <1>1 DEF WalletInv, WalletTyped
<1>3. ~account' => panel' = 0
  BY <1>1 DEF WalletInv
<1>4. ~untold' => PointsInv'
  BY <1>1, PointsStill DEF WalletInv
<1> QED BY <1>2, <1>3, <1>4 DEF WalletInv

LEMMA WalletAsksKeep ==
  ASSUME WalletInv, SignedInTo \/ OpenEconomy \/ AdEnds \/ SubmitGift PROVE WalletInv'
<1>1. PICK k \in {"app", "panel", "claim", "gift"} :
        PanelAsks({k}) /\ (k = "app" => panel' = 0)
  BY DEF SignedInTo, OpenEconomy, AdEnds, SubmitGift, WalletInv, PanelVars
<1>2. /\ coins' = coins /\ points' = points
      /\ \/ panel' = panel /\ balance' = balance /\ panels' = panels
         \/ balance' = -1 /\ panel' = panels + 1 /\ panels' = panels + 1
      /\ \/ account' = TRUE
         \/ account' = account /\ panel' = panel
  BY DEF SignedInTo, OpenEconomy, AdEnds, SubmitGift, PanelVars, ServerVars
<1>3. /\ panel' \in Int /\ panels' \in Int /\ coins' \in Int
      /\ (~account' => panel' = 0)
  BY <1>2 DEF WalletInv, WalletTyped
<1>4. PointsSettled => PointsSettled'
  BY <1>2 DEF PointsSettled
<1>5. purseAsks' \subseteq PurseAsk /\ (~untold' => PointsInv')
  BY <1>1, <1>3, <1>4, MoneyAsked DEF WalletInv
<1> QED BY <1>3, <1>5 DEF WalletInv, WalletTyped

LEMMA SettingsAskKeep ==
  ASSUME WalletInv, OpenSettings \/ Unblock \/ ConfirmDelete(TRUE) PROVE WalletInv'
<1>1. PICK k \in {"blocks", "unblock", "delete"} : PanelAsks({k})
  BY DEF OpenSettings, Unblock, ConfirmDelete
<1>2. /\ coins' = coins /\ points' = points /\ panel' = panel /\ balance' = balance
      /\ panels' = panels /\ account' = account
  BY DEF OpenSettings, Unblock, ConfirmDelete, PanelVars, ServerVars
<1>3. purseAsks' \subseteq PurseAsk /\ (~untold' => PointsInv')
  BY <1>1, <1>2, OtherAsked DEF WalletInv
<1> QED BY <1>2, <1>3 DEF WalletInv, WalletTyped

LEMMA BalanceChangesKeeps == ASSUME WalletInv, BalanceChanges PROVE WalletInv'
<1>1. /\ untold' = TRUE /\ account' = account /\ panel' = panel /\ panels' = panels
      /\ purseAsks' = purseAsks /\ coins' \in {coins + Reward, coins - Price}
  BY DEF BalanceChanges, PanelVars
<1> QED BY <1>1, WalletConstants DEF WalletInv, WalletTyped

\* The balance moves when the one request about it is served, and its answer is the news.
LEMMA AskServedKeeps == ASSUME WalletInv, NEW a \in purseAsks, AskServed(a) PROVE WalletInv'
<1> DEFINE Answer(state, value) == [a EXCEPT !.state = state, !.value = value]
<1>1. a \in PurseAsk /\ a.state = "sent"
  BY DEF WalletInv, WalletTyped, AskServed
<1>2. PICK state \in {"ok", "refused"}, value \in Int :
        /\ Finished(a, state, value)
        /\ coins' \in Int
        /\ coins' = coins \/ (state = "ok" /\ a.kind \in {"claim", "gift"})
        /\ state = "ok" /\ Money(a) => value = coins'
  BY WalletConstants DEF WalletInv, WalletTyped, AskServed, ServerVars, Money
<1>3. PICK new : new = Answer(state, value) /\ purseAsks' = (purseAsks \ {a}) \cup {new}
  BY <1>2 DEF Finished
<1>4. new \in PurseAsk /\ new.kind = a.kind /\ new.from = a.from /\ new.state = state /\ new.value = value
  BY <1>1, <1>3 DEF PurseAsk
<1> HIDE DEF Answer
<1>5. /\ account' = account /\ panel' = panel /\ panels' = panels /\ points' = points
      /\ balance' = balance /\ untold' = untold
  BY DEF AskServed, PanelVars
<1>6. purseAsks' = (purseAsks \ {a}) \cup {new}
  BY <1>3
<1>7. WalletTyped'
  BY <1>2, <1>4, <1>5, <1>6 DEF WalletInv, WalletTyped
<1>8. ASSUME ~untold' PROVE PointsInv'
  <2>1. PointsInv
    BY <1>5, <1>8 DEF WalletInv
  <2>2. CASE ~Money(a)
    <3>1. coins' = coins
      BY <1>2, <2>2 DEF Money
    <3>2. \A b \in purseAsks : PointsAwait(b) => PointsAwait(b)'
      BY <1>5, <3>1 DEF PointsAwait, PointsSettled
    <3>3. PointsSettled => PointsSettled'
      BY <1>5, <3>1 DEF PointsSettled
    <3> QED BY <1>4, <1>6, <2>1, <2>2, <3>2, <3>3 DEF PointsInv, Money
  <2>3. CASE Money(a)
    <3>1. PointsAwait(a)
      BY <2>1, <2>3 DEF PointsInv
    <3>2. PointsSettled
      BY <1>1, <3>1 DEF PointsAwait
    <3>3. state # "ok" => PointsSettled'
      BY <1>2, <1>5, <3>2 DEF PointsSettled
    <3>4. state = "ok" => value = coins'
      BY <1>2, <2>3
    <3>5. PointsAwait(new)'
      BY <1>4, <1>5, <3>1, <3>3, <3>4 DEF PointsAwait
    <3>6. \A b \in purseAsks' : Money(b) => b = new
      BY <1>6, <2>1, <2>3 DEF PointsInv
    <3>7. Money(new) /\ new \in purseAsks'
      BY <1>4, <1>6, <2>3 DEF Money
    <3> QED BY <3>5, <3>6, <3>7 DEF PointsInv, Money
  <2> QED BY <2>2, <2>3
<1> QED BY <1>5, <1>7, <1>8 DEF WalletInv

LEMMA PurseAnswersKeeps == ASSUME WalletInv, NEW a \in purseAsks, PurseAnswers(a) PROVE WalletInv'
<1> DEFINE here == panel # 0 /\ a.from = panel
<1>1. /\ account' = account /\ panel' = panel /\ panels' = panels /\ coins' = coins
      /\ untold' = untold /\ purseAsks' = purseAsks \ {a}
  BY DEF PurseAnswers, ServerVars
<1>2. /\ a.state # "sent" /\ Money(a)
      /\ balance' = IF here /\ a.kind # "app" /\ a.state = "ok" THEN a.value ELSE balance
      /\ points' = IF a.state = "ok" THEN a.value ELSE IF a.kind = "app" THEN -1 ELSE points
  BY DEF PurseAnswers
<1>3. WalletTyped'
  BY <1>1 DEF WalletInv, WalletTyped
<1>4. ASSUME ~untold' PROVE PointsInv'
  <2>1. PointsInv /\ PointsAwait(a)
    BY <1>1, <1>2, <1>4 DEF WalletInv, PointsInv
  <2>2. PointsSettled'
    BY <1>1, <1>2, <2>1 DEF PointsAwait, PointsSettled
  <2>3. \A b \in purseAsks' : ~Money(b)
    BY <1>1, <1>2, <2>1 DEF PointsInv
  <2> QED BY <2>2, <2>3 DEF PointsInv, Money
<1> QED BY <1>1, <1>3, <1>4 DEF WalletInv

LEMMA SettingsAnswersKeeps == ASSUME WalletInv, NEW a \in purseAsks, SettingsAnswers(a) PROVE WalletInv'
<1>1. /\ balance' = balance /\ panels' = panels /\ coins' = coins
      /\ untold' = untold /\ purseAsks' = purseAsks \ {a} /\ ~Money(a)
  BY DEF SettingsAnswers, ServerVars
<1>2. \/ account' = FALSE /\ points' = -1 /\ panel' = 0
      \/ account' = account /\ points' = points /\ panel' = panel
  BY DEF SettingsAnswers
<1>3. WalletTyped'
  BY <1>1, <1>2 DEF WalletInv, WalletTyped
<1>4. ~untold' => PointsInv'
  BY <1>1, <1>2, PointsStill DEF WalletInv
<1> QED BY <1>1, <1>2, <1>3, <1>4 DEF WalletInv

LEMMA WalletStep == ASSUME WalletInv, [WalletNext]_walletVars PROVE WalletInv'
<1>1. CASE UNCHANGED walletVars
  BY <1>1 DEF walletVars, WalletInv, WalletTyped, PointsInv, PointsAwait, PointsSettled, Money
<1>2. CASE WalletNext
  BY <1>2, WalletPagesKeep, WalletAsksKeep, SettingsAskKeep, BalanceChangesKeeps, AskServedKeeps,
     PurseAnswersKeeps, SettingsAnswersKeeps DEF WalletNext
<1> QED BY <1>1, <1>2

LEMMA WalletMeans == ASSUME WalletInv PROVE PointsAreTrue
  BY DEF WalletInv, PointsInv, PointsSettled, PointsAreTrue

-----------------------------------------------------------------------------
(* The follow state of a profile: the button and the header follow the     *)
(* edge the server holds through every read and every toggle.              *)

FollowTyped ==
  /\ viewerIn \in BOOLEAN /\ iFollow \in BOOLEAN /\ baseIFollow \in BOOLEAN /\ pending \in BOOLEAN
  /\ visiting \in Profiles /\ owner \in Profiles \cup {0}
  /\ pageRead \in PageReads /\ edgeRead \in PageReads
  /\ toggle \in {NoToggle} \cup [of : Profiles, next : BOOLEAN, state : {"sent", "ok", "lost"}]

Edge == owner \in following

\* Nothing is asked about a profile before its document is there.
ReadOrder ==
  /\ pageRead.state # "none" => owner = 0
  /\ owner = 0 => toggle = NoToggle
  /\ edgeRead # NoRead => viewerIn /\ owner # 0
  /\ pageRead.state = "ok" => (pageRead.edge <=> visiting \in following)
  /\ pending <=> toggle # NoToggle
  /\ pageDialog = "auth" => ~viewerIn

\* A stranger: the header counts the edge, the button does not know it yet.
AsStranger ==
  /\ toggle = NoToggle /\ ~iFollow /\ ~baseIFollow
  /\ owner # 0 => headerCount = Followers(owner)
  /\ edgeRead.state = "ok" => (edgeRead.edge <=> Edge)

\* The button knows the edge, or will once the toggle was answered.
AsVisitor ==
  /\ headerCount = IF baseIFollow THEN 1 ELSE 0
  /\ toggle = NoToggle => (iFollow <=> Edge)
  /\ toggle # NoToggle =>
       /\ toggle.of = owner /\ (iFollow <=> toggle.next)
       /\ (toggle.state = "ok") <=> (Edge <=> toggle.next)

FollowInv ==
  /\ FollowTyped
  /\ ~met =>
       /\ ReadOrder
       /\ edgeRead # NoRead \/ ~viewerIn => AsStranger
       /\ edgeRead = NoRead /\ viewerIn /\ owner # 0 => AsVisitor

LEMMA ReadsAre ==
  /\ NoRead \in PageReads /\ NoRead.state = "none"
  /\ [NoRead EXCEPT !.state = "sent"] \in PageReads
  /\ [NoRead EXCEPT !.state = "sent"].state = "sent"
  BY DEF NoRead, PageReads

LEMMA TogglesAre == ASSUME FollowTyped, toggle.state # "none" PROVE
  /\ toggle # NoToggle /\ toggle \in [of : Profiles, next : BOOLEAN, state : {"sent", "ok", "lost"}]
  BY DEF FollowTyped, NoToggle

LEMMA FollowStart == ASSUME ProfilePageInit PROVE FollowInv
<1>1. PICK us \in BOOLEAN, them \in SUBSET Profiles : ProfilePageInitOf(us, them)
  BY DEF ProfilePageInit
<1>2. /\ viewerIn \in BOOLEAN /\ owner = 0 /\ met = FALSE /\ pageRead = [NoRead EXCEPT !.state = "sent"]
      /\ iFollow = FALSE /\ baseIFollow = FALSE /\ edgeRead = NoRead /\ pending = FALSE
      /\ toggle = NoToggle /\ pageDialog = "none"
  BY <1>1 DEF ProfilePageInitOf
<1>3. visiting \in Profiles
  <2>1. \E p \in Profiles : \A q \in Profiles : p <= q
    BY ProfilePageConstants, LeastNumber
  <2>2. visiting = CHOOSE p \in Profiles : \A q \in Profiles : p <= q
    BY <1>1 DEF ProfilePageInitOf
  <2> QED BY <2>1, <2>2
<1>4. FollowTyped
  BY <1>2, <1>3, ReadsAre DEF FollowTyped
<1>5. ReadOrder /\ AsStranger
  BY <1>2, ReadsAre DEF ReadOrder, AsStranger
<1> QED BY <1>2, <1>4, <1>5 DEF FollowInv

\* Dialogs, blocks and lists are no part of it; a guest alone is asked to sign in.
LEMMA FollowStill ==
  ASSUME FollowInv, viewerIn' = viewerIn, iFollow' = iFollow, baseIFollow' = baseIFollow,
         pending' = pending, visiting' = visiting, owner' = owner, pageRead' = pageRead,
         edgeRead' = edgeRead, toggle' = toggle, following' = following,
         headerCount' = headerCount, met' = met,
         pageDialog' = "auth" => pageDialog = "auth" \/ ~viewerIn
  PROVE  FollowInv'
<1>1. FollowTyped'
  BY DEF FollowInv, FollowTyped
<1>2. ReadOrder => ReadOrder'
  BY DEF ReadOrder
<1>3. (AsStranger => AsStranger') /\ (AsVisitor => AsVisitor')
  BY DEF AsStranger, AsVisitor, Edge, Followers
<1> QED BY <1>1, <1>2, <1>3 DEF FollowInv

LEMMA FollowDialogsKeep ==
  ASSUME FollowInv,
         \/ OpenMenu \/ Dismiss \/ BlockUser \/ BlockAnswers \/ OpenPageReport \/ OpenLists \/ ListsLoad
  PROVE  FollowInv'
<1>1. /\ viewerIn' = viewerIn /\ iFollow' = iFollow /\ baseIFollow' = baseIFollow
      /\ pending' = pending /\ visiting' = visiting /\ owner' = owner /\ pageRead' = pageRead
      /\ edgeRead' = edgeRead /\ toggle' = toggle /\ following' = following
      /\ headerCount' = headerCount /\ met' = met
  BY DEF OpenMenu, Dismiss, BlockUser, BlockAnswers, OpenPageReport, OpenLists, ListsLoad, Shows, FollowVars
<1>2. pageDialog' = "auth" => pageDialog = "auth" \/ ~viewerIn
  BY DEF OpenMenu, Dismiss, BlockUser, BlockAnswers, OpenPageReport, OpenLists, ListsLoad, Shows
<1> QED BY <1>1, <1>2, FollowStill

LEMMA VisitKeeps == ASSUME FollowInv, NEW p \in Profiles, Visit(p) PROVE FollowInv'
<1>1. /\ viewerIn' = viewerIn /\ visiting' = p /\ owner' = 0
      /\ pageRead' = [NoRead EXCEPT !.state = "sent"] /\ iFollow' = FALSE /\ baseIFollow' = FALSE
      /\ edgeRead' = NoRead /\ pending' = pending /\ toggle' = toggle
      /\ met' = (met \/ toggle # NoToggle)
      /\ pageDialog' = "auth" => pageDialog = "auth"
  BY DEF Visit, Stranger
<1>2. pageRead' \in PageReads /\ edgeRead' \in PageReads /\ pageRead'.state = "sent" /\ edgeRead'.state = "none"
  BY <1>1, ReadsAre
<1>3. FollowTyped'
  BY <1>1, <1>2 DEF FollowInv, FollowTyped
<1>4. ASSUME ~met' PROVE ReadOrder' /\ AsStranger'
  <2>1. ReadOrder /\ toggle = NoToggle
    BY <1>1, <1>4 DEF FollowInv
  <2> QED BY <1>1, <1>2, <2>1 DEF ReadOrder, AsStranger
<1> QED BY <1>1, <1>3, <1>4 DEF FollowInv

LEMMA PageReadsKeep == ASSUME FollowInv, PageServed \/ PageFails PROVE FollowInv'
<1>1. /\ viewerIn' = viewerIn /\ iFollow' = iFollow /\ baseIFollow' = baseIFollow
      /\ pending' = pending /\ visiting' = visiting /\ owner' = owner
      /\ edgeRead' = edgeRead /\ toggle' = toggle /\ following' = following
      /\ headerCount' = headerCount /\ met' = met /\ pageDialog' = pageDialog
  BY DEF PageServed, PageFails, FollowVars
<1>2. /\ pageRead' \in PageReads /\ pageRead.state # "none"
      /\ pageRead'.state = "ok" => (pageRead'.edge <=> visiting \in following)
  <2>1. CASE PageServed
    <3>1. CASE pageRead' = [state |-> "ok", edge |-> visiting \in following]
      <4> DEFINE e == visiting \in following
      <4>1. e \in BOOLEAN
        OBVIOUS
      <4>2. pageRead' = [state |-> "ok", edge |-> e]
        BY <3>1
      <4> HIDE DEF e
      <4>3. pageRead' \in PageReads /\ pageRead'.edge = e
        BY <4>1, <4>2 DEF PageReads
      <4>4. pageRead'.edge <=> e
        BY <4>3
      <4>5. pageRead'.edge <=> visiting \in following
        BY <4>4 DEF e
      <4> QED BY <2>1, <4>3, <4>5 DEF PageServed
    <3>2. CASE pageRead' = [pageRead EXCEPT !.state = "lost"]
      BY <2>1, <3>2 DEF PageServed, PageReads, FollowInv, FollowTyped
    <3> QED BY <2>1, <3>1, <3>2 DEF PageServed
  <2>2. CASE PageFails
    BY <2>2, ReadsAre DEF PageFails
  <2> QED BY <2>1, <2>2
<1>3. FollowTyped'
  BY <1>1, <1>2 DEF FollowInv, FollowTyped
<1>4. ReadOrder => ReadOrder'
  BY <1>1, <1>2 DEF ReadOrder
<1>5. (AsStranger => AsStranger') /\ (AsVisitor => AsVisitor')
  BY <1>1 DEF AsStranger, AsVisitor, Edge, Followers
<1> QED BY <1>1, <1>3, <1>4, <1>5 DEF FollowInv

LEMMA PageShownKeeps == ASSUME FollowInv, PageShown PROVE FollowInv'
<1>1. /\ viewerIn' = viewerIn /\ visiting' = visiting /\ owner' = visiting /\ pageRead' = NoRead
      /\ headerCount' = IF pageRead.edge THEN 1 ELSE 0
      /\ iFollow' = FALSE /\ baseIFollow' = FALSE
      /\ pending' = pending /\ toggle' = toggle /\ following' = following /\ met' = met
      /\ pageDialog' = pageDialog /\ pageRead.state = "ok"
  BY DEF PageShown, Stranger
<1>2. /\ edgeRead' = IF viewerIn THEN [NoRead EXCEPT !.state = "sent"] ELSE NoRead
      /\ visiting \in Profiles /\ visiting # 0
  BY ProfilePageConstants DEF PageShown, Stranger, FollowInv, FollowTyped
<1>3. /\ edgeRead' \in PageReads /\ edgeRead'.state # "ok" /\ (viewerIn => edgeRead' # NoRead)
      /\ pageRead' \in PageReads /\ pageRead'.state = "none"
  BY <1>1, <1>2, ReadsAre
<1>4. FollowTyped'
  BY <1>1, <1>2, <1>3 DEF FollowInv, FollowTyped
<1>5. ASSUME ~met' PROVE ReadOrder' /\ AsStranger'
  <2>1. ReadOrder /\ toggle = NoToggle /\ (pageRead.edge <=> visiting \in following)
    BY <1>1, <1>5 DEF FollowInv, ReadOrder
  <2>2. ReadOrder'
    BY <1>1, <1>2, <1>3, <2>1 DEF ReadOrder
  <2>3. AsStranger'
    BY <1>1, <1>2, <1>3, <2>1 DEF AsStranger, Followers
  <2> QED BY <2>2, <2>3
<1> QED BY <1>1, <1>3, <1>4, <1>5 DEF FollowInv

LEMMA EdgeReadsKeep == ASSUME FollowInv, EdgeServed PROVE FollowInv'
<1>1. /\ viewerIn' = viewerIn /\ iFollow' = iFollow /\ baseIFollow' = baseIFollow
      /\ pending' = pending /\ visiting' = visiting /\ owner' = owner /\ pageRead' = pageRead
      /\ toggle' = toggle /\ following' = following /\ edgeRead.state = "sent"
      /\ headerCount' = headerCount /\ met' = met /\ pageDialog' = pageDialog
  BY DEF EdgeServed
<1>2. /\ edgeRead' \in PageReads /\ edgeRead'.state # "none"
      /\ edgeRead'.state = "ok" => (edgeRead'.edge <=> Edge)
  <2>1. CASE edgeRead' = [state |-> "ok", edge |-> owner \in following]
    <3>1. edgeRead' = [state |-> "ok", edge |-> Edge]
      BY <2>1 DEF Edge
    <3>2. Edge \in BOOLEAN
      BY DEF Edge
    <3>3. edgeRead' \in PageReads /\ edgeRead'.edge = Edge /\ edgeRead'.state = "ok"
      BY <3>1, <3>2 DEF PageReads
    <3> QED BY <3>3
  <2>2. CASE edgeRead' = [edgeRead EXCEPT !.state = "lost"]
    BY <2>2 DEF PageReads, FollowInv, FollowTyped
  <2> QED BY <2>1, <2>2 DEF EdgeServed
<1>3. edgeRead # NoRead /\ edgeRead' # NoRead
  BY <1>1, <1>2, ReadsAre
<1>4. FollowTyped'
  BY <1>1, <1>2 DEF FollowInv, FollowTyped
<1>5. ReadOrder => ReadOrder'
  BY <1>1, <1>3 DEF ReadOrder
<1>6. AsStranger => AsStranger'
  BY <1>1, <1>2 DEF AsStranger, Edge, Followers
<1> QED BY <1>1, <1>3, <1>4, <1>5, <1>6 DEF FollowInv

LEMMA EdgeShownKeeps == ASSUME FollowInv, EdgeShown PROVE FollowInv'
<1>1. /\ viewerIn' = viewerIn /\ edgeRead' = NoRead /\ iFollow' = edgeRead.edge
      /\ baseIFollow' = edgeRead.edge /\ edgeRead.state = "ok"
      /\ pending' = pending /\ visiting' = visiting /\ owner' = owner /\ pageRead' = pageRead
      /\ toggle' = toggle /\ following' = following
      /\ headerCount' = headerCount /\ met' = met /\ pageDialog' = pageDialog
  BY DEF EdgeShown
<1>2. edgeRead # NoRead /\ edgeRead.edge \in BOOLEAN /\ NoRead \in PageReads
  BY <1>1, ReadsAre DEF PageReads, FollowInv, FollowTyped
<1>3. FollowTyped'
  BY <1>1, <1>2 DEF FollowInv, FollowTyped
<1>4. ASSUME ~met' PROVE ReadOrder' /\ AsVisitor' /\ viewerIn'
  <2>1. ReadOrder /\ AsStranger
    BY <1>1, <1>2, <1>4 DEF FollowInv
  <2>2. ReadOrder'
    BY <1>1, <2>1 DEF ReadOrder
  <2>3. headerCount' = Followers(owner)' /\ (baseIFollow' <=> Edge') /\ (iFollow' <=> Edge')
    BY <1>1, <1>2, <2>1 DEF ReadOrder, AsStranger, Edge, Followers
  <2>4. AsVisitor'
    BY <1>1, <1>3, <2>1, <2>3 DEF AsStranger, AsVisitor, Edge, Followers, FollowTyped
  <2> QED BY <1>1, <1>2, <2>1, <2>2, <2>4 DEF ReadOrder
<1> QED BY <1>1, <1>3, <1>4 DEF FollowInv

LEMMA EdgeFailsKeeps == ASSUME FollowInv, EdgeFails PROVE FollowInv'
<1>1. /\ viewerIn' = viewerIn /\ iFollow' = iFollow /\ baseIFollow' = baseIFollow
      /\ pending' = pending /\ visiting' = visiting /\ owner' = owner /\ pageRead' = pageRead
      /\ toggle' = toggle /\ edgeRead' = NoRead /\ met' = TRUE
  BY DEF EdgeFails
<1>2. FollowTyped'
  BY <1>1, ReadsAre DEF FollowInv, FollowTyped
<1> QED BY <1>1, <1>2 DEF FollowInv

LEMMA TogglesKeeps == ASSUME FollowInv, Toggles PROVE FollowInv'
<1>1. /\ viewerIn' = viewerIn /\ baseIFollow' = baseIFollow /\ visiting' = visiting
      /\ owner' = owner /\ pageRead' = pageRead /\ edgeRead' = edgeRead
      /\ following' = following /\ headerCount' = headerCount /\ owner # 0 /\ ~pending
  BY DEF Toggles
<1>2. CASE viewerIn
  <2>1. /\ pending' = TRUE /\ iFollow' = ~iFollow /\ pageDialog' = pageDialog
        /\ toggle' = [of |-> owner, next |-> ~iFollow, state |-> "sent"]
        /\ met' = (met \/ edgeRead # NoRead)
    BY <1>2 DEF Toggles
  <2>2. /\ toggle' # NoToggle /\ toggle'.of = owner /\ (toggle'.next <=> ~iFollow) /\ toggle'.state = "sent"
        /\ toggle' \in [of : Profiles, next : BOOLEAN, state : {"sent", "ok", "lost"}]
    BY <1>1, <2>1 DEF NoToggle, FollowInv, FollowTyped
  <2>3. FollowTyped'
    BY <1>1, <2>1, <2>2 DEF FollowInv, FollowTyped
  <2>4. ASSUME ~met' PROVE ReadOrder' /\ AsVisitor' /\ edgeRead' = NoRead /\ viewerIn'
    <3>1. ReadOrder /\ AsVisitor /\ edgeRead = NoRead /\ toggle = NoToggle
      BY <1>1, <1>2, <2>1, <2>4 DEF FollowInv, ReadOrder
    <3>2. ReadOrder'
      BY <1>1, <2>1, <2>2, <3>1 DEF ReadOrder
    <3>3. AsVisitor'
      BY <1>1, <2>1, <2>2, <3>1 DEF AsVisitor, Edge, FollowInv, FollowTyped
    <3> QED BY <1>1, <1>2, <3>1, <3>2, <3>3
  <2> QED BY <2>3, <2>4 DEF FollowInv
<1>3. CASE ~viewerIn
  <2>1. /\ pending' = pending /\ iFollow' = iFollow /\ toggle' = toggle /\ met' = met
    BY <1>3 DEF Toggles
  <2> QED BY <1>1, <1>3, <2>1, FollowStill
<1> QED BY <1>2, <1>3

LEMMA ToggleServedKeeps == ASSUME FollowInv, ToggleServed PROVE FollowInv'
<1>1. /\ viewerIn' = viewerIn /\ baseIFollow' = baseIFollow /\ visiting' = visiting
      /\ owner' = owner /\ pageRead' = pageRead /\ edgeRead' = edgeRead /\ iFollow' = iFollow
      /\ headerCount' = headerCount /\ pending' = pending /\ pageDialog' = pageDialog
  BY DEF ToggleServed
<1>2. /\ toggle.state = "sent" /\ toggle # NoToggle
      /\ toggle \in [of : Profiles, next : BOOLEAN, state : {"sent", "ok", "lost"}]
  BY TogglesAre DEF ToggleServed, FollowInv
<1>3. PICK s \in {"ok", "lost"} :
        /\ toggle' = [toggle EXCEPT !.state = s]
        /\ met' = TRUE \/ (met' = met /\ following' = IF s = "ok" THEN Obeyed ELSE following)
  BY DEF ToggleServed
<1>4. /\ toggle' # NoToggle /\ toggle'.of = toggle.of /\ toggle'.next = toggle.next /\ toggle'.state = s
      /\ toggle' \in [of : Profiles, next : BOOLEAN, state : {"sent", "ok", "lost"}]
  BY <1>2, <1>3 DEF NoToggle
<1>5. FollowTyped'
  BY <1>1, <1>4 DEF FollowInv, FollowTyped
<1>6. ASSUME ~met' PROVE ReadOrder' /\ AsVisitor' /\ edgeRead' = NoRead /\ viewerIn'
  <2>1. ReadOrder /\ AsVisitor /\ edgeRead = NoRead /\ viewerIn /\ owner # 0
    BY <1>2, <1>3, <1>6 DEF FollowInv, ReadOrder, AsStranger
  <2>2. ReadOrder'
    BY <1>1, <1>2, <1>4, <2>1 DEF ReadOrder
  <2>3. (toggle'.state = "ok") <=> (Edge' <=> toggle'.next)
    <3>1. (Edge <=> ~toggle.next) /\ toggle.of = owner
      BY <1>2, <2>1 DEF AsVisitor
    <3>2. following' = IF s = "ok" THEN Obeyed ELSE following
      BY <1>3, <1>6
    <3> QED BY <1>1, <1>4, <3>1, <3>2 DEF Edge, Obeyed
  <2>4. AsVisitor'
    BY <1>1, <1>2, <1>4, <2>1, <2>3 DEF AsVisitor
  <2> QED BY <1>1, <2>1, <2>2, <2>4
<1> QED BY <1>5, <1>6 DEF FollowInv

LEMMA ToggleAnswersKeeps == ASSUME FollowInv, ToggleAnswers PROVE FollowInv'
<1>1. /\ viewerIn' = viewerIn /\ baseIFollow' = baseIFollow /\ visiting' = visiting
      /\ owner' = owner /\ pageRead' = pageRead /\ edgeRead' = edgeRead
      /\ headerCount' = headerCount /\ pageDialog' = pageDialog /\ following' = following
      /\ pending' = FALSE /\ toggle' = NoToggle /\ met' = met
      /\ iFollow' = IF toggle.state = "ok" THEN iFollow ELSE ~toggle.next
  BY DEF ToggleAnswers
<1>2. /\ toggle # NoToggle /\ toggle.state # "sent"
      /\ toggle \in [of : Profiles, next : BOOLEAN, state : {"sent", "ok", "lost"}]
  BY TogglesAre DEF ToggleAnswers, FollowInv
<1>3. FollowTyped'
  BY <1>1, <1>2 DEF FollowInv, FollowTyped
<1>4. ASSUME ~met' PROVE ReadOrder' /\ AsVisitor' /\ edgeRead' = NoRead /\ viewerIn'
  <2>1. ReadOrder /\ AsVisitor /\ edgeRead = NoRead /\ viewerIn /\ owner # 0
    BY <1>1, <1>2, <1>4 DEF FollowInv, ReadOrder, AsStranger
  <2>2. ReadOrder'
    BY <1>1, <1>2, <2>1 DEF ReadOrder
  <2>3. iFollow' <=> Edge'
    BY <1>1, <1>2, <2>1 DEF AsVisitor, Edge, FollowInv, FollowTyped
  <2>4. AsVisitor'
    BY <1>1, <2>1, <2>3 DEF AsVisitor
  <2> QED BY <1>1, <2>1, <2>2, <2>4
<1> QED BY <1>3, <1>4 DEF FollowInv

LEMMA SignsInKeeps == ASSUME FollowInv, SignsIn PROVE FollowInv'
<1>1. /\ viewerIn' = TRUE /\ iFollow' = FALSE /\ baseIFollow' = FALSE /\ visiting' = visiting
      /\ owner' = owner /\ pageRead' = pageRead /\ headerCount' = headerCount
      /\ pageDialog = "auth" /\ pageDialog' = "none" /\ following' = following
      /\ pending' = pending /\ toggle' = toggle /\ met' = met
      /\ edgeRead' = IF owner = 0 THEN NoRead ELSE [NoRead EXCEPT !.state = "sent"]
  BY DEF SignsIn, Stranger
<1>2. /\ edgeRead' \in PageReads /\ edgeRead'.state # "ok" /\ (edgeRead' = NoRead <=> owner = 0)
  BY <1>1, ReadsAre
<1>3. FollowTyped'
  BY <1>1, <1>2 DEF FollowInv, FollowTyped
<1>4. ASSUME ~met' PROVE ReadOrder' /\ AsStranger' /\ (edgeRead' = NoRead => owner' = 0)
  <2>1. ReadOrder /\ ~viewerIn /\ AsStranger
    BY <1>1, <1>4 DEF FollowInv, ReadOrder
  <2>2. ReadOrder'
    BY <1>1, <1>2, <2>1 DEF ReadOrder
  <2>3. AsStranger'
    BY <1>1, <1>2, <2>1 DEF AsStranger, Followers
  <2> QED BY <1>1, <1>2, <2>2, <2>3
<1> QED BY <1>3, <1>4 DEF FollowInv

LEMMA FollowStep == ASSUME FollowInv, [ProfilePageNext]_profileVars PROVE FollowInv'
<1>1. CASE UNCHANGED profileVars
  BY <1>1, FollowStill DEF profileVars
<1>2. CASE ProfilePageNext
  BY <1>2, VisitKeeps, PageReadsKeep, PageShownKeeps, EdgeReadsKeep, EdgeShownKeeps, EdgeFailsKeeps,
     TogglesKeeps, ToggleServedKeeps, ToggleAnswersKeeps, SignsInKeeps, FollowDialogsKeep
  DEF ProfilePageNext
<1> QED BY <1>1, <1>2

LEMMA FollowMeans == ASSUME FollowInv PROVE FollowIsTrue
<1>1. ASSUME viewerIn, owner # 0, edgeRead = NoRead, toggle = NoToggle, ~met
      PROVE  (iFollow <=> Edge) /\ headerCount + countDelta = Followers(owner)
  <2>1. (iFollow <=> Edge) /\ headerCount = IF baseIFollow THEN 1 ELSE 0
    BY <1>1 DEF FollowInv, AsVisitor
  <2>2. iFollow \in BOOLEAN /\ baseIFollow \in BOOLEAN
    BY DEF FollowInv, FollowTyped
  <2> QED BY <2>1, <2>2 DEF countDelta, Followers, Edge
<1>2. iFollow \in BOOLEAN
  BY DEF FollowInv, FollowTyped
<1> QED BY <1>1, <1>2 DEF FollowIsTrue, Edge

-----------------------------------------------------------------------------
(***************************************************************************)
(* The scenes.  A step of the client is a step of the part whose scene it  *)
(* is, and leaves the others alone, so an invariant of a part that its own *)
(* steps keep is one of the whole.                                         *)
(***************************************************************************)
LEMMA ScenesApart ==
  ASSUME [ClientNext]_clientVars
  PROVE  /\ [IdentityNext]_identityVars /\ [ControlsNext]_controlsVars
         /\ [ProfilePageNext]_profileVars /\ [WalletNext]_walletVars
         /\ [ConsoleNext]_consoleVars /\ [StageNext]_stageVars /\ [LinkNext]_linkVars
         /\ [MediaNext]_mediaVars /\ [DenoiseNext]_denoiseVars
         /\ [PreferencesNext]_prefsVars /\ [EditorNext]_editorVars
         /\ [ChatNext]_chatVars /\ [RosterNext]_rosterVars
         /\ [PartyNext]_partyVars /\ [GameNext]_gameVars
<1>1. CASE UNCHANGED clientVars
  BY <1>1 DEF clientVars
<1>2. CASE ClientNext
  BY <1>2, SMTT(30) DEF ClientNext
<1>q. QED
  BY <1>1, <1>2

\* What the page takes its visitor for and what the server has agree once all is quiet,
\* and nobody is matched before an adult date was given: in every client, with any
\* number of accounts, logins, reloads, expiries and lost answers.
THEOREM IdentityIsTrueAlways == ClientSpec => []IdentityIsTrue
<1>1. ClientInit => IdentityInv
  BY IdentityStarts DEF ClientInit
<1>2. IdentityInv /\ [ClientNext]_clientVars => IdentityInv'
  BY IdentityStep, ScenesApart
<1>3. IdentityInv => IdentityIsTrue
  BY IdentityMeans DEF IdentityIsTrue
<1>q. QED
  BY <1>1, <1>2, <1>3, PTL DEF ClientSpec

\* A report or a block of a call goes to the stranger whose tile it was asked on, whatever
\* call, rematch or departure came between the menu and the answer.
THEOREM ReportsHitTheirTileAlways == ClientSpec => []ReportsHitTheirTile
<1>1. ClientInit => ControlsInv
  BY ControlsStart DEF ClientInit
<1>2. ControlsInv /\ [ClientNext]_clientVars => ControlsInv'
  BY ControlsStep, ScenesApart
<1>3. ControlsInv => ReportsHitTheirTile
  BY ControlsMean
<1>q. QED
  BY <1>1, <1>2, <1>3, PTL DEF ClientSpec

\* A profile page, the wallet and the console show what the server has once they wait
\* for no answer, save for the overlaps the parts name.
THEOREM QuietPagesAreTrueAlways == ClientSpec => []QuietPagesAreTrue
<1>1. ClientInit => FollowInv /\ WalletInv /\ ConsoleInv
  BY FollowStart, WalletStart, ConsoleStart DEF ClientInit
<1>2. FollowInv /\ WalletInv /\ ConsoleInv /\ [ClientNext]_clientVars
        => (FollowInv /\ WalletInv /\ ConsoleInv)'
  BY FollowStep, WalletStep, ConsoleStep, ScenesApart
<1>3. FollowInv /\ WalletInv /\ ConsoleInv => QuietPagesAreTrue
  BY FollowMeans, WalletMeans, ConsoleMeans DEF QuietPagesAreTrue
<1>q. QED
  BY <1>1, <1>2, <1>3, PTL DEF ClientSpec

\* Whoever speaks is not talked over by a floor nobody hears; the spotlight has a tile unless
\* the floor is with somebody who left and nothing is pinned; an idle badge stands over no
\* connection but one made after a clear() that did not find it, and any other badge is about
\* a connection kept or being made, unless one that is not kept wrote it or left it: for any
\* participants, levels and connections, with calls and clears in any order.
THEOREM StageIsTrueAlways == ClientSpec => []StageIsTrue
<1>1. ClientInit => StageInv /\ BadgeInv
  BY StageStart, BadgeStart DEF ClientInit
<1>2. StageInv /\ BadgeInv /\ [ClientNext]_clientVars => (StageInv /\ BadgeInv)'
  BY StageStep, BadgeStep, ScenesApart
<1>3. StageInv /\ BadgeInv => StageIsTrue
  BY StageMeans DEF StageIsTrue, BadgeInv
<1>q. QED
  BY <1>1, <1>2, <1>3, PTL DEF ClientSpec

\* Every open device is reached by stop and mute unless acquisitions overlapped, a muted
\* microphone is never opened live again, and the peers who get the denoised track hear the
\* microphone in use: for any devices and any number of callbacks under way.
THEOREM MediaIsTrueAlways == ClientSpec => []MediaIsTrue
<1>1. ClientInit => MediaInv /\ ChainInv
  BY MediaStart, ChainStart DEF ClientInit
<1>2. MediaInv /\ ChainInv /\ [ClientNext]_clientVars => (MediaInv /\ ChainInv)'
  BY MediaStep, ChainStep, ScenesApart
<1>3. MediaInv => DevicesOwned /\ MuteHolds
  BY DEF MediaInv, DevicesOwned
<1>4. MediaInv /\ ChainInv => MediaIsTrue
  BY <1>3, ChainMeans DEF MediaIsTrue
<1>q. QED
  BY <1>1, <1>2, <1>4, PTL DEF ClientSpec

\* The matchmaker is asked with the filters on the page, which are those of the account, and
\* what the profile editor says it saved is what its user typed: for any number of saves,
\* drafts, photos and accounts, save for the overlaps the parts name.
THEOREM ChosenIsKeptAlways == ClientSpec => []ChosenIsKept
<1>1. ClientInit => PrefsInv /\ EditorInv
  BY PrefsStart, EditorStart DEF ClientInit, EditorInit, Documents
<1>2. PrefsInv /\ EditorInv /\ [ClientNext]_clientVars => (PrefsInv /\ EditorInv)'
  BY PrefsStep, EditorStep, ScenesApart
<1>3. PrefsInv /\ EditorInv => ChosenIsKept
  BY PrefsMean, EditorMeans DEF ChosenIsKept
<1>q. QED
  BY <1>1, <1>2, <1>3, PTL DEF ClientSpec

\* Unread badges count the messages that came, the thread is that of the open conversation
\* save for an answer that came under another one, and the lists of friends, requests and
\* profiles settle on what the server has: for any number of friends, messages and answers
\* under way.
THEOREM SocialIsTrueAlways == ClientSpec => []SocialIsTrue
<1>1. ClientInit => ChatInv /\ RosterInv
  BY ChatStart, RosterStart DEF ClientInit
<1>2. ChatInv /\ RosterInv /\ [ClientNext]_clientVars => (ChatInv /\ RosterInv)'
  BY ChatStep, RosterStep, ScenesApart
<1>3. ChatInv /\ RosterInv => SocialIsTrue
  BY RosterMeans DEF SocialIsTrue, ChatInv
<1>q. QED
  BY <1>1, <1>2, <1>3, PTL DEF ClientSpec

\* The two boards of a game are the same once nothing is under way, however moves and
\* rematches crossed, unless an update went out while a frame was not there; the party is
\* that of the call on the screen; and a game is open in its own party and announced in its
\* own call only, unless it was opened under another party or was open, and ours, when the
\* room changed: for any number of moves, rematches, rooms, games and requests.
THEOREM GamesAreTrueAlways == ClientSpec => []GamesAreTrue
<1>1. ClientInit => GameInv /\ PartyInv
  BY GameStart, PartyStart DEF ClientInit
<1>2. GameInv /\ PartyInv /\ [ClientNext]_clientVars => (GameInv /\ PartyInv)'
  BY GameStep, PartyStep, ScenesApart
<1>3. GameInv /\ PartyInv => GamesAreTrue
  BY GameMeans, PartyMeans DEF GamesAreTrue
<1>q. QED
  BY <1>1, <1>2, <1>3, PTL DEF ClientSpec
=============================================================================
