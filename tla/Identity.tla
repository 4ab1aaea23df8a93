----------------------------- MODULE Identity -----------------------------
(***************************************************************************)
(* Who the page believes is signed in, and the age gate: the boot of       *)
(* hooks/useSessionBootstrap.ts, sign-in and sign-out of App.tsx and       *)
(* AuthModal.tsx, and what of it outlives the page (utils/storage.ts,      *)
(* utils/clientStorage.ts).  A request carries the credentials of the      *)
(* moment it was sent; its answer is applied whenever it comes.            *)
(***************************************************************************)
EXTENDS Naturals, FiniteSets

CONSTANTS Accounts,   \* numbered from 1
          BirthOf,    \* the birth date on record: "adult", "minor" or "none"
          MaxLogins, MaxReloads, MaxExpiries, MaxLost

ASSUME IdentityConstants ==
  /\ IsFiniteSet(Accounts) /\ Accounts = 1 .. Cardinality(Accounts)
  /\ BirthOf \in [Accounts -> {"adult", "minor", "none"}]
  /\ {MaxLogins, MaxReloads, MaxExpiries, MaxLost} \subseteq Nat

VARIABLES
  server,        \* which sessions it issues: "cookie" or "legacy" bearers
  persistent,    \* localStorage works; private mode refuses writes
  cookie,        \* the browser's session cookie
  sessions,      \* accounts whose session is valid on the server
  memoryToken, storedUser, storedBirth, storedComplete,
  user, profileNeeded, authOpen, wizard,
  boot,          \* "probing" the API, then "done"
  verifyLink,    \* the address still carries a verification token
  checks,         \* per kind of request under way: whose credentials it carries, or Quiet
  vouched,       \* an adult date was given here, or by an account (history)
  begun,         \* a match was started from this page (history)
  overtaken,     \* the user signed in or out while the page was still asking who it is
  unheard,       \* an answer was lost, or a session ended on the server's side
  logins, reloads, expiries, lost

storage == <<storedUser, storedBirth, storedComplete>>
counts == <<logins, reloads, expiries, lost>>
shownPage == <<user, profileNeeded, authOpen, wizard, boot>>
identityVars == <<server, persistent, cookie, sessions, memoryToken, storage, shownPage, verifyLink, checks,
                  vouched, begun, overtaken, unheard, counts>>

NoUser == 0
MaybeAccount == Accounts \cup {NoUser}
Requests == {"me", "verify", "verifyMe", "refresh", "login", "logout"}
Quiet == 1 + Cardinality(Accounts)
Silence == [k \in Requests |-> Quiet]

IdentityTypeOK ==
  /\ server \in {"cookie", "legacy"}
  /\ {cookie, memoryToken, storedUser, user} \subseteq MaybeAccount /\ sessions \subseteq Accounts
  /\ checks \in [Requests -> MaybeAccount \cup {Quiet}]
  /\ storedBirth \in {"none", "minor", "adult"}
  /\ {persistent, storedComplete, profileNeeded, authOpen, verifyLink, vouched, begun, overtaken,
      unheard} \subseteq BOOLEAN
  /\ wizard \in {"closed", "mode", "devices", "prefs"} /\ boot \in {"probing", "done"}

\* api(): the cookie goes with every request, the bearer when there is one
Credentials ==
  LET who == IF server = "cookie" THEN cookie ELSE memoryToken
  IN IF who \in sessions THEN who ELSE NoUser

Sends(k, who) == checks' = [checks EXCEPT ![k] = who]
Ends(k) == checks' = [checks EXCEPT ![k] = Quiet]

\* localStorage, which may refuse
Keeps(old, new) == IF persistent THEN new ELSE old

IsAdult(birth) == birth = "adult"
IsAgeGateComplete(complete, birth) == complete \/ IsAdult(birth)

(***************************************************************************)
(* The account and the gate                                                *)
(***************************************************************************)
\* applyUserToClient: an adult date on record completes the gate here too
ApplyUserToClient(a) ==
  /\ storedBirth' = Keeps(storedBirth, IF BirthOf[a] = "none" THEN storedBirth ELSE BirthOf[a])
  /\ storedComplete' = Keeps(storedComplete, storedComplete \/ IsAdult(BirthOf[a]))
  /\ profileNeeded' = ~(IsAgeGateComplete(storedComplete, storedBirth) \/ IsAdult(BirthOf[a]))
  /\ vouched' = (vouched \/ IsAdult(BirthOf[a]))

\* applyUser of App.tsx
ApplyUser(a) ==
  /\ user' = a
  /\ IF a = NoUser
     THEN /\ profileNeeded' = ~IsAgeGateComplete(storedComplete, storedBirth)
          /\ UNCHANGED <<storedBirth, storedComplete, vouched>>
     ELSE ApplyUserToClient(a)

IdentityInit ==
  /\ server \in {"cookie", "legacy"} /\ persistent \in BOOLEAN /\ verifyLink \in BOOLEAN
  /\ cookie = NoUser /\ sessions = {} /\ memoryToken = NoUser /\ storedUser = NoUser
  /\ storedBirth = "none" /\ storedComplete = FALSE /\ user = NoUser /\ profileNeeded = TRUE
  /\ authOpen = FALSE /\ wizard = "closed" /\ boot = "probing" /\ checks = Silence
  /\ vouched = FALSE /\ begun = FALSE /\ overtaken = FALSE /\ unheard = FALSE
  /\ logins = 0 /\ reloads = 0 /\ expiries = 0 /\ lost = 0

(***************************************************************************)
(* The boot                                                                *)
(***************************************************************************)
\* waitForApi is over, the API answered or the deadline passed
Boots ==
  /\ boot = "probing" /\ boot' = "done"
  /\ checks' = [checks EXCEPT !["me"] = Credentials, !["verify"] = IF verifyLink THEN Credentials ELSE Quiet]
  /\ UNCHANGED <<server, persistent, cookie, sessions, memoryToken, storage, user, profileNeeded,
                 authOpen, wizard, verifyLink, vouched, begun, overtaken, unheard, counts>>

\* me() names the account, if the server read the session while it was valid
MeAnswers ==
  /\ checks["me"] \in Accounts /\ Ends("me")
  /\ storedUser' = Keeps(storedUser, checks["me"])
  /\ ApplyUser(checks["me"])
  /\ UNCHANGED <<server, persistent, cookie, sessions, memoryToken, authOpen, wizard, boot, verifyLink,
                 begun, overtaken, unheard, counts>>

\* it fails: nobody is signed in, unless a bearer in memory is worth refreshing; the stored
\* profile stays
faulty_MeFails ==
  /\ checks["me"] # Quiet /\ checks["me"] \notin sessions
  /\ Ends("me")
  /\ UNCHANGED <<server, persistent, cookie, sessions, memoryToken, storage, shownPage, verifyLink, vouched,
                 begun, overtaken, unheard, counts>>

MeFails ==
  /\ checks["me"] # Quiet
  /\ \/ checks["me"] \notin sessions /\ UNCHANGED <<unheard, lost>>
     \/ lost < MaxLost /\ lost' = lost + 1 /\ unheard' = TRUE
  /\ IF memoryToken = NoUser
     THEN Ends("me") /\ ApplyUser(NoUser)
     ELSE /\ checks' = [checks EXCEPT !["me"] = Quiet, !["refresh"] = Credentials]
          /\ UNCHANGED <<user, profileNeeded, storedBirth, storedComplete, vouched>>
  /\ UNCHANGED <<server, persistent, cookie, sessions, memoryToken, storedUser, authOpen, wizard, boot,
                 verifyLink, begun, overtaken, logins, reloads, expiries>>

RefreshAnswers ==
  /\ checks["refresh"] \in Accounts /\ Ends("refresh")
  /\ memoryToken' = checks["refresh"] /\ sessions' = sessions \cup {checks["refresh"]}
  /\ storedUser' = Keeps(storedUser, checks["refresh"]) /\ ApplyUser(checks["refresh"])
  /\ UNCHANGED <<server, persistent, cookie, authOpen, wizard, boot, verifyLink, begun, overtaken,
                 unheard, counts>>

\* clearSession and nobody
RefreshFails ==
  /\ checks["refresh"] # Quiet /\ checks["refresh"] \notin sessions /\ Ends("refresh")
  /\ memoryToken' = NoUser /\ storedUser' = Keeps(storedUser, NoUser) /\ ApplyUser(NoUser)
  /\ UNCHANGED <<server, persistent, cookie, sessions, authOpen, wizard, boot, verifyLink, begun,
                 overtaken, unheard, counts>>

\* the e-mail is verified: the link is used up and the profile read again
VerifyAnswers ==
  /\ checks["verify"] # Quiet
  /\ \/ verifyLink' = FALSE /\ checks' = [checks EXCEPT !["verify"] = Quiet, !["verifyMe"] = Credentials]
     \/ UNCHANGED verifyLink /\ Ends("verify")
  /\ UNCHANGED <<server, persistent, cookie, sessions, memoryToken, storage, shownPage, vouched, begun,
                 overtaken, unheard, counts>>

VerifyMeAnswers ==
  /\ checks["verifyMe"] # Quiet /\ Ends("verifyMe")
  /\ \/ checks["verifyMe"] \in Accounts /\ ApplyUser(checks["verifyMe"])
     \/ /\ checks["verifyMe"] \notin sessions
        /\ UNCHANGED <<user, profileNeeded, storedBirth, storedComplete, vouched>>
  /\ UNCHANGED <<server, persistent, cookie, sessions, memoryToken, storedUser, authOpen, wizard, boot,
                 verifyLink, begun, overtaken, unheard, counts>>

(***************************************************************************)
(* Signing in and out                                                      *)
(***************************************************************************)
Asking == \E k \in {"me", "verifyMe", "refresh"} : checks[k] # Quiet

OpenAuth ==
  /\ user = NoUser /\ ~authOpen /\ authOpen' = TRUE
  /\ UNCHANGED <<server, persistent, cookie, sessions, memoryToken, storage, user, profileNeeded,
                 wizard, boot, verifyLink, checks, vouched, begun, overtaken, unheard, counts>>

\* submit(): a registration is a login for this purpose
Submit(a) ==
  /\ authOpen /\ checks["login"] = Quiet /\ logins < MaxLogins /\ logins' = logins + 1
  /\ Sends("login", a)
  /\ UNCHANGED <<server, persistent, cookie, sessions, memoryToken, storage, shownPage, verifyLink, vouched,
                 begun, overtaken, unheard, reloads, expiries, lost>>

\* setAuthenticatedUser or setSession, applyUserToClient, onAuth, onClose
LoginAnswers ==
  LET a == checks["login"] IN
  /\ a # Quiet /\ Ends("login")
  /\ sessions' = sessions \cup {a}
  /\ IF server = "cookie" THEN cookie' = a /\ memoryToken' = NoUser
     ELSE memoryToken' = a /\ UNCHANGED cookie
  /\ storedUser' = Keeps(storedUser, a) /\ ApplyUser(a) /\ authOpen' = FALSE
  /\ overtaken' = (overtaken \/ Asking)
  /\ UNCHANGED <<server, persistent, wizard, boot, verifyLink, begun, unheard, counts>>

LoginFails ==
  /\ checks["login"] # Quiet /\ Ends("login")
  /\ UNCHANGED <<server, persistent, cookie, sessions, memoryToken, storage, shownPage, verifyLink, vouched,
                 begun, overtaken, unheard, counts>>

\* onAuthClick of somebody signed in
Logout ==
  /\ user # NoUser /\ checks["logout"] = Quiet /\ Sends("logout", Credentials)
  /\ UNCHANGED <<server, persistent, cookie, sessions, memoryToken, storage, shownPage, verifyLink, vouched,
                 begun, overtaken, unheard, counts>>

\* answered or failed, the page forgets the session
LogoutAnswers ==
  /\ checks["logout"] # Quiet /\ Ends("logout")
  /\ \/ /\ sessions' = sessions \ {checks["logout"]} /\ cookie' = NoUser /\ UNCHANGED <<unheard, lost>>
     \/ /\ lost < MaxLost /\ lost' = lost + 1 /\ unheard' = TRUE /\ UNCHANGED <<sessions, cookie>>
  /\ memoryToken' = NoUser /\ storedUser' = Keeps(storedUser, NoUser) /\ ApplyUser(NoUser)
  /\ overtaken' = (overtaken \/ Asking \/ checks["login"] # Quiet)
  /\ UNCHANGED <<server, persistent, authOpen, wizard, boot, verifyLink, begun, logins, reloads, expiries>>

Expires(a) ==
  /\ a \in sessions /\ expiries < MaxExpiries /\ expiries' = expiries + 1
  /\ sessions' = sessions \ {a} /\ unheard' = TRUE
  /\ UNCHANGED <<server, persistent, cookie, memoryToken, storage, shownPage, verifyLink, checks, vouched,
                 begun, overtaken, logins, reloads, lost>>

\* the bearer dies with the page; the stored profile is shown until the server is asked again
Reload ==
  /\ reloads < MaxReloads /\ reloads' = reloads + 1
  /\ memoryToken' = NoUser /\ checks' = Silence /\ boot' = "probing" /\ ApplyUser(storedUser)
  /\ authOpen' = FALSE /\ wizard' = "closed" /\ begun' = FALSE /\ overtaken' = FALSE /\ unheard' = FALSE
  /\ UNCHANGED <<server, persistent, cookie, sessions, storedUser, verifyLink, logins, expiries, lost>>

(***************************************************************************)
(* Starting a match                                                        *)
(***************************************************************************)
\* ProfileModal: only an adult date passes
Complete(birth) ==
  /\ profileNeeded /\ IsAdult(birth)
  /\ storedBirth' = Keeps(storedBirth, birth) /\ storedComplete' = Keeps(storedComplete, TRUE)
  /\ profileNeeded' = FALSE /\ vouched' = TRUE
  /\ UNCHANGED <<server, persistent, cookie, sessions, memoryToken, storedUser, user, authOpen, wizard,
                 boot, verifyLink, checks, begun, overtaken, unheard, counts>>

\* onStartClick: past the gate at once, else through the wizard
OnStartClick ==
  /\ ~profileNeeded /\ wizard = "closed"
  /\ IF IsAgeGateComplete(storedComplete, storedBirth)
     THEN begun' = TRUE /\ UNCHANGED wizard
     ELSE wizard' = "mode" /\ UNCHANGED begun
  /\ UNCHANGED <<server, persistent, cookie, sessions, memoryToken, storage, user, profileNeeded,
                 authOpen, boot, verifyLink, checks, vouched, overtaken, unheard, counts>>

\* StartMatchModal: the devices step needs a stream, the last one starts the match
WizardStep ==
  /\ \/ wizard = "mode" /\ wizard' \in {"devices", "closed"} /\ UNCHANGED begun
     \/ wizard = "devices" /\ wizard' \in {"prefs", "closed"} /\ UNCHANGED begun
     \/ wizard = "prefs" /\ wizard' = "closed" /\ begun' \in {begun, TRUE}
  /\ UNCHANGED <<server, persistent, cookie, sessions, memoryToken, storage, user, profileNeeded,
                 authOpen, boot, verifyLink, checks, vouched, overtaken, unheard, counts>>

IdentityNext ==
  \/ Boots \/ MeAnswers \/ MeFails \/ RefreshAnswers \/ RefreshFails
  \/ VerifyAnswers \/ VerifyMeAnswers
  \/ OpenAuth \/ LoginAnswers \/ LoginFails \/ Logout \/ LogoutAnswers
  \/ \E a \in Accounts : Submit(a) \/ Expires(a)
  \/ Reload \/ \E birth \in {"adult", "minor"} : Complete(birth)
  \/ OnStartClick \/ WizardStep

IdentitySpec == IdentityInit /\ [][IdentityNext]_identityVars

(***************************************************************************)
(* Properties                                                              *)
(***************************************************************************)
\* When nothing is under way the page shows the account the server would name, and holds no
\* bearer for nobody ("It dies with the page and is cleared on logout", storage.ts:112),
\* unless an answer was lost or a session ended unheard, or the user signed in or out while
\* the page was still asking: such an answer is applied over the newer identity.
IdentityAgrees ==
  boot = "done" /\ checks = Silence /\ ~overtaken /\ ~unheard =>
    user = Credentials /\ (user = NoUser => memoryToken = NoUser)

\* "Age gate is the only required pre-step" (clientStorage.ts:56): no match starts, by the
\* button or through the wizard, with storage or without, before an adult date was given.
GateKept == begun => vouched
=============================================================================
