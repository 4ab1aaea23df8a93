----------------------------- MODULE CallParty -----------------------------
(***************************************************************************)
(* Games inside a call: hooks/useCallParty.ts over hooks/useActivities.ts, *)
(* with the launcher and the invite prompt that App.tsx shows.  The party  *)
(* is a group made for the call; every request answers whenever it likes,  *)
(* and the call may be another one by then.                                *)
(***************************************************************************)
EXTENDS Naturals, Sequences, FiniteSets

CONSTANTS MaxCalls, MaxGroups, MaxGames, MaxInvites, MaxPartings

ASSUME PartyBounds == {MaxCalls, MaxGroups, MaxGames, MaxInvites, MaxPartings} \subseteq Nat

VARIABLES
  room,         \* the call of the page, 0 for none
  calls,        \* rooms so far
  partyPeers,   \* accounts in the call that can hold a seat
  party,        \* partyGroupId, 0 for null
  launcher, invite, provisioning, provisionFailed, joinGame,
  invited,      \* sentInvites
  sentTo,       \* rooms a game was announced in
  groupRoom,    \* per party group the server made: the call it was made for
  games,        \* the server's instances: group, made by us, still on
  gameList, listState, session, busy, creating,     \* groups being made, each for the call it was asked in
  loading,      \* groups whose list is being read
  opening,      \* launches and joins under way
  parting,      \* leave and end requests under way, each with the group whose list it re-reads
  invites,
  strayed       \* games opened in a call of another party, or announced in one (history)

partyVars == <<room, calls, partyPeers, party, launcher, invite, provisioning, provisionFailed,
               joinGame, invited, sentTo, groupRoom, games, gameList, listState, session, busy,
               creating, loading, opening, parting, invites, strayed>>

Myself == 1
Anonymous == 0
NoGame == 0

Own == {g \in 1 .. Len(games) : games[g].mine}

\* resolveCallPeers: an account other than ours; a guest has no user id
ResolvePeers(others) == others \ {Myself, Anonymous}

PartyTypeOK ==
  /\ {room, calls} \subseteq 0 .. MaxCalls
  /\ party \in 0 .. Len(groupRoom) /\ Len(groupRoom) <= MaxGroups /\ Len(games) <= MaxGames
  /\ {invite, joinGame, session} \subseteq 0 .. Len(games)
  /\ gameList \subseteq 1 .. Len(games) /\ invited \subseteq 1 .. Len(games)
  /\ {launcher, provisioning, provisionFailed, busy} \subseteq BOOLEAN
  /\ listState \in {"idle", "loading", "ready", "error"}
  /\ \A o \in opening : o.at \in {"launch", "join"} /\ o.game \in 0 .. Len(games)
  /\ strayed \cup {p.game : p \in parting} \subseteq 1 .. Len(games)

PartyInit ==
  /\ room = 0 /\ calls = 0 /\ partyPeers = {} /\ party = 0 /\ launcher = FALSE /\ invite = NoGame
  /\ provisioning = FALSE /\ provisionFailed = FALSE /\ joinGame = NoGame /\ invited = {}
  /\ sentTo = [g \in 1 .. MaxGames |-> {}] /\ groupRoom = <<>> /\ games = <<>>
  /\ gameList = {} /\ listState = "idle" /\ session = NoGame /\ busy = FALSE
  /\ creating = {} /\ loading = {} /\ opening = {} /\ parting = {}
  /\ invites = 0 /\ strayed = {}

(***************************************************************************)
(* Effects                                                                 *)
(***************************************************************************)
\* useActivities on a change of the group: nothing open, the list is read again
GroupBecomes(g) ==
  /\ party' = g
  /\ IF g = party THEN UNCHANGED <<session, gameList, listState, loading>>
     ELSE /\ session' = NoGame /\ gameList' = {}
          /\ listState' = (IF g = 0 THEN "idle" ELSE "loading")
          /\ loading' = (IF g = 0 THEN loading ELSE loading \cup {g})

\* load() of a group, not always the one that is shown
Reread(g) ==
  /\ loading' = (IF g = 0 THEN loading ELSE loading \cup {g})
  /\ listState' = (IF g # 0 /\ listState # "ready" THEN "loading" ELSE listState)

\* the session of an own game is announced in the room, once per game and call
Announces(g) ==
  IF g # NoGame /\ games'[g].mine /\ room # 0 /\ g \notin invited
  THEN invited' = invited \cup {g} /\ sentTo' = [sentTo EXCEPT ![g] = @ \cup {room}]
  ELSE UNCHANGED <<invited, sentTo>>

(***************************************************************************)
(* The call                                                                *)
(***************************************************************************)
\* the effect on roomId.  An open game is left; in the same flush the announcing effect, which
\* depends on the room too, still has it: an own one is announced in the room it is not of.
RoomChanges(r) ==
  LET own == r # 0 /\ session \in Own IN
  /\ room' = r
  /\ party' = 0 /\ session' = NoGame
  /\ gameList' = (IF party = 0 THEN gameList ELSE {})
  /\ listState' = (IF party = 0 THEN listState ELSE "idle")
  /\ launcher' = FALSE /\ invite' = NoGame /\ provisioning' = FALSE /\ provisionFailed' = FALSE
  /\ joinGame' = NoGame
  /\ invited' = (IF own THEN {session} ELSE {})
  /\ sentTo' = (IF own THEN [sentTo EXCEPT ![session] = @ \cup {r}] ELSE sentTo)
  /\ strayed' = (IF own THEN strayed \cup {session} ELSE strayed)
  /\ parting' = (IF session = NoGame THEN parting
                 ELSE parting \cup {[game |-> session, group |-> party, ends |-> FALSE]})
  /\ UNCHANGED <<groupRoom, games, busy, creating, loading, opening, invites>>

CallStarts ==
  /\ calls < MaxCalls /\ calls' = calls + 1
  /\ \E p \in {Anonymous, 2} : partyPeers' = ResolvePeers({Myself, p})
  /\ RoomChanges(calls + 1)

CallEnds ==
  /\ room # 0 /\ partyPeers' = {} /\ UNCHANGED calls
  /\ RoomChanges(0)

(***************************************************************************)
(* The launcher                                                            *)
(***************************************************************************)
LauncherShown == launcher /\ session = NoGame /\ partyPeers # {}

LauncherState ==
  IF provisioning \/ (party = 0 /\ ~provisionFailed) THEN "loading"
  ELSE IF provisionFailed THEN "error" ELSE listState

OpenLauncher ==
  /\ room # 0
  /\ launcher' = TRUE /\ provisionFailed' = FALSE
  /\ IF party # 0 \/ partyPeers = {} THEN UNCHANGED <<provisioning, creating>>
     ELSE provisioning' = TRUE /\ creating' = creating \cup {room}
  /\ UNCHANGED <<room, calls, partyPeers, party, invite, joinGame, invited, sentTo, groupRoom, games,
                 gameList, listState, session, busy, loading, opening, parting, invites, strayed>>

CloseLauncher ==
  /\ launcher /\ launcher' = FALSE
  /\ UNCHANGED <<room, calls, partyPeers, party, invite, provisioning, provisionFailed, joinGame,
                 invited, sentTo, groupRoom, games, gameList, listState, session, busy, creating, loading, opening, parting, invites, strayed>>

\* retryLauncher after a failed provision is openLauncher again
RetryList ==
  /\ LauncherShown /\ LauncherState = "error" /\ ~provisionFailed
  /\ Reread(party)
  /\ UNCHANGED <<room, calls, partyPeers, party, launcher, invite, provisioning, provisionFailed,
                 joinGame, invited, sentTo, groupRoom, games, gameList, session, busy, creating, opening, parting, invites, strayed>>

\* groupsApi.create answers: the group is adopted only in the call it was made for
faulty_Provisioned(r) ==
  /\ r \in creating /\ creating' = creating \ {r}
  /\ Len(groupRoom) < MaxGroups /\ groupRoom' = Append(groupRoom, r)
  /\ GroupBecomes(Len(groupRoom) + 1) /\ provisioning' = FALSE
  /\ UNCHANGED <<room, calls, partyPeers, launcher, invite, provisionFailed, joinGame, invited, sentTo,
                 games, busy, opening, parting, invites, strayed>>

Provisioned(r) ==
  /\ r \in creating /\ creating' = creating \ {r}
  /\ Len(groupRoom) < MaxGroups /\ groupRoom' = Append(groupRoom, r)
  /\ IF r = room THEN GroupBecomes(Len(groupRoom) + 1) /\ provisioning' = FALSE
     ELSE UNCHANGED <<party, session, gameList, listState, loading, provisioning>>
  /\ UNCHANGED <<room, calls, partyPeers, launcher, invite, provisionFailed, joinGame, invited, sentTo,
                 games, busy, opening, parting, invites, strayed>>

ProvisionFails(r) ==
  /\ r \in creating /\ creating' = creating \ {r}
  /\ provisionFailed' = (provisionFailed \/ r = room)
  /\ provisioning' = (provisioning /\ r # room)
  /\ UNCHANGED <<room, calls, partyPeers, party, launcher, invite, joinGame, invited, sentTo, groupRoom,
                 games, gameList, listState, session, busy, loading, opening, parting,
                 invites, strayed>>

(***************************************************************************)
(* The list and the session                                                *)
(***************************************************************************)
\* the join effect: an accepted game is joined once the list names it, unless something is under way
AutoJoin(list) ==
  IF joinGame = NoGame \/ joinGame \notin list THEN UNCHANGED <<joinGame, busy, opening>>
  ELSE /\ joinGame' = NoGame
       /\ IF busy THEN UNCHANGED <<busy, opening>>
          ELSE /\ busy' = TRUE
               /\ opening' = opening \cup {[at |-> "join", game |-> joinGame, group |-> games[joinGame].group]}

\* load() answers, for whatever group it was asked for
Loaded(g) ==
  LET list == {i \in 1 .. Len(games) : games[i].group = g /\ games[i].on} IN
  /\ g \in loading /\ loading' = loading \ {g}
  /\ gameList' = list /\ listState' = "ready" /\ AutoJoin(list)
  /\ UNCHANGED <<room, calls, partyPeers, party, launcher, invite, provisioning, provisionFailed,
                 invited, sentTo, groupRoom, games, session, creating, parting, invites, strayed>>

LoadFails(g) ==
  /\ g \in loading /\ loading' = loading \ {g} /\ listState' = "error"
  /\ UNCHANGED <<room, calls, partyPeers, party, launcher, invite, provisioning, provisionFailed,
                 joinGame, invited, sentTo, groupRoom, games, gameList, session, busy, creating, opening, parting, invites, strayed>>

Launch ==
  /\ LauncherShown /\ LauncherState = "ready" /\ ~busy /\ party # 0
  /\ busy' = TRUE
  /\ opening' = opening \cup {[at |-> "launch", game |-> NoGame, group |-> party]}
  /\ UNCHANGED <<room, calls, partyPeers, party, launcher, invite, provisioning, provisionFailed,
                 joinGame, invited, sentTo, groupRoom, games, gameList, listState, session, creating,
                 loading, parting, invites, strayed>>

JoinListed(g) ==
  /\ LauncherShown /\ LauncherState = "ready" /\ ~busy /\ g \in gameList
  /\ busy' = TRUE
  /\ opening' = opening \cup {[at |-> "join", game |-> g, group |-> games[g].group]}
  /\ UNCHANGED <<room, calls, partyPeers, party, launcher, invite, provisioning, provisionFailed,
                 joinGame, invited, sentTo, groupRoom, games, gameList, listState, session, creating,
                 loading, parting, invites, strayed>>

\* a launch answers: the game joins whatever list is shown, its seat is asked for next
Launched(o) ==
  LET g == Len(games) + 1 IN
  /\ o \in opening /\ o.at = "launch" /\ Len(games) < MaxGames
  /\ games' = Append(games, [group |-> o.group, mine |-> TRUE, on |-> TRUE])
  /\ gameList' = gameList \cup {g}
  /\ opening' = (opening \ {o}) \cup {[at |-> "join", game |-> g, group |-> o.group]}
  /\ UNCHANGED <<room, calls, partyPeers, party, launcher, invite, provisioning, provisionFailed,
                 joinGame, invited, sentTo, groupRoom, listState, session, busy, creating,
                 loading, parting, invites, strayed>>

\* the seat is ours: the session opens, in whatever call this is
SessionOpens(o) ==
  /\ o \in opening /\ o.at = "join" /\ opening' = opening \ {o} /\ busy' = FALSE
  /\ session' = o.game
  /\ strayed' = (IF o.group = party THEN strayed ELSE strayed \cup {o.game})
  /\ UNCHANGED games /\ Announces(o.game)
  /\ UNCHANGED <<room, calls, partyPeers, party, launcher, invite, provisioning, provisionFailed,
                 joinGame, groupRoom, gameList, listState, creating, loading, parting, invites>>

OpeningFails(o) ==
  /\ o \in opening /\ opening' = opening \ {o} /\ busy' = FALSE
  /\ UNCHANGED <<room, calls, partyPeers, party, launcher, invite, provisioning, provisionFailed,
                 joinGame, invited, sentTo, groupRoom, games, gameList, listState, session, creating,
                 loading, parting, invites, strayed>>

\* the view closes and the seat stays
CloseSession ==
  /\ session # NoGame /\ session' = NoGame
  /\ UNCHANGED <<room, calls, partyPeers, party, launcher, invite, provisioning, provisionFailed,
                 joinGame, invited, sentTo, groupRoom, games, gameList, listState, busy, creating, loading, opening, parting, invites, strayed>>

\* leaveSession closes the view at once, endSession once the server answered; MaxPartings
\* bounds how many requests of ours are under way
LeaveSession ==
  /\ session # NoGame /\ session' = NoGame
  /\ Cardinality(parting) < MaxPartings
  /\ parting' = parting \cup {[game |-> session, group |-> party, ends |-> FALSE]}
  /\ UNCHANGED <<room, calls, partyPeers, party, launcher, invite, provisioning, provisionFailed,
                 joinGame, invited, sentTo, groupRoom, games, gameList, listState, busy, creating, loading, opening, invites, strayed>>

EndSession ==
  /\ session # NoGame /\ busy' = TRUE
  /\ Cardinality(parting) < MaxPartings
  /\ parting' = parting \cup {[game |-> session, group |-> party, ends |-> TRUE]}
  /\ UNCHANGED <<room, calls, partyPeers, party, launcher, invite, provisioning, provisionFailed,
                 joinGame, invited, sentTo, groupRoom, games, gameList, listState, session, creating, loading, opening, invites, strayed>>

\* they answer or fail: the list of then is read again, and an end closes what is open by now
Parted(p) ==
  /\ p \in parting /\ parting' = parting \ {p}
  /\ IF p.ends
     THEN /\ busy' = FALSE /\ session' = NoGame
          /\ games' \in {games} \cup {[games EXCEPT ![i].on = FALSE] : i \in {p.game} \cap Own}
     ELSE UNCHANGED <<busy, session, games>>
  /\ Reread(p.group)
  /\ UNCHANGED <<room, calls, partyPeers, party, launcher, invite, provisioning, provisionFailed,
                 joinGame, invited, sentTo, groupRoom, gameList, creating, opening,
                 invites, strayed>>

\* activity ended by somebody: an open session of it closes
OnActivityEnded(g) ==
  /\ g \in 1 .. Len(games) /\ games[g].on
  /\ games' = [games EXCEPT ![g].on = FALSE]
  /\ IF party = 0 THEN UNCHANGED <<session, loading, listState>>
     ELSE session' = (IF session = g THEN NoGame ELSE session) /\ Reread(party)
  /\ UNCHANGED <<room, calls, partyPeers, party, launcher, invite, provisioning, provisionFailed,
                 joinGame, invited, sentTo, groupRoom, gameList, busy, creating, opening,
                 parting, invites, strayed>>

(***************************************************************************)
(* Invitations                                                             *)
(***************************************************************************)
\* the peer of some call made a party and a game there; the prompt is for this call only
OnActivityInvited(r) ==
  LET g == Len(games) + 1 IN
  /\ r \in 1 .. calls /\ invites < MaxInvites /\ invites' = invites + 1
  /\ Len(groupRoom) < MaxGroups /\ groupRoom' = Append(groupRoom, r)
  /\ Len(games) < MaxGames
  /\ games' = Append(games, [group |-> Len(groupRoom) + 1, mine |-> FALSE, on |-> TRUE])
  /\ invite' = (IF r = room THEN g ELSE invite)
  /\ UNCHANGED <<room, calls, partyPeers, party, launcher, provisioning, provisionFailed, joinGame,
                 invited, sentTo, gameList, listState, session, busy, creating, loading,
                 opening, parting, strayed>>

AcceptInvite ==
  /\ invite # NoGame /\ session # invite
  /\ invite' = NoGame /\ joinGame' = invite /\ launcher' = TRUE
  /\ GroupBecomes(games[invite].group)
  /\ UNCHANGED <<room, calls, partyPeers, provisioning, provisionFailed, invited, sentTo, groupRoom,
                 games, busy, creating, opening, parting, invites, strayed>>

DeclineInvite ==
  /\ invite # NoGame /\ invite' = NoGame
  /\ UNCHANGED <<room, calls, partyPeers, party, launcher, provisioning, provisionFailed, joinGame,
                 invited, sentTo, groupRoom, games, gameList, listState, session, busy, creating, loading, opening, parting, invites, strayed>>

PartyNext ==
  \/ CallStarts \/ CallEnds
  \/ OpenLauncher \/ CloseLauncher \/ RetryList
  \/ \E r \in 1 .. MaxCalls : Provisioned(r) \/ ProvisionFails(r) \/ OnActivityInvited(r)
  \/ \E g \in 1 .. MaxGroups : Loaded(g) \/ LoadFails(g)
  \/ Launch \/ CloseSession \/ LeaveSession \/ EndSession
  \/ \E o \in opening : Launched(o) \/ SessionOpens(o) \/ OpeningFails(o)
  \/ \E p \in parting : Parted(p)
  \/ \E g \in 1 .. MaxGames : JoinListed(g) \/ OnActivityEnded(g)
  \/ AcceptInvite \/ DeclineInvite

PartySpec == PartyInit /\ [][PartyNext]_partyVars

(***************************************************************************)
(* Properties                                                              *)
(***************************************************************************)
\* "never adopt a party group for a room we already left" (useCallParty.ts:148): the party
\* belongs to the call on the screen, and a game is open, and announced, in its own call
\* only, unless its seat was answered in a later one, which nothing compares, or it was open
\* while the room changed without a hang-up between, which announces it in the new room
\* (useMatchSession.ts:442, useCallParty.ts:106-117, 170-176).
PartyOfThisCall ==
  /\ party # 0 => groupRoom[party] = room
  /\ session # NoGame /\ session \notin strayed => games[session].group = party
  /\ \A g \in 1 .. Len(games) : g \notin strayed => sentTo[g] \subseteq {groupRoom[games[g].group]}
=============================================================================
