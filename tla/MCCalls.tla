------------------------------- MODULE MCCalls -------------------------------
(***************************************************************************)
(* The connections of a call for TLC: a 1:1 call, a group mesh, the page   *)
(* with its match socket and the bridge to an embedded game.  A scene      *)
(* explores one of them from its initial states; the others stand still,   *)
(* so that one search covers the four.                                     *)
(***************************************************************************)
EXTENDS SoloCall, MeshCall, MatchSession, ActivityBridge

VARIABLE scene

callsVars == <<scene, soloVars, meshVars, sessionVars, bridgeVars>>

CallsInit ==
  /\ scene \in {"solo", "mesh", "session", "bridge"}
  /\ SoloInit /\ MeshInit /\ SessionInit /\ BridgeInit
  /\ scene # "solo" => \A e \in End : stream[e]
  /\ scene # "mesh" => group = Members

Solo    == scene = "solo" /\ UNCHANGED <<scene, meshVars, sessionVars, bridgeVars>>
Mesh    == scene = "mesh" /\ UNCHANGED <<scene, soloVars, sessionVars, bridgeVars>>
Session == scene = "session" /\ UNCHANGED <<scene, soloVars, meshVars, bridgeVars>>
Bridge  == scene = "bridge" /\ UNCHANGED <<scene, soloVars, meshVars, sessionVars>>

\* Two bounds: retry is pressed in a call that is not just being set up, and of three
\* members it is the second, which offers to one and answers the other, that leaves.
SetUp(e) == call[e] = "in" /\ creates[e] = 1 /\ tasks[e] = {}
RetryBound == restarts' # restarts => \A e \in End : SetUp(e)
LeaverBound ==
  group = {1, 2, 3} => \A e \in group : roomSeat'[e] = "left" => roomSeat'[2] = "left"

CallsNext ==
  \/ Solo /\ SoloNext /\ RetryBound
  \/ Mesh /\ MeshNext /\ LeaverBound
  \/ Session /\ SessionNext
  \/ Bridge /\ BridgeNext

\* Promises settle, messages and timers arrive: something that is under way goes on.
Progress ==
  \/ Solo /\ \E e \in End : Promises(e) \/ Events(e)
  \/ Mesh /\ \E e \in group : MeshPromises(e) \/ MeshEvents(e)
  \/ Session /\ (Page \/ Network)
  \/ Bridge /\ BridgeSteps

CallsSpec == CallsInit /\ [][CallsNext]_callsVars /\ WF_callsVars(Progress)

-----------------------------------------------------------------------------
\* Every variable of the four modules keeps its type.
CallsTypeOK == SoloTypeOK /\ MeshTypeOK /\ SessionTypeOK /\ BridgeTypeOK

\* No connection outlives its place: whatever the page no longer refers to is
\* closed, and an end that has left publishes its camera to nobody, in a 1:1 call
\* and in a mesh, save for the overlaps the parts name.
NoConnectionLeaks ==
  /\ OrphansOnlyAfterOverlap /\ CameraReleasedAfterCall
  /\ NoMeshOrphans /\ MeshReleasedAfterStop

\* However closing, reconnecting, joining and signing in interleave, one socket is
\* alive, it is the current one and the present identity opened it.
SocketsAgree == OneLiveSocket /\ SocketHasIdentity

\* What the page shows of its search and of an invitation is what server and timer
\* know: a search shown stands in a queue or group, and the timer that declines is
\* that of the invitation shown.
SessionIsTrue == SearchIsReal /\ DeclineTimerMatchesInvite

\* What the user asked of the session is what happens: a search that was stopped
\* leaves the room it still gets, and a group that searches keeps its call.
SessionObeys == StrayRoomLeft /\ SearchingGroupKeepsCall

\* MatchedEndsConnect of SoloCall, in the scene where its steps are taken: two
\* matched ends that stay get connected.
SoloConnects == (scene = "solo" /\ BothWait) ~> Connected

\* MembersConnect of MeshCall, in the scene where its steps are taken: the members
\* of a group that stay get connected to each other.
MeshConnects == []<>(scene = "mesh" => MeshStands)

\* The embedded game gets its launch code in the end, no code reaches the server
\* twice, and the roster shown settles on the server's.
GameIsServed ==
  /\ []CodesSpentOnce /\ []RosterArrives
  /\ (scene = "bridge" /\ ~gotInit) ~> gotInit
=============================================================================
