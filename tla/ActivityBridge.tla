--------------------------- MODULE ActivityBridge ---------------------------
(***************************************************************************)
(* The bridge between the page and a game in its frame: ActivitySession    *)
(* and activities/client.ts.  The frame announces itself until it is       *)
(* answered; an answer carries a launch code, which the server takes once. *)
(* Messages reach a document in the order they were posted, and are lost   *)
(* when nobody listens yet or the document is gone.                        *)
(***************************************************************************)
EXTENDS Naturals, Sequences

CONSTANTS MaxReadies,   \* announcements of one document before it waits for the answer
          MaxFrames,    \* reloads of the frame
          MaxSeatings,  \* rosters the server comes to have
          MaxRefusals   \* joins that fail

ASSUME BridgeBounds ==
  {MaxReadies, MaxFrames, MaxSeatings, MaxRefusals} \subseteq Nat /\ MaxSeatings # 0

VARIABLES
  doc,        \* documents the frame has loaded, the last one lives
  booted,     \* its listener is attached
  gotInit, gameRoster, announced,
  toGame,     \* what was posted to it
  hosting,    \* the host's listeners are attached
  hostInited, \* inited
  readies,    \* announcements on their way to the host
  joining,    \* joins for a fresh code under way
  codes,      \* codes minted; the session came with the first
  exchanged,  \* codes handed to the server, in order
  hostRoster, \* namesRef; rosters are numbered, 0 is the empty one
  seating,    \* the server's roster
  show,       \* show(): "none", "asked", "done", or the roster the server read
  pushed,     \* presence messages on their way
  refusals,
  rosterLost  \* show() failed, or answered after a newer push (history)

gameSide == <<doc, booted, gotInit, gameRoster, announced, exchanged>>
hostSide == <<hosting, hostInited, hostRoster>>
bridgeVars == <<gameSide, hostSide, toGame, readies, joining, codes, seating, show, pushed,
                refusals, rosterLost>>

Roster == 0 .. MaxSeatings

BridgeTypeOK ==
  /\ doc \in 1 .. MaxFrames + 1
  /\ {booted, hosting, hostInited, gotInit, rosterLost} \subseteq BOOLEAN
  /\ {gameRoster, hostRoster, seating} \subseteq Roster
  /\ \A i \in DOMAIN toGame : toGame[i].what \in {"init", "presence"}
  /\ show.at \in {"none", "asked", "read", "done"} /\ show.roster \in Roster

BridgeInit ==
  /\ doc = 1 /\ booted = FALSE /\ gotInit = FALSE /\ gameRoster = 0 /\ announced = 0
  /\ toGame = <<>> /\ hosting = FALSE /\ hostInited = FALSE /\ readies = 0 /\ joining = 0
  /\ codes = 1 /\ exchanged = <<>> /\ hostRoster = 0 /\ seating = 1
  /\ show = [at |-> "none", roster |-> 0] /\ pushed = <<>> /\ refusals = 0 /\ rosterLost = FALSE

Posts(ms) == toGame' = IF booted THEN toGame \o ms ELSE toGame

(***************************************************************************)
(* The game                                                                *)
(***************************************************************************)
\* ready(): at once, then every 400 ms until an init came.  Nobody hears it before the
\* host listens.
Unanswered == readies + joining = 0 /\ \A i \in DOMAIN toGame : toGame[i].what # "init"

faulty_Announce ==
  /\ ~gotInit /\ ~booted
  /\ booted' = TRUE
  /\ announced' = IF announced < MaxReadies THEN announced + 1 ELSE announced
  /\ readies' = IF hosting THEN readies + 1 ELSE readies
  /\ UNCHANGED <<doc, gotInit, gameRoster, exchanged, hostSide, toGame, joining, codes, seating,
                 show, pushed, refusals, rosterLost>>

Announce ==
  /\ ~gotInit /\ (announced < MaxReadies \/ Unanswered)
  /\ booted' = TRUE
  /\ announced' = IF announced < MaxReadies THEN announced + 1 ELSE announced
  /\ readies' = IF hosting THEN readies + 1 ELSE readies
  /\ UNCHANGED <<doc, gotInit, gameRoster, exchanged, hostSide, toGame, joining, codes, seating,
                 show, pushed, refusals, rosterLost>>

\* onInit: the first one counts, its code is exchanged; onPresence
GameReceives ==
  LET m == Head(toGame) IN
  /\ toGame # <<>> /\ toGame' = Tail(toGame)
  /\ \/ m.what = "init" /\ ~gotInit /\ gotInit' = TRUE
        /\ exchanged' = Append(exchanged, m.of) /\ UNCHANGED gameRoster
     \/ m.what = "init" /\ gotInit /\ UNCHANGED <<gotInit, exchanged, gameRoster>>
     \/ m.what = "presence" /\ gameRoster' = m.of /\ UNCHANGED <<gotInit, exchanged>>
  /\ UNCHANGED <<doc, booted, announced, hostSide, readies, joining, codes, seating, show, pushed,
                 refusals, rosterLost>>

\* the frame is loaded again: a new document, a spent code
ReloadFrame ==
  /\ doc <= MaxFrames /\ doc' = doc + 1
  /\ booted' = FALSE /\ gotInit' = FALSE /\ announced' = 0 /\ gameRoster' = 0 /\ toGame' = <<>>
  /\ UNCHANGED <<exchanged, hostSide, readies, joining, codes, seating, show, pushed, refusals,
                 rosterLost>>

(***************************************************************************)
(* The host                                                                *)
(***************************************************************************)
\* the effects of the modal run after its paint: show() is asked, the bridge listens
Attach ==
  /\ ~hosting /\ hosting' = TRUE
  /\ show' = [show EXCEPT !.at = "asked"]
  /\ UNCHANGED <<gameSide, hostInited, hostRoster, toGame, readies, joining, codes, seating,
                 pushed, refusals, rosterLost>>

Answer(code) == <<[what |-> "init", of |-> code], [what |-> "presence", of |-> hostRoster]>>

\* the first ready takes the session's code, every later one joins again for a fresh one
OnReady ==
  /\ readies > 0 /\ readies' = readies - 1
  /\ IF ~hostInited
     THEN hostInited' = TRUE /\ Posts(Answer(1)) /\ UNCHANGED joining
     ELSE joining' = joining + 1 /\ UNCHANGED <<hostInited, toGame>>
  /\ UNCHANGED <<gameSide, hosting, hostRoster, codes, seating, show, pushed, refusals, rosterLost>>

\* outstanding codes are never revoked early
JoinedAgain ==
  /\ joining > 0 /\ joining' = joining - 1
  /\ codes' = codes + 1 /\ Posts(Answer(codes + 1))
  /\ UNCHANGED <<gameSide, hostSide, readies, seating, show, pushed, refusals, rosterLost>>

JoinRefused ==
  /\ joining > 0 /\ joining' = joining - 1
  /\ refusals < MaxRefusals /\ refusals' = refusals + 1
  /\ UNCHANGED <<gameSide, hostSide, toGame, readies, codes, seating, show, pushed, rosterLost>>

\* setRoster and pushPresence
HostRosterIs(v) == hostRoster' = v /\ Posts(<<[what |-> "presence", of |-> v]>>)

Shown ==
  /\ show.at = "read" /\ show' = [show EXCEPT !.at = "done"]
  /\ HostRosterIs(show.roster)
  /\ rosterLost' = (rosterLost \/ hostRoster > show.roster)
  /\ UNCHANGED <<gameSide, hosting, hostInited, readies, joining, codes, seating, pushed, refusals>>

ShowFails ==
  /\ show.at = "asked" /\ show' = [show EXCEPT !.at = "done"]
  /\ rosterLost' = TRUE
  /\ UNCHANGED <<gameSide, hostSide, toGame, readies, joining, codes, seating, pushed, refusals>>

OnPresence ==
  /\ pushed # <<>> /\ pushed' = Tail(pushed)
  /\ HostRosterIs(Head(pushed))
  /\ UNCHANGED <<gameSide, hosting, hostInited, readies, joining, codes, seating, show, refusals,
                 rosterLost>>

(***************************************************************************)
(* The server                                                              *)
(***************************************************************************)
ShowRead ==
  /\ show.at = "asked" /\ show' = [at |-> "read", roster |-> seating]
  /\ UNCHANGED <<gameSide, hostSide, toGame, readies, joining, codes, seating, pushed, refusals,
                 rosterLost>>

\* somebody takes or leaves a seat; those who listen are told
Seats ==
  /\ seating < MaxSeatings /\ seating' = seating + 1
  /\ pushed' = IF hosting THEN Append(pushed, seating + 1) ELSE pushed
  /\ UNCHANGED <<gameSide, hostSide, toGame, readies, joining, codes, show, refusals, rosterLost>>

BridgeSteps == \/ Announce \/ GameReceives \/ Attach \/ OnReady \/ JoinedAgain \/ Shown
               \/ OnPresence \/ ShowRead
BridgeNext == BridgeSteps \/ ReloadFrame \/ JoinRefused \/ ShowFails \/ Seats

\* timers, effects, messages and requests go on
BridgeFairness == WF_bridgeVars(BridgeSteps)
BridgeSpec == BridgeInit /\ [][BridgeNext]_bridgeVars /\ BridgeFairness

(***************************************************************************)
(* Properties                                                              *)
(***************************************************************************)
\* Whatever the order in which frame and host come up, and however often the frame is
\* loaded again, the game gets its launch code in the end (TicTacToe.tsx:50-58).
GameStarts == ~gotInit ~> gotInit

\* No code is handed to the server twice: a document that loads again gets a fresh one
\* (ActivitySession.tsx:86-107).
CodesSpentOnce == \A i, j \in DOMAIN exchanged : exchanged[i] = exchanged[j] => i = j

\* When all has arrived a started game shows the roster of its host, and that is the
\* server's, unless show() failed or was overtaken by a push (ActivitySession.tsx:66-78).
RosterArrives ==
  gotInit /\ toGame = <<>> /\ pushed = <<>> /\ show.at = "done"
    => gameRoster = hostRoster /\ (hostRoster = seating \/ rosterLost)
=============================================================================
