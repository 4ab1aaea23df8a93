------------------------------- MODULE Seats -------------------------------
(***************************************************************************)
(* The games of a group on the server (domain/activities.rs): launching,   *)
(* joining, leaving and ending them, and the single-use codes their frames *)
(* exchange for tokens.  No operation is a transaction: each is a sequence *)
(* of statements on the shared connection, and others run in between.      *)
(***************************************************************************)
EXTENDS Naturals, Sequences, FiniteSets

CONSTANTS Players, Seated0,  \* the members of the group, and who sits in the first game
          MaxPlayers, MaxActive, MaxCalls, MaxGamesEver

ASSUME SeatBounds ==
  /\ IsFiniteSet(Players)
  /\ Seated0 \subseteq Players /\ Seated0 # {} /\ Cardinality(Seated0) <= MaxPlayers
  /\ {MaxPlayers, MaxActive, MaxGamesEver} \subseteq Nat \ {0} /\ MaxCalls \in Nat

VARIABLES
  status,     \* per game, in the order of their rows: "active" or "ended"
  seats,      \* per game: its participants
  codes, tokens, \* activity_launch_codes and activity_tokens; who has both, and for which game
  calls,      \* the requests so far and how far they are
  lastRow,    \* last_insert_rowid of the connection, in whatever table; 0 is no game's
  crowded,    \* games that were over their limit while somebody counted (history)
  astray,     \* games launched under another's rowid, or joined before their launcher sat (history)
  twice       \* codes read unused by two exchanges (history)

seatsVars == <<status, seats, codes, tokens, calls, lastRow, crowded, astray, twice>>

Games == DOMAIN status
Active == {g \in Games : status[g] = "active"}
Ops == {"launch", "join", "exchange", "leave", "end"}

\* what is left of a request that was answered
Answer == [op |-> "none", who |-> 0, game |-> 1, code |-> 0, at |-> "done"]

SeatsTypeOK ==
  /\ \A g \in Games : status[g] \in {"active", "ended"} /\ seats[g] \subseteq Players
  /\ DOMAIN seats = Games
  /\ \A c \in codes : c.game \in Games /\ c.who \in Players /\ c.used \in BOOLEAN
  /\ \A t \in tokens : t.game \in Games /\ t.who \in Players /\ t.call \in DOMAIN calls
  /\ \A i \in DOMAIN calls : calls[i] = Answer \/ (calls[i].op \in Ops /\ calls[i].who \in Players)
  /\ lastRow \in 0 .. Len(status) /\ crowded \cup astray \subseteq Games

\* a game is on; the codes of its players were exchanged
SeatsInit ==
  /\ status = <<"active">> /\ seats = <<Seated0>>
  /\ codes = {} /\ tokens = {} /\ calls = <<>> /\ lastRow = 1
  /\ crowded = {} /\ astray = {} /\ twice = {}

Stage(i, op, at) == i \in DOMAIN calls /\ calls[i].op = op /\ calls[i].at = at
GoTo(i, at) == calls' = [calls EXCEPT ![i] = IF at = "done" THEN Answer ELSE [@ EXCEPT !.at = at]]
Plays(i) == seats[calls[i].game]

\* A request passes its reads: the game is active, the caller is of the group.  Leaving
\* asks for neither; the players are admins of the group, who may end its games.
Call(op, who, g, code) ==
  /\ Len(calls) < MaxCalls
  /\ CASE op = "launch" -> Cardinality(Active) < MaxActive /\ g = 1
       [] op = "join"   -> g \in Active
       [] op = "exchange" -> /\ g \in Active
                             /\ \E c \in codes : c.id = code /\ ~c.used /\ c.game = g /\ c.who = who
       [] op \in {"leave", "end"} -> TRUE
  /\ op # "exchange" => code = 0
  /\ calls' = Append(calls, [op |-> op, who |-> who, game |-> g, code |-> code, at |-> "first"])
  /\ twice' = twice \cup
       (IF op = "exchange" /\ \E i \in DOMAIN calls : calls[i].code = code /\ calls[i].at = "first" THEN {code} ELSE {})
  /\ UNCHANGED <<status, seats, codes, tokens, lastRow, crowded, astray>>

-----------------------------------------------------------------------------
\* launch_instance: INSERT, last_insert_rowid, the launcher's seat
LaunchRow(i) ==
  /\ Stage(i, "launch", "first") /\ Len(status) < MaxGamesEver
  /\ status' = Append(status, "active") /\ seats' = Append(seats, {})
  /\ lastRow' = Len(status) + 1
  /\ calls' = [calls EXCEPT ![i].at = "rowid", ![i].game = Len(status) + 1]
  /\ UNCHANGED <<codes, tokens, crowded, astray, twice>>

\* Any other handler inserts a row somewhere on the shared connection.
InsertElsewhere ==
  /\ \E i \in DOMAIN calls : Stage(i, "launch", "rowid")
  /\ lastRow' \in 0 .. Len(status)
  /\ UNCHANGED <<status, seats, codes, tokens, calls, crowded, astray, twice>>

\* without a game under the id the launch is answered as not found
LaunchId(i) ==
  /\ Stage(i, "launch", "rowid")
  /\ calls' = [calls EXCEPT ![i] = IF lastRow = 0 THEN Answer ELSE [@ EXCEPT !.at = "seat", !.game = lastRow]]
  /\ astray' = IF lastRow = calls[i].game THEN astray
               ELSE astray \cup ({lastRow, calls[i].game} \ {0})
  /\ UNCHANGED <<status, seats, codes, tokens, lastRow, crowded, twice>>

LaunchSeat(i) ==
  /\ Stage(i, "launch", "seat") /\ GoTo(i, "done")
  /\ seats' = [seats EXCEPT ![calls[i].game] = @ \cup {calls[i].who}]
  /\ astray' = astray \cup (IF Plays(i) = {} THEN {} ELSE {calls[i].game})
  /\ UNCHANGED <<status, codes, tokens, lastRow, crowded, twice>>

\* join_instance: the seat is taken first, then counted, and given back if over the limit
JoinSeat(i) ==
  /\ Stage(i, "join", "first") /\ GoTo(i, "count")
  /\ seats' = [seats EXCEPT ![calls[i].game] = @ \cup {calls[i].who}]
  /\ UNCHANGED <<status, codes, tokens, lastRow, crowded, astray, twice>>

faulty_Overfull(i) == Cardinality(Plays(i) \ {calls[i].who}) > MaxPlayers
Overfull(i) == Cardinality(Plays(i)) > MaxPlayers
JoinCount(i) ==
  LET full == Overfull(i)
  IN /\ Stage(i, "join", "count")
     /\ GoTo(i, IF full THEN "back" ELSE "code")
     /\ crowded' = crowded \cup (IF full THEN {calls[i].game} ELSE {})
     /\ UNCHANGED <<status, seats, codes, tokens, lastRow, astray, twice>>

JoinBack(i) ==
  /\ Stage(i, "join", "back") /\ GoTo(i, "done")
  /\ seats' = [seats EXCEPT ![calls[i].game] = @ \ {calls[i].who}]
  /\ UNCHANGED <<status, codes, tokens, lastRow, crowded, astray, twice>>

JoinCode(i) ==
  /\ Stage(i, "join", "code") /\ GoTo(i, "done")
  /\ codes' = codes \cup {[id |-> i, game |-> calls[i].game, who |-> calls[i].who, used |-> FALSE]}
  /\ UNCHANGED <<status, seats, tokens, lastRow, crowded, astray, twice>>

\* exchange_code: the code was read unused; UPDATE, then INSERT the token
ExchangeMark(i) ==
  /\ Stage(i, "exchange", "first") /\ GoTo(i, "token")
  /\ codes' = {IF c.id = calls[i].code THEN [c EXCEPT !.used = TRUE] ELSE c : c \in codes}
  /\ UNCHANGED <<status, seats, tokens, lastRow, crowded, astray, twice>>

ExchangeToken(i) ==
  /\ Stage(i, "exchange", "token") /\ GoTo(i, "done")
  /\ tokens' = tokens \cup {[call |-> i, game |-> calls[i].game, who |-> calls[i].who, code |-> calls[i].code]}
  /\ UNCHANGED <<status, seats, codes, lastRow, crowded, astray, twice>>

\* leave_instance: the leaver's tokens and codes, the seat, the count, the end
Drop(i, all) == tokens' = {t \in tokens : t.game # calls[i].game \/ (~all /\ t.who # calls[i].who)}
DropCodes(i, all) == codes' = {c \in codes : c.game # calls[i].game \/ (~all /\ c.who # calls[i].who)}

LeaveTokens(i) ==
  /\ Stage(i, "leave", "first") /\ GoTo(i, "seat")
  /\ Drop(i, FALSE) /\ DropCodes(i, FALSE)
  /\ UNCHANGED <<status, seats, lastRow, crowded, astray, twice>>

LeaveSeat(i) ==
  /\ Stage(i, "leave", "seat") /\ GoTo(i, "count")
  /\ seats' = [seats EXCEPT ![calls[i].game] = @ \ {calls[i].who}]
  /\ UNCHANGED <<status, codes, tokens, lastRow, crowded, astray, twice>>

LeaveCount(i) ==
  /\ Stage(i, "leave", "count") /\ GoTo(i, IF Plays(i) = {} THEN "row" ELSE "done")
  /\ UNCHANGED <<status, seats, codes, tokens, lastRow, crowded, astray, twice>>

\* end_instance_row, for the last leaver and for end_instance: the row, then what is left
EndRow(i) ==
  /\ Stage(i, "leave", "row") \/ Stage(i, "end", "first")
  /\ GoTo(i, "sweep") /\ status' = [status EXCEPT ![calls[i].game] = "ended"]
  /\ UNCHANGED <<seats, codes, tokens, lastRow, crowded, astray, twice>>

EndSweep(i) ==
  /\ Stage(i, "leave", "sweep") \/ Stage(i, "end", "sweep")
  /\ GoTo(i, "done") /\ Drop(i, TRUE) /\ DropCodes(i, TRUE)
  /\ UNCHANGED <<status, seats, lastRow, crowded, astray, twice>>

SeatStep(i) ==
  \/ LaunchRow(i) \/ LaunchId(i) \/ LaunchSeat(i)
  \/ JoinSeat(i) \/ JoinCount(i) \/ JoinBack(i) \/ JoinCode(i)
  \/ ExchangeMark(i) \/ ExchangeToken(i)
  \/ LeaveTokens(i) \/ LeaveSeat(i) \/ LeaveCount(i) \/ EndRow(i) \/ EndSweep(i)

SeatsNext ==
  \/ \E op \in Ops, who \in Players, g \in Games, code \in 0 .. Len(calls) : Call(op, who, g, code)
  \/ \E i \in DOMAIN calls : SeatStep(i)
  \/ InsertElsewhere

-----------------------------------------------------------------------------
Answered == \A i \in DOMAIN calls : calls[i].at = "done"

\* Once requests are answered no game has more players than it seats, in whatever order
\* they took seats, were counted and gave them back (activities.rs:251-269), save when a
\* launcher, who is not counted, was seated among others (activities.rs:198-201).
NotOverfull == Answered => \A g \in Games \ astray : Cardinality(seats[g]) <= MaxPlayers

\* A game that is on has somebody in it, so somebody can leave it and end it, save when it
\* was crowded or when its launch took another row's id (activities.rs:198, 261, 485).
PlayedOrEnded == Answered => \A g \in Active \ (crowded \cup astray) : seats[g] # {}

\* "The code is single-use and bound to its instance" (activities.rs:311): no two tokens
\* were bought with one code, save by two exchanges that both read it unused.
CodesBuyOneToken ==
  \A s, t \in tokens : s.code = t.code => s = t \/ s.code \in twice

SeatsAreTrue == NotOverfull /\ PlayedOrEnded /\ CodesBuyOneToken
=============================================================================
