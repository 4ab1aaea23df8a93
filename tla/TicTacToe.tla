----------------------------- MODULE TicTacToe -----------------------------
(***************************************************************************)
(* The reference activity: two players, each with a board of its own, who  *)
(* validate every move themselves; the host's socket relays what a player  *)
(* publishes to every player, the sender included, in one order.           *)
(***************************************************************************)
EXTENDS Naturals, Sequences, FiniteSets

CONSTANTS Opening,    \* how many moves the players have made when we start looking
          MaxMoves, MaxResets, MaxGameReloads

ASSUME GameBounds == Opening \in 0 .. 6 /\ {MaxMoves, MaxResets, MaxGameReloads} \subseteq Nat

VARIABLES
  seated,    \* those whose frame is running
  board,     \* per player
  relayed,   \* per player: updates on their way to it
  missed,    \* an update went out, or was lost, while a frame was not there to see it (history)
  moves, resets, gameReloads

gameVars == <<seated, board, relayed, missed, moves, resets, gameReloads>>

Player == {"ann", "bob"}
Cells == 0 .. 8
Empty == [c \in Cells |-> "-"]
Lines == {{0, 1, 2}, {3, 4, 5}, {6, 7, 8}, {0, 3, 6}, {1, 4, 7}, {2, 5, 8}, {0, 4, 8}, {2, 4, 6}}

WinnerOf(b) ==
  LET won(m) == \E l \in Lines : \A c \in l : b[c] = m
  IN IF won("X") THEN "X" ELSE IF won("O") THEN "O"
     ELSE IF \A c \in Cells : b[c] # "-" THEN "draw" ELSE "none"

\* applyMove answers null: the caller drops the move
Legal(b, c) == b[c] = "-" /\ WinnerOf(b) = "none"
ApplyMove(b, c, m) == [b EXCEPT ![c] = m]

TurnOf(b) ==
  LET marks(m) == Cardinality({c \in Cells : b[c] = m})
  IN IF marks("X") <= marks("O") THEN "X" ELSE "O"

\* the first seat plays X; nobody gives a seat up while they play
MarkOf(p) == IF p = "ann" THEN "X" ELSE "O"

GameTypeOK ==
  /\ seated \subseteq Player /\ "ann" \in seated /\ missed \in BOOLEAN
  /\ board \in [Player -> [Cells -> {"-", "X", "O"}]]
  /\ \A p \in Player : \A i \in DOMAIN relayed[p] :
       relayed[p][i].by \in Player /\ relayed[p][i].what \in Cells \cup {9}
  /\ moves \in 0 .. MaxMoves /\ resets \in 0 .. MaxResets /\ gameReloads \in 0 .. MaxGameReloads

\* either the moves so far went along the board, in a game in which nobody has won yet, or
\* the first seat has just been taken and the second one is to come
GameInit ==
  /\ seated \in {Player, {"ann"}}
  /\ board = [p \in Player |-> [c \in Cells |->
       IF c >= Opening \/ seated # Player THEN "-" ELSE IF c % 2 = 0 THEN "X" ELSE "O"]]
  /\ relayed = [p \in Player |-> <<>>]
  /\ missed = FALSE /\ moves = 0 /\ resets = 0 /\ gameReloads = 0

\* an update, a cell or 9 for a reset, goes to the frames there are: none is sent again
Broadcast(p, what) ==
  /\ relayed' = [q \in Player |-> IF q \in seated THEN Append(relayed[q], [by |-> p, what |-> what])
                                 ELSE relayed[q]]
  /\ missed' = (missed \/ seated # Player)

\* play(index): also while the status says that the other player is waited for
faulty_Play(p) ==
  /\ p \in seated /\ WinnerOf(board[p]) = "none"
  /\ \E c \in Cells :
       /\ Legal(board[p], c)
       /\ board' = [board EXCEPT ![p] = ApplyMove(@, c, MarkOf(p))]
       /\ Broadcast(p, c)
  /\ moves < MaxMoves /\ moves' = moves + 1
  /\ UNCHANGED <<seated, resets, gameReloads>>

Play(p) ==
  /\ p \in seated /\ WinnerOf(board[p]) = "none" /\ TurnOf(board[p]) = MarkOf(p)
  /\ \E c \in Cells :
       /\ Legal(board[p], c)
       /\ board' = [board EXCEPT ![p] = ApplyMove(@, c, MarkOf(p))]
       /\ Broadcast(p, c)
  /\ moves < MaxMoves /\ moves' = moves + 1
  /\ UNCHANGED <<seated, resets, gameReloads>>

PlayAgain(p) ==
  /\ p \in seated /\ WinnerOf(board[p]) # "none"
  /\ resets < MaxResets /\ resets' = resets + 1
  /\ board' = [board EXCEPT ![p] = Empty]
  /\ Broadcast(p, 9)
  /\ UNCHANGED <<seated, moves, gameReloads>>

\* onState: one's own moves are on the board already; a reset counts on a finished board only
Receive(p) ==
  LET u == Head(relayed[p]) IN
  /\ relayed[p] # <<>>
  /\ relayed' = [relayed EXCEPT ![p] = Tail(@)]
  /\ board' = [board EXCEPT ![p] =
       IF u.what = 9 THEN IF WinnerOf(@) # "none" THEN Empty ELSE @
       ELSE IF u.by # p /\ Legal(@, u.what) THEN ApplyMove(@, u.what, MarkOf(u.by)) ELSE @]
  /\ UNCHANGED <<seated, missed, moves, resets, gameReloads>>

\* the frame is loaded again: an empty board, what was on its way to the old document is lost
ReloadGame(p) ==
  /\ p \in seated /\ gameReloads < MaxGameReloads /\ gameReloads' = gameReloads + 1 /\ missed' = TRUE
  /\ board' = [board EXCEPT ![p] = Empty]
  /\ relayed' = [relayed EXCEPT ![p] = <<>>]
  /\ UNCHANGED <<seated, moves, resets>>

\* the second player opens the game: its board is a new one
JoinGame ==
  /\ seated # Player /\ seated' = Player
  /\ board' = [board EXCEPT !["bob"] = Empty]
  /\ UNCHANGED <<relayed, missed, moves, resets, gameReloads>>

GameNext ==
  \/ JoinGame
  \/ \E p \in Player : Play(p) \/ PlayAgain(p) \/ Receive(p) \/ ReloadGame(p)

GameSpec == GameInit /\ [][GameNext]_gameVars

(***************************************************************************)
(* Properties                                                              *)
(***************************************************************************)
\* "both boards converge without a server-side referee" (logic.ts:4): when nothing is
\* under way the players see the same board, however moves and rematches crossed, unless a
\* frame was loaded again or the first player moved alone: no update is sent a second time.
BoardsConverge ==
  ~missed /\ (\A p \in Player : relayed[p] = <<>>) => \A p, q \in Player : board[p] = board[q]
=============================================================================
