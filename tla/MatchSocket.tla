---------------------------- MODULE MatchSocket ----------------------------
(***************************************************************************)
(* The client's end of the WebSocket: useMatchSocket.  One tab, the        *)
(* sockets it has opened (numbered), its timers, and the identity the page *)
(* is signed in with.  What travels on a socket is a sequence each way;    *)
(* what the messages mean is MatchSession's business.                      *)
(***************************************************************************)
EXTENDS Naturals, Sequences, FiniteSets, SequencesExt

CONSTANT MaxSockets   \* sockets a tab may open

ASSUME SocketBounds == MaxSockets \in Nat \ {0}

VARIABLES
  phase,     \* per socket: "unused", "connecting", "open", "closed"
  cur,       \* socket.current, 0 for null
  heart,     \* heartbeatTimer is set
  reconnect, \* reconnectTimer is set
  listeners, \* per socket: payloads its 'open' listeners will send
  up,        \* per socket: client to server
  down,      \* per socket: server to client
  identity,  \* authUserId: signed in or not
  upgrade,   \* per socket: the identity whose cookies opened it
  seen,      \* authIdentityRef
  unsent     \* a search request was dropped for want of an open socket (history)

socketVars == <<phase, cur, heart, reconnect, listeners, up, down,
                identity, upgrade, seen, unsent>>

Socket == 1 .. MaxSockets
Identity == {"guest", "user"}

SocketTypeOK ==
  /\ phase \in [Socket -> {"unused", "connecting", "open", "closed"}]
  /\ cur \in 0 .. MaxSockets
  /\ heart \in BOOLEAN /\ reconnect \in BOOLEAN
  /\ identity \in Identity /\ seen \in Identity
  /\ upgrade \in [Socket -> Identity]
  /\ unsent \in BOOLEAN
  /\ \A c \in Socket : phase[c] # "open" => up[c] = <<>> /\ down[c] = <<>>

\* the first effect opens a socket
SocketInit ==
  /\ phase = [c \in Socket |-> IF c = 1 THEN "connecting" ELSE "unused"]
  /\ cur = 1
  /\ heart = FALSE /\ reconnect = FALSE
  /\ listeners = [c \in Socket |-> <<>>]
  /\ up = [c \in Socket |-> <<>>]
  /\ down = [c \in Socket |-> <<>>]
  /\ identity = "guest" /\ seen = "guest"
  /\ upgrade = [c \in Socket |-> "guest"]
  /\ unsent = FALSE

Live(c) == c # 0 /\ phase[c] \in {"connecting", "open"}
Open(c) == c # 0 /\ phase[c] = "open"

\* the socket ensureSocket returns: the current one, or the next new one
Ensured == IF Live(cur) THEN cur
           ELSE CHOOSE c \in Socket : phase[c] = "unused" /\ \A d \in Socket :
                                        phase[d] = "unused" => c <= d
CanEnsure == Live(cur) \/ \E c \in Socket : phase[c] = "unused"

\* ensureSocket on (phase, cur, upgrade)
EnsureSocket ==
  /\ CanEnsure
  /\ cur' = Ensured
  /\ phase' = [phase EXCEPT ![Ensured] = IF Live(cur) THEN @ ELSE "connecting"]
  /\ upgrade' = [upgrade EXCEPT ![Ensured] = IF Live(cur) THEN @ ELSE identity]

\* send: dropped unless the current socket is open
Sent(ms) == IF Open(cur) THEN [up EXCEPT ![cur] = @ \o ms] ELSE up

\* join: kept by an 'open' listener of the socket while it connects
JoinSocket ==
  /\ EnsureSocket
  /\ IF Open(Ensured)
     THEN up' = [up EXCEPT ![Ensured] = Append(@, "join")] /\ UNCHANGED listeners
     ELSE listeners' = [listeners EXCEPT ![Ensured] = Append(@, "join")] /\ UNCHANGED up
  /\ UNCHANGED <<heart, reconnect, down, identity, seen, unsent>>

\* next, groupMatchCreate, groupMatchCreateAndInvite and groupMatchJoin: the
\* socket is ensured, and the message is lost while it is not open
EnsureAndSend(m) ==
  /\ EnsureSocket
  /\ up' = Sent(<<m>>)
  /\ unsent' = (unsent \/ ~Open(cur))
  /\ UNCHANGED <<heart, reconnect, listeners, down, identity, seen>>

\* the senders that only send; a lost search request is remembered
JustSend(ms, search) ==
  /\ up' = Sent(ms)
  /\ unsent' = (unsent \/ (search /\ ~Open(cur)))
  /\ UNCHANGED <<phase, cur, heart, reconnect, listeners, down, identity, upgrade, seen>>

\* onopen, then the 'open' listeners in the order they were added
faulty_OnOpen(c) ==
  /\ phase[c] = "connecting"
  /\ phase' = [phase EXCEPT ![c] = "open"]
  /\ heart' = (cur = c \/ heart)
  /\ up' = [up EXCEPT ![c] =
        @ \o (IF cur = c /\ identity = "user" THEN <<"auth">> ELSE <<>>)]
  /\ listeners' = [listeners EXCEPT ![c] = <<>>]
  /\ UNCHANGED <<cur, reconnect, down, identity, upgrade, seen, unsent>>

OnOpen(c) ==
  /\ phase[c] = "connecting"
  /\ phase' = [phase EXCEPT ![c] = "open"]
  /\ heart' = (cur = c \/ heart)
  /\ up' = [up EXCEPT ![c] =
        @ \o (IF cur = c /\ identity = "user" THEN <<"auth">> ELSE <<>>) \o listeners[c]]
  /\ listeners' = [listeners EXCEPT ![c] = <<>>]
  /\ UNCHANGED <<cur, reconnect, down, identity, upgrade, seen, unsent>>

\* the network closes a socket, or refuses it: what was under way is lost.
\* onclose of the current one stops the heartbeat and arms the reconnect timer.
faulty_Closing(c) ==
  /\ phase' = [phase EXCEPT ![c] = "closed"]
  /\ up' = [up EXCEPT ![c] = <<>>]
  /\ listeners' = [listeners EXCEPT ![c] = <<>>]
  /\ UNCHANGED down

Closing(c) ==
  /\ phase' = [phase EXCEPT ![c] = "closed"]
  /\ up' = [up EXCEPT ![c] = <<>>]
  /\ down' = [down EXCEPT ![c] = <<>>]
  /\ listeners' = [listeners EXCEPT ![c] = <<>>]

OnClose(c) ==
  /\ c = cur /\ Live(c)
  /\ Closing(c)
  /\ cur' = 0
  /\ heart' = FALSE
  /\ reconnect' = TRUE
  /\ UNCHANGED <<identity, upgrade, seen, unsent>>

\* three seconds later, if nothing has opened a socket first
Reconnect ==
  /\ reconnect
  /\ reconnect' = FALSE
  /\ EnsureSocket
  /\ UNCHANGED <<heart, listeners, up, down, identity, seen, unsent>>

\* login or logout changes authUserId; its effect runs before the next one
SwitchIdentity ==
  /\ seen = identity
  /\ identity' \in Identity \ {identity}
  /\ UNCHANGED <<phase, cur, heart, reconnect, listeners, up, down, upgrade, seen, unsent>>

\* the effect on authUserId: disposeSocket detaches and closes the current
\* socket, ensureSocket opens another
faulty_ReconnectForAuthChange ==
  /\ identity # seen
  /\ seen' = identity
  /\ EnsureSocket
  /\ UNCHANGED <<heart, reconnect, listeners, up, down, identity, unsent>>

ReconnectForAuthChange ==
  LET next == CHOOSE c \in Socket : phase[c] = "unused" /\ \A d \in Socket :
                                      phase[d] = "unused" => c <= d
      gone(f, v) == IF cur = 0 THEN f ELSE [f EXCEPT ![cur] = v]
  IN /\ identity # seen
     /\ \E c \in Socket : phase[c] = "unused"
     /\ seen' = identity
     /\ heart' = FALSE /\ reconnect' = FALSE
     /\ phase' = [gone(phase, "closed") EXCEPT ![next] = "connecting"]
     /\ cur' = next
     /\ up' = gone(up, <<>>)
     /\ down' = gone(down, <<>>)
     /\ listeners' = gone(listeners, <<>>)
     /\ upgrade' = [upgrade EXCEPT ![next] = identity]
     /\ UNCHANGED <<identity, unsent>>

(***************************************************************************)
(* Properties of the transport                                             *)
(***************************************************************************)
\* However closing, reconnecting, joining and signing in interleave, at most one
\* socket is alive, it is the current one, and the heartbeat beats exactly while
\* it is open: no socket stays open that nothing reads.
OneLiveSocket ==
  /\ \A c \in Socket : Live(c) => c = cur
  /\ heart <=> Open(cur)

\* Once the effect on authUserId has run, what is sent goes out on a socket that
\* the present identity opened: neither a guest's socket serves a signed-in page
\* nor the other way round.
SocketHasIdentity == seen = identity /\ Live(cur) => upgrade[cur] = identity
=============================================================================
