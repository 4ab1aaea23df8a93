------------------------------ MODULE CallsProofs ------------------------------
(***************************************************************************)
(* Proofs about the calls of MCCalls.  Each of its four parts has an       *)
(* inductive invariant over its own variables: SessionInv for the page and *)
(* its match socket, SoloInv for a 1:1 call, MeshInv for a group mesh and  *)
(* BridgeInv for an embedded game.  A step of the composition is a step of *)
(* one part and a stutter of the others, so the four hold together, and    *)
(* the theorems at the end of each section and of the module follow.       *)
(***************************************************************************)
EXTENDS MCCalls, FiniteSetTheorems, WellFoundedInduction, TLAPS

-----------------------------------------------------------------------------
(* Numbers and sequences. *)

LEMMA SmallestNumber ==
    ASSUME NEW T \in SUBSET Nat, T # {}
    PROVE  \E n \in T : \A m \in T : n <= m
<1> DEFINE R == {ss \in Nat \X Nat : ss[1] < ss[2]}
<1>1. IsWellFoundedOn(R, Nat)
  BY NatLessThanWellFounded DEF OpToRel
<1>2. \E n \in T : \A m \in T : ~ (<<m, n>> \in R)
  <2> HIDE DEF R
  <2> QED BY <1>1, WFMin
<1>3. PICK n \in T : \A m \in T : ~ (<<m, n>> \in R)
  BY <1>2
<1>4. ASSUME NEW m \in T PROVE n <= m
  <2>1. m \in Nat /\ n \in Nat
    OBVIOUS
  <2>2. m < n => <<m, n>> \in R
    BY <2>1
  <2>3. ~ (m < n)
    BY <1>3, <2>2
  <2> QED BY <2>1, <2>3
<1> QED BY <1>4

\* What is left when a sequence gives up its head, and what an end adds to it.
LEMMA HeadGone ==
    ASSUME NEW V, NEW q \in Seq(V), q # <<>>
    PROVE  /\ Head(q) \in V /\ Tail(q) \in Seq(V)
           /\ \A k \in DOMAIN q : (k = 1 /\ q[k] = Head(q))
                                  \/ (k # 1 /\ k - 1 \in DOMAIN Tail(q) /\ Tail(q)[k - 1] = q[k])
           /\ \A k \in DOMAIN Tail(q) : k + 1 \in DOMAIN q /\ Tail(q)[k] = q[k + 1]
           /\ 1 \in DOMAIN q /\ q[1] = Head(q)
OBVIOUS

LEMMA MoreSaid ==
    ASSUME NEW V, NEW q \in Seq(V), NEW r \in Seq(V)
    PROVE  /\ q \o r \in Seq(V)
           /\ \A k \in DOMAIN q : k \in DOMAIN (q \o r) /\ (q \o r)[k] = q[k]
           /\ \A k \in DOMAIN r : Len(q) + k \in DOMAIN (q \o r) /\ (q \o r)[Len(q) + k] = r[k]
           /\ \A k \in DOMAIN (q \o r) :
                (k \in DOMAIN q /\ (q \o r)[k] = q[k])
                \/ (k > Len(q) /\ k - Len(q) \in DOMAIN r /\ (q \o r)[k] = r[k - Len(q)])
OBVIOUS

-----------------------------------------------------------------------------
(* The socket. *)

SearchMsg == {"join", "next", "create", "invite", "gjoin", "start"}
LeaveMsg  == {"leave", "gleave"}
UpMsg     == SearchMsg \cup LeaveMsg \cup {"auth", "decline"}
EndMsg    == {"error", "draining", "matched", "group-local", "group-both", "left",
              "left-blocked", "left-invited", "invite-declined"}
DownMsg   == EndMsg \cup {"waiting", "created", "joined", "last-gone", "invited1", "invited2"}

\* One socket at most is alive, it is the current one, the heartbeat is its own,
\* and once the effect on the identity has run the present identity opened it.
SocketCore ==
  /\ phase \in [Socket -> {"unused", "connecting", "open", "closed"}]
  /\ cur \in 0 .. MaxSockets
  /\ heart \in BOOLEAN /\ reconnect \in BOOLEAN
  /\ identity \in Identity /\ seen \in Identity
  /\ upgrade \in [Socket -> Identity]
  /\ unsent \in BOOLEAN
  /\ \A c \in Socket : Live(c) => c = cur
  /\ cur # 0 => Live(cur)
  /\ heart <=> Open(cur)
  /\ seen = identity /\ cur # 0 => upgrade[cur] = identity

\* Nothing is under way on a socket that is not open, and nothing waits for the
\* opening of one that does not connect.
NothingElsewhere ==
  \A c \in Socket : /\ phase[c] # "open" => up[c] = <<>> /\ down[c] = <<>>
                    /\ phase[c] # "connecting" => listeners[c] = <<>>

Queues ==
  /\ listeners \in [Socket -> Seq({"join"})]
  /\ up \in [Socket -> Seq(UpMsg)]
  /\ down \in [Socket -> Seq(DownMsg)]
  /\ NothingElsewhere

SocketInv == SocketCore /\ Queues

LEMMA SocketFacts ==
    ASSUME SocketInv
    PROVE  /\ MaxSockets \in Nat /\ 0 \notin Socket
           /\ cur # 0 => cur \in Socket /\ phase[cur] \in {"connecting", "open"}
           /\ \A c \in Socket : phase[c] \in {"connecting", "open"} => c = cur
           /\ \A c \in Socket : c # cur => up[c] = <<>> /\ down[c] = <<>> /\ listeners[c] = <<>>
<1>1. MaxSockets \in Nat /\ Socket = 1 .. MaxSockets /\ cur \in 0 .. MaxSockets
  BY SocketBounds DEF SocketInv, SocketCore, Socket
<1>2. 0 \notin Socket /\ (cur # 0 => cur \in Socket)
  BY <1>1
<1>3. cur # 0 => phase[cur] \in {"connecting", "open"}
  BY DEF SocketInv, SocketCore, Live
<1>4. ASSUME NEW c \in Socket
      PROVE  phase[c] \in {"connecting", "open"} => c = cur
  BY <1>2 DEF SocketInv, SocketCore, Live
<1>5. ASSUME NEW c \in Socket, c # cur
      PROVE  up[c] = <<>> /\ down[c] = <<>> /\ listeners[c] = <<>>
  BY <1>4, <1>5 DEF SocketInv, Queues, NothingElsewhere
<1> QED BY <1>1, <1>2, <1>3, <1>4, <1>5

LEMMA SocketStarts == SocketInit => SocketInv
<1> SUFFICES ASSUME SocketInit PROVE SocketInv
  OBVIOUS
<1>1. MaxSockets \in Nat \ {0} /\ 1 \in Socket /\ 0 \notin Socket
  BY SocketBounds DEF Socket
<1>2. Queues
  <2>1. <<>> \in Seq({"join"}) /\ <<>> \in Seq(UpMsg) /\ <<>> \in Seq(DownMsg)
    OBVIOUS
  <2> QED BY <2>1 DEF SocketInit, Queues, NothingElsewhere
<1>3. /\ phase \in [Socket -> {"unused", "connecting", "open", "closed"}]
      /\ cur \in 0 .. MaxSockets
      /\ upgrade \in [Socket -> Identity]
  BY <1>1 DEF SocketInit, Identity
<1>4. /\ \A c \in Socket : Live(c) => c = cur
      /\ Live(cur) /\ ~Open(cur) /\ upgrade[cur] = identity
  BY <1>1 DEF SocketInit, Live, Open
<1> QED BY <1>1, <1>2, <1>3, <1>4 DEF SocketInv, SocketCore, SocketInit, Identity

\* ensureSocket has the current socket or a new one.
LEMMA EnsuredIs ==
    ASSUME SocketInv, CanEnsure
    PROVE  /\ cur # 0 => Live(cur) /\ Ensured = cur
           /\ cur = 0 => ~Live(cur) /\ phase[Ensured] = "unused"
           /\ Ensured \in Socket /\ Ensured # 0
<1>1. CASE cur # 0
  BY <1>1, SocketFacts DEF SocketInv, SocketCore, Ensured
<1>2. CASE cur = 0
  <2> DEFINE T == {c \in Socket : phase[c] = "unused"}
  <2>1. ~Live(cur)
    BY <1>2 DEF Live
  <2>2. T # {} /\ T \in SUBSET Nat
    BY <2>1 DEF CanEnsure, Socket
  <2>3. PICK n \in T : \A m \in T : n <= m
    BY <2>2, SmallestNumber
  <2>4. n \in Socket /\ phase[n] = "unused" /\ \A d \in Socket : phase[d] = "unused" => n <= d
    BY <2>3
  <2> DEFINE e == CHOOSE c \in Socket : phase[c] = "unused" /\ \A d \in Socket :
                                          phase[d] = "unused" => c <= d
  <2>5. e \in Socket /\ phase[e] = "unused"
    BY <2>4
  <2>6. Ensured = e
    BY <2>1 DEF Ensured
  <2> QED BY <1>2, <2>1, <2>5, <2>6, SocketFacts
<1> QED BY <1>1, <1>2

LEMMA EnsureCore ==
    ASSUME SocketInv, EnsureSocket, UNCHANGED <<heart, identity, seen>>,
           reconnect' \in BOOLEAN, unsent' \in BOOLEAN
    PROVE  /\ SocketCore'
           /\ cur' = Ensured /\ cur' \in Socket
           /\ cur # 0 => cur' = cur /\ UNCHANGED phase
           /\ cur = 0 => /\ phase[cur'] = "unused" /\ ~Open(cur)
                         /\ phase' = [phase EXCEPT ![cur'] = "connecting"]
<1>1. CanEnsure
  BY DEF EnsureSocket
<1>2. /\ cur # 0 => Live(cur) /\ Ensured = cur
      /\ cur = 0 => ~Live(cur) /\ phase[Ensured] = "unused"
      /\ Ensured \in Socket /\ Ensured # 0
  BY <1>1, EnsuredIs
<1> HIDE DEF Ensured
<1>3. CASE cur # 0
  <2>1. cur' = cur /\ cur \in Socket
    BY <1>2, <1>3 DEF EnsureSocket
  <2>2. phase' = phase /\ upgrade' = upgrade
    BY <1>2, <1>3, <2>1 DEF EnsureSocket, SocketInv, SocketCore
  <2>3. \A c : (Live(c))' = Live(c) /\ (Open(c))' = Open(c)
    BY <2>2 DEF Live, Open
  <2> QED BY <1>2, <1>3, <2>1, <2>2, <2>3 DEF SocketInv, SocketCore, Live, Open
<1>4. CASE cur = 0
  <2>1. /\ cur' = Ensured
        /\ phase' = [phase EXCEPT ![Ensured] = "connecting"]
        /\ upgrade' = [upgrade EXCEPT ![Ensured] = identity]
    BY <1>2, <1>4 DEF EnsureSocket
  <2>2. \A c \in Socket : phase[c] \notin {"connecting", "open"}
    BY <1>4, SocketFacts
  <2>3. /\ phase' \in [Socket -> {"unused", "connecting", "open", "closed"}]
        /\ upgrade' \in [Socket -> Identity] /\ cur' \in 0 .. MaxSockets
    BY <1>2, <2>1 DEF SocketInv, SocketCore, Socket
  <2>4. phase'[cur'] = "connecting" /\ upgrade'[cur'] = identity /\ cur' # 0 /\ cur' \in Socket
    BY <1>2, <2>1 DEF SocketInv, SocketCore
  <2>5. \A c \in Socket : c # cur' => phase'[c] = phase[c]
    BY <2>1 DEF SocketInv, SocketCore
  <2>6. /\ \A c \in Socket : (Live(c))' => c = cur'
        /\ (Live(cur))' /\ ~(Open(cur))' /\ ~Open(cur)
    BY <1>4, <2>2, <2>4, <2>5 DEF Live, Open
  <2>7. ~heart'
    BY <2>6 DEF SocketInv, SocketCore
  <2> QED BY <1>2, <1>4, <2>1, <2>3, <2>4, <2>6, <2>7 DEF SocketInv, SocketCore
<1> QED BY <1>3, <1>4

\* The socket was ensured or left alone, and something was sent on it.
Ensuring ==
  \/ UNCHANGED phase
  \/ /\ cur = 0 /\ cur' \in Socket /\ phase[cur'] = "unused"
     /\ phase' = [phase EXCEPT ![cur'] = "connecting"]

LEMMA QueuesSent ==
    ASSUME SocketInv, NEW ms \in Seq(UpMsg), up' = Sent(ms), UNCHANGED <<listeners, down>>,
           Ensuring
    PROVE  Queues'
<1>1. up' \in [Socket -> Seq(UpMsg)]
  <2>1. CASE Open(cur)
    <3>1. cur \in Socket /\ up[cur] \in Seq(UpMsg)
      BY <2>1, SocketFacts DEF Open, SocketInv, Queues
    <3>2. up[cur] \o ms \in Seq(UpMsg)
      BY <3>1, MoreSaid
    <3> QED BY <2>1, <3>2 DEF Sent, SocketInv, Queues
  <2>2. CASE ~Open(cur)
    BY <2>2 DEF Sent, SocketInv, Queues
  <2> QED BY <2>1, <2>2
<1>2. ASSUME NEW c \in Socket
      PROVE  /\ phase'[c] # "open" => up'[c] = <<>> /\ down'[c] = <<>>
             /\ phase'[c] # "connecting" => listeners'[c] = <<>>
  <2>1. /\ phase[c] # "open" => up[c] = <<>> /\ down[c] = <<>>
        /\ phase[c] # "connecting" => listeners[c] = <<>>
    BY DEF SocketInv, Queues, NothingElsewhere
  <2>2. phase'[c] # "open" => phase[c] # "open"
    BY DEF Ensuring, SocketInv, SocketCore
  <2>3. phase'[c] # "connecting" => phase[c] # "connecting"
    BY DEF Ensuring, SocketInv, SocketCore
  <2>4. phase[c] # "open" => up'[c] = up[c]
    BY DEF Sent, Open, SocketInv, Queues
  <2> QED BY <2>1, <2>2, <2>3, <2>4
<1> QED BY <1>1, <1>2 DEF Queues, NothingElsewhere, SocketInv

\* Nothing of the core changes but the flags that say what was dropped or armed.
LEMMA CoreStays ==
    ASSUME SocketInv, UNCHANGED <<phase, cur, heart, identity, upgrade, seen>>,
           reconnect' \in BOOLEAN, unsent' \in BOOLEAN
    PROVE  SocketCore' /\ Ensuring
BY DEF SocketInv, SocketCore, Live, Open, Ensuring

LEMMA UnsentTyped ==
    ASSUME SocketInv
    PROVE  unsent \in BOOLEAN /\ reconnect \in BOOLEAN /\ \A p : (unsent \/ p) \in BOOLEAN
BY DEF SocketInv, SocketCore

LEMMA JustSendKeeps ==
    ASSUME SocketInv, NEW ms \in Seq(UpMsg), NEW search, JustSend(ms, search)
    PROVE  SocketInv'
<1>1. SocketCore' /\ Ensuring
  BY CoreStays, UnsentTyped DEF JustSend, SocketInv, SocketCore
<1>2. Queues'
  BY <1>1, QueuesSent DEF JustSend
<1> QED BY <1>1, <1>2 DEF SocketInv

LEMMA EnsureSendKeeps ==
    ASSUME SocketInv, NEW ms \in Seq(UpMsg), EnsureSocket, up' = Sent(ms),
           UNCHANGED <<heart, identity, seen, listeners, down>>,
           reconnect' \in BOOLEAN, unsent' \in BOOLEAN
    PROVE  SocketInv'
<1>1. SocketCore' /\ Ensuring
  BY EnsureCore DEF Ensuring
<1>2. Queues'
  BY <1>1, QueuesSent
<1> QED BY <1>1, <1>2 DEF SocketInv

LEMMA EnsureAndSendKeeps ==
    ASSUME SocketInv, NEW m \in UpMsg, EnsureAndSend(m)
    PROVE  SocketInv'
<1>1. <<m>> \in Seq(UpMsg)
  OBVIOUS
<1> QED BY <1>1, EnsureSendKeeps, UnsentTyped DEF EnsureAndSend

LEMMA ReconnectKeeps ==
    ASSUME SocketInv, Reconnect
    PROVE  SocketInv'
<1>1. <<>> \in Seq(UpMsg) /\ up' = Sent(<<>>)
  <2>1. up[cur] \in Seq(UpMsg) => up[cur] \o <<>> = up[cur]
    OBVIOUS
  <2>2. Open(cur) => up[cur] \in Seq(UpMsg) /\ cur \in Socket
    BY SocketFacts DEF Open, SocketInv, Queues
  <2>3. Open(cur) => [up EXCEPT ![cur] = up[cur]] = up
    BY <2>2 DEF SocketInv, Queues
  <2> QED BY <2>1, <2>2, <2>3 DEF Sent, Reconnect
<1> QED BY <1>1, EnsureSendKeeps, UnsentTyped DEF Reconnect

LEMMA JoinKeeps ==
    ASSUME SocketInv, JoinSocket
    PROVE  /\ SocketInv' /\ cur' # 0
           /\ \/ /\ Open(cur') /\ UNCHANGED listeners
                 /\ up' = [up EXCEPT ![cur'] = Append(@, "join")]
              \/ listeners'[cur'] # <<>> /\ UNCHANGED up
<1>1. /\ SocketCore'
      /\ cur' = Ensured /\ cur' \in Socket
      /\ cur # 0 => cur' = cur /\ UNCHANGED phase
      /\ cur = 0 => /\ phase[cur'] = "unused" /\ ~Open(cur)
                    /\ phase' = [phase EXCEPT ![cur'] = "connecting"]
  BY EnsureCore, UnsentTyped DEF JoinSocket
<1>2. cur' # 0
  BY <1>1, SocketFacts
<1>3. \A c \in Socket : c # cur' => phase'[c] = phase[c]
  BY <1>1 DEF SocketInv, SocketCore
<1>4. phase'[cur'] \in {"connecting", "open"}
  BY <1>1, <1>2 DEF SocketCore, Live
<1>5. /\ down' = down
      /\ \/ Open(cur') /\ up' = [up EXCEPT ![cur'] = Append(@, "join")] /\ UNCHANGED listeners
         \/ /\ ~Open(cur') /\ UNCHANGED up
            /\ listeners' = [listeners EXCEPT ![cur'] = Append(@, "join")]
  BY <1>1 DEF JoinSocket
<1>6. CASE /\ Open(cur') /\ up' = [up EXCEPT ![cur'] = Append(@, "join")] /\ UNCHANGED listeners
  <2>1. Append(up[cur'], "join") \in Seq(UpMsg)
    BY <1>1 DEF SocketInv, Queues, UpMsg, SearchMsg
  <2>2. up' \in [Socket -> Seq(UpMsg)] /\ \A c \in Socket : c # cur' => up'[c] = up[c]
    BY <1>6, <2>1 DEF SocketInv, Queues
  <2>3. phase[cur'] = "open" /\ phase' = phase
    BY <1>1, <1>6 DEF Open
  <2>4. NothingElsewhere'
    BY <1>5, <1>6, <2>2, <2>3 DEF SocketInv, Queues, NothingElsewhere
  <2> QED BY <1>1, <1>2, <1>5, <1>6, <2>2, <2>4 DEF SocketInv, Queues
<1>7. CASE /\ ~Open(cur') /\ UNCHANGED up
           /\ listeners' = [listeners EXCEPT ![cur'] = Append(@, "join")]
  <2>1. /\ Append(listeners[cur'], "join") \in Seq({"join"})
        /\ Append(listeners[cur'], "join") # <<>>
    <3>1. listeners[cur'] \in Seq({"join"})
      BY <1>1 DEF SocketInv, Queues
    <3>2. \A q \in Seq({"join"}) : Append(q, "join") \in Seq({"join"}) /\ Append(q, "join") # <<>>
      OBVIOUS
    <3> QED BY <3>1, <3>2
  <2>2. /\ listeners' \in [Socket -> Seq({"join"})] /\ listeners'[cur'] # <<>>
        /\ \A c \in Socket : c # cur' => listeners'[c] = listeners[c]
    BY <1>1, <1>7, <2>1 DEF SocketInv, Queues
  <2>3. phase'[cur'] = "connecting" /\ phase[cur'] # "open"
    <3>1. phase[cur'] # "open"
      BY <1>2, <1>7 DEF Open
    <3>2. CASE cur = 0
      BY <1>1, <3>1, <3>2 DEF SocketInv, SocketCore
    <3>3. CASE cur # 0
      BY <1>1, <1>4, <3>1, <3>3
    <3> QED BY <3>1, <3>2, <3>3
  <2>4. ASSUME NEW c \in Socket
        PROVE  /\ phase'[c] # "open" => up'[c] = <<>> /\ down'[c] = <<>>
               /\ phase'[c] # "connecting" => listeners'[c] = <<>>
    BY <1>3, <1>5, <1>7, <2>2, <2>3 DEF SocketInv, Queues, NothingElsewhere
  <2> QED BY <1>1, <1>2, <1>5, <1>7, <2>2, <2>4 DEF SocketInv, Queues, NothingElsewhere
<1> QED BY <1>5, <1>6, <1>7

LEMMA OpenKeeps ==
    ASSUME SocketInv, NEW c \in Socket, OnOpen(c)
    PROVE  /\ SocketInv' /\ c = cur
           /\ \E ms \in {<<>>, <<"auth">>} : up'[c] = ms \o listeners[c]
           /\ UNCHANGED <<cur, down>>
<1>1. phase[c] = "connecting" /\ c = cur /\ cur # 0
  BY SocketFacts DEF OnOpen
<1>2. /\ phase' = [phase EXCEPT ![c] = "open"] /\ heart' = TRUE
      /\ UNCHANGED <<cur, reconnect, down, identity, upgrade, seen, unsent>>
  BY <1>1 DEF OnOpen
<1>3. SocketCore'
  <2>1. /\ phase' \in [Socket -> {"unused", "connecting", "open", "closed"}]
        /\ phase'[c] = "open" /\ \A d \in Socket : d # c => phase'[d] = phase[d]
    BY <1>2 DEF SocketInv, SocketCore
  <2>2. (\A d \in Socket : Live(d) => d = cur)'
    BY <1>1, <1>2, <2>1 DEF Live, SocketInv, SocketCore
  <2>3. (Live(cur) /\ Open(cur))'
    BY <1>1, <1>2, <2>1 DEF Live, Open
  <2> QED BY <1>2, <2>1, <2>2, <2>3 DEF SocketInv, SocketCore
<1>4. up[c] = <<>>
  BY <1>1 DEF SocketInv, Queues, NothingElsewhere
<1> DEFINE ms == IF cur = c /\ identity = "user" THEN <<"auth">> ELSE <<>>
           qq == ms \o listeners[c]
<1>5. ms \in Seq(UpMsg) /\ listeners[c] \in Seq(UpMsg)
  <2>1. listeners[c] \in Seq({"join"})
    BY DEF SocketInv, Queues
  <2>2. Seq({"join"}) \subseteq Seq(UpMsg)
    BY DEF UpMsg, SearchMsg
  <2>3. <<"auth">> \in Seq(UpMsg) /\ <<>> \in Seq(UpMsg)
    BY DEF UpMsg
  <2> QED BY <2>1, <2>2, <2>3
<1>6. qq \in Seq(UpMsg)
  <2> HIDE DEF ms
  <2> QED BY <1>5, MoreSaid
<1>7. up' = [up EXCEPT ![c] = qq] /\ listeners' = [listeners EXCEPT ![c] = <<>>]
  <2>1. up' = [up EXCEPT ![c] = @ \o ms \o listeners[c]]
    BY DEF OnOpen
  <2>2. \A q, r \in Seq(UpMsg) : <<>> \o q \o r = q \o r
    OBVIOUS
  <2>3. <<>> \o ms \o listeners[c] = qq
    <3> HIDE DEF ms
    <3> QED BY <1>5, <2>2
  <2>4. up' = [up EXCEPT ![c] = <<>> \o ms \o listeners[c]]
    <3> HIDE DEF ms
    <3> QED BY <1>4, <2>1
  <2>5. listeners' = [listeners EXCEPT ![c] = <<>>]
    BY DEF OnOpen
  <2> QED BY <2>3, <2>4, <2>5
<1> HIDE DEF qq
<1>8. /\ up' \in [Socket -> Seq(UpMsg)] /\ up'[c] = qq
      /\ listeners' \in [Socket -> Seq({"join"})] /\ listeners'[c] = <<>>
      /\ \A d \in Socket : d # c => up'[d] = up[d] /\ listeners'[d] = listeners[d]
  BY <1>6, <1>7 DEF SocketInv, Queues
<1>9. NothingElsewhere'
  <2> SUFFICES ASSUME NEW d \in Socket
               PROVE  /\ phase'[d] # "open" => up'[d] = <<>> /\ down'[d] = <<>>
                      /\ phase'[d] # "connecting" => listeners'[d] = <<>>
    BY DEF NothingElsewhere
  <2>1. CASE d = c
    BY <2>1, <1>2, <1>8 DEF SocketInv, SocketCore
  <2>2. CASE d # c
    BY <2>2, <1>2, <1>8 DEF SocketInv, SocketCore, Queues, NothingElsewhere
  <2> QED BY <2>1, <2>2
<1>10. \E r \in {<<>>, <<"auth">>} : up'[c] = r \o listeners[c]
  <2>1. qq = ms \o listeners[c]
    BY DEF qq
  <2>2. ms \in {<<>>, <<"auth">>}
    OBVIOUS
  <2> HIDE DEF ms
  <2> QED BY <1>8, <2>1, <2>2
<1> QED BY <1>1, <1>2, <1>3, <1>8, <1>9, <1>10 DEF SocketInv, Queues

LEMMA CloseKeeps ==
    ASSUME SocketInv, NEW c \in Socket, OnClose(c)
    PROVE  SocketInv' /\ c = cur /\ cur' = 0
<1>1. /\ c = cur /\ cur # 0 /\ cur' = 0 /\ heart' = FALSE /\ reconnect' = TRUE
      /\ phase' = [phase EXCEPT ![c] = "closed"]
      /\ up' = [up EXCEPT ![c] = <<>>]
      /\ down' = [down EXCEPT ![c] = <<>>]
      /\ listeners' = [listeners EXCEPT ![c] = <<>>]
      /\ UNCHANGED <<identity, upgrade, seen, unsent>>
  BY SocketFacts DEF OnClose, Closing
<1>2. /\ phase' \in [Socket -> {"unused", "connecting", "open", "closed"}]
      /\ phase'[c] = "closed" /\ \A d \in Socket : d # c => phase'[d] = phase[d]
  BY <1>1 DEF SocketInv, SocketCore
<1>3. \A d \in Socket : phase'[d] \notin {"connecting", "open"}
  BY <1>1, <1>2, SocketFacts
<1>4. SocketCore'
  <2>1. (\A d \in Socket : Live(d) => d = cur)' /\ ~(Open(cur))'
    BY <1>1, <1>3 DEF Live, Open
  <2>2. cur' \in 0 .. MaxSockets
    BY <1>1, SocketFacts
  <2> QED BY <1>1, <1>2, <2>1, <2>2 DEF SocketInv, SocketCore
<1>5. <<>> \in Seq({"join"}) /\ <<>> \in Seq(UpMsg) /\ <<>> \in Seq(DownMsg)
  OBVIOUS
<1>6. /\ up' \in [Socket -> Seq(UpMsg)] /\ down' \in [Socket -> Seq(DownMsg)]
      /\ listeners' \in [Socket -> Seq({"join"})]
      /\ up'[c] = <<>> /\ down'[c] = <<>> /\ listeners'[c] = <<>>
      /\ \A d \in Socket : d # c => /\ up'[d] = up[d] /\ down'[d] = down[d]
                                   /\ listeners'[d] = listeners[d]
  BY <1>1, <1>5 DEF SocketInv, Queues
<1>7. NothingElsewhere'
  BY <1>2, <1>6 DEF SocketInv, Queues, NothingElsewhere
<1> QED BY <1>1, <1>4, <1>6, <1>7 DEF SocketInv, Queues

LEMMA SwitchKeeps ==
    ASSUME SocketInv, SwitchIdentity
    PROVE  SocketInv'
BY DEF SocketInv, SocketCore, Queues, NothingElsewhere, SwitchIdentity, Live, Open

LEMMA AuthKeeps ==
    ASSUME SocketInv, ReconnectForAuthChange
    PROVE  SocketInv'
<1> DEFINE T == {c \in Socket : phase[c] = "unused"}
           e == CHOOSE c \in Socket : phase[c] = "unused" /\ \A d \in Socket :
                                         phase[d] = "unused" => c <= d
           gone(f, v) == IF cur = 0 THEN f ELSE [f EXCEPT ![cur] = v]
<1>1. T # {} /\ T \in SUBSET Nat
  BY DEF ReconnectForAuthChange, Socket
<1>2. PICK n \in T : \A m \in T : n <= m
  BY <1>1, SmallestNumber
<1>3. n \in Socket /\ phase[n] = "unused" /\ \A d \in Socket : phase[d] = "unused" => n <= d
  BY <1>2
<1>4. e \in Socket /\ phase[e] = "unused"
  BY <1>3
<1>5. /\ seen' = identity /\ identity' = identity /\ unsent' = unsent
      /\ heart' = FALSE /\ reconnect' = FALSE
      /\ cur' = e
      /\ phase' = [gone(phase, "closed") EXCEPT ![e] = "connecting"]
      /\ up' = gone(up, <<>>) /\ down' = gone(down, <<>>)
      /\ listeners' = gone(listeners, <<>>)
      /\ upgrade' = [upgrade EXCEPT ![e] = identity]
  BY DEF ReconnectForAuthChange
<1> HIDE DEF e
<1>6. e # 0 /\ e # cur
  BY <1>4, SocketFacts
<1>7. /\ phase' \in [Socket -> {"unused", "connecting", "open", "closed"}]
      /\ phase'[e] = "connecting"
      /\ \A d \in Socket : d # e => phase'[d] \notin {"connecting", "open"}
  <2>1. CASE cur = 0
    BY <1>4, <1>5, <2>1, SocketFacts DEF SocketInv, SocketCore
  <2>2. CASE cur # 0
    BY <1>4, <1>5, <1>6, <2>2, SocketFacts DEF SocketInv, SocketCore
  <2> QED BY <2>1, <2>2
<1>8. SocketCore'
  <2>1. (\A d \in Socket : Live(d) => d = cur)' /\ ~(Open(cur))' /\ (Live(cur))'
    BY <1>5, <1>6, <1>7 DEF Live, Open
  <2>2. cur' \in 0 .. MaxSockets
    BY <1>4, <1>5, SocketFacts DEF Socket
  <2>3. upgrade' \in [Socket -> Identity] /\ upgrade'[e] = identity
    BY <1>4, <1>5 DEF SocketInv, SocketCore
  <2> QED BY <1>5, <1>7, <2>1, <2>2, <2>3 DEF SocketInv, SocketCore
<1>9. <<>> \in Seq({"join"}) /\ <<>> \in Seq(UpMsg) /\ <<>> \in Seq(DownMsg)
  OBVIOUS
<1>10. /\ up' \in [Socket -> Seq(UpMsg)] /\ down' \in [Socket -> Seq(DownMsg)]
       /\ listeners' \in [Socket -> Seq({"join"})]
       /\ \A d \in Socket : up'[d] = <<>> /\ down'[d] = <<>> /\ listeners'[d] = <<>>
  <2>1. CASE cur = 0
    BY <1>5, <2>1, SocketFacts DEF SocketInv, Queues
  <2>2. CASE cur # 0
    BY <1>5, <1>9, <2>2, SocketFacts DEF SocketInv, Queues
  <2> QED BY <2>1, <2>2
<1> QED BY <1>8, <1>10 DEF SocketInv, Queues, NothingElsewhere

\* A message has been taken from the current socket, and maybe others sent on it.
LEMMA TakingKeeps ==
    ASSUME SocketInv, NEW m, Taking(m), NEW ms \in Seq(UpMsg),
           up' = up \/ up' = Sent(ms), unsent' \in BOOLEAN
    PROVE  /\ SocketInv'
           /\ cur \in Socket /\ Open(cur) /\ (Open(cur))' /\ cur' = cur
           /\ m \in DownMsg /\ down[cur] # <<>> /\ Head(down[cur]) = m
           /\ down'[cur] = Tail(down[cur])
           /\ up' = Sent(ms) => up'[cur] = up[cur] \o ms
<1>1. /\ Open(cur) /\ cur \in Socket /\ phase[cur] = "open"
      /\ down[cur] # <<>> /\ Head(down[cur]) = m
      /\ down' = [down EXCEPT ![cur] = Tail(@)]
      /\ UNCHANGED <<phase, cur, heart, reconnect, listeners, identity, upgrade, seen>>
  BY SocketFacts DEF Taking, Open
<1>2. SocketCore' /\ (Open(cur))'
  BY <1>1, CoreStays, UnsentTyped DEF Open
<1>3. down[cur] \in Seq(DownMsg) /\ up[cur] \in Seq(UpMsg)
  BY <1>1 DEF SocketInv, Queues
<1>4. Tail(down[cur]) \in Seq(DownMsg) /\ m \in DownMsg /\ up[cur] \o ms \in Seq(UpMsg)
  BY <1>1, <1>3, HeadGone, MoreSaid
<1>5. /\ down' \in [Socket -> Seq(DownMsg)] /\ down'[cur] = Tail(down[cur])
      /\ \A c \in Socket : c # cur => down'[c] = down[c]
  BY <1>1, <1>4 DEF SocketInv, Queues
<1>6. /\ up' \in [Socket -> Seq(UpMsg)]
      /\ up' = Sent(ms) => up'[cur] = up[cur] \o ms
      /\ \A c \in Socket : c # cur => up'[c] = up[c]
  BY <1>1, <1>4 DEF SocketInv, Queues, Sent
<1>7. NothingElsewhere'
  BY <1>1, <1>5, <1>6 DEF SocketInv, Queues, NothingElsewhere
<1> QED BY <1>1, <1>2, <1>4, <1>5, <1>6, <1>7 DEF SocketInv, Queues

\* The server takes a message from an open socket and may answer.
LEMMA ServerSpeaks ==
    ASSUME SocketInv, NEW c \in Socket, phase[c] = "open",
           NEW ms \in Seq(DownMsg),
           down' = down \/ down' = [down EXCEPT ![c] = @ \o ms],
           up' = up \/ (up[c] # <<>> /\ up' = [up EXCEPT ![c] = Tail(@)]),
           UNCHANGED <<phase, cur, heart, reconnect, listeners, identity, upgrade, seen, unsent>>
    PROVE  SocketInv' /\ c = cur
<1>1. SocketCore' /\ c = cur
  BY CoreStays, UnsentTyped, SocketFacts DEF SocketInv, SocketCore
<1>2. down[c] \in Seq(DownMsg) /\ up[c] \in Seq(UpMsg)
  BY DEF SocketInv, Queues
<1>3. down[c] \o ms \in Seq(DownMsg) /\ (up[c] # <<>> => Tail(up[c]) \in Seq(UpMsg))
  BY <1>2, HeadGone, MoreSaid
<1>4. /\ down' \in [Socket -> Seq(DownMsg)] /\ up' \in [Socket -> Seq(UpMsg)]
      /\ \A d \in Socket : d # c => down'[d] = down[d] /\ up'[d] = up[d]
  BY <1>3 DEF SocketInv, Queues
<1>5. NothingElsewhere'
  BY <1>4 DEF SocketInv, Queues, NothingElsewhere
<1> QED BY <1>1, <1>4, <1>5 DEF SocketInv, Queues

-----------------------------------------------------------------------------
(* The session: a search that is shown has its grounds. *)

\* A request on its way that no leave follows, and a word of the server after which
\* the page shows no search, or one it asks for again.
AskStands(q) == \E k \in DOMAIN q : q[k] \in SearchMsg /\ \A j \in DOMAIN q : j > k => q[j] \notin LeaveMsg
NoLeave(q)   == \A j \in DOMAIN q : q[j] \notin LeaveMsg
Ending(q)    == \E k \in DOMAIN q : q[k] \in EndMsg

HasPlace(c) == seat[c] # "idle" \/ lobby[c] # "none"
Pending  == beginning # "none" \/ requeue \/ redo
Grounds  ==
  /\ cur # 0
  /\ \/ AskStands(up[cur]) \/ listeners[cur] # <<>>
     \/ HasPlace(cur) /\ NoLeave(up[cur])
     \/ Ending(down[cur])
Founded  == finding /\ ~forgotten /\ ~unsent /\ ~astray => Pending \/ Grounds

PageTypes ==
  /\ finding \in BOOLEAN /\ matched \in BOOLEAN /\ inGroup \in BOOLEAN
  /\ accepting \in BOOLEAN /\ live \in BOOLEAN /\ requeue \in BOOLEAN /\ redo \in BOOLEAN
  /\ inviting \in BOOLEAN
  /\ tiles \in {"none", "local", "both"}
  /\ coming \subseteq {"solo", "mesh"}
  /\ beginning \in Beginning
  /\ invite \in InviteRoom \cup {0} /\ decline \in InviteRoom \cup {0}
  /\ seat \in [Socket -> {"idle", "queued", "room"}]
  /\ lobby \in [Socket -> {"none", "lobby", "match"}]
  /\ clicks \in 0 .. MaxClicks /\ pushes \in 0 .. MaxPushes
  /\ forgotten \in BOOLEAN /\ astray \in BOOLEAN

PageInv == PageTypes /\ DeclineTimerMatchesInvite

SessionInv == SocketInv /\ PageInv /\ Founded

LEMMA AskTail ==
    ASSUME NEW q \in Seq(UpMsg), q # <<>>
    PROVE  /\ AskStands(q) => AskStands(Tail(q)) \/ (Head(q) \in SearchMsg /\ NoLeave(Tail(q)))
           /\ NoLeave(q) => Head(q) \notin LeaveMsg /\ NoLeave(Tail(q))
<1>1. /\ \A k \in DOMAIN q : (k = 1 /\ q[k] = Head(q))
                             \/ (k # 1 /\ k - 1 \in DOMAIN Tail(q) /\ Tail(q)[k - 1] = q[k])
      /\ \A k \in DOMAIN Tail(q) : k + 1 \in DOMAIN q /\ Tail(q)[k] = q[k + 1]
      /\ 1 \in DOMAIN q /\ q[1] = Head(q)
  BY HeadGone
<1>2. /\ DOMAIN q \subseteq Nat \ {0} /\ DOMAIN Tail(q) \subseteq Nat \ {0}
  BY HeadGone
<1>3. ASSUME NoLeave(q) PROVE Head(q) \notin LeaveMsg /\ NoLeave(Tail(q))
  BY <1>1, <1>3 DEF NoLeave
<1>4. ASSUME AskStands(q)
      PROVE  AskStands(Tail(q)) \/ (Head(q) \in SearchMsg /\ NoLeave(Tail(q)))
  <2>1. PICK k \in DOMAIN q : q[k] \in SearchMsg /\ \A j \in DOMAIN q : j > k => q[j] \notin LeaveMsg
    BY <1>4 DEF AskStands
  <2>2. CASE k = 1
    <3>1. Head(q) \in SearchMsg
      BY <1>1, <2>1, <2>2
    <3>2. ASSUME NEW j \in DOMAIN Tail(q) PROVE Tail(q)[j] \notin LeaveMsg
      <4>1. j + 1 > 1
        BY <1>2
      <4> QED BY <1>1, <2>1, <2>2, <4>1
    <3> QED BY <3>1, <3>2 DEF NoLeave
  <2>3. CASE k # 1
    <3>1. k - 1 \in DOMAIN Tail(q) /\ Tail(q)[k - 1] \in SearchMsg
      BY <1>1, <2>1, <2>3
    <3>2. ASSUME NEW j \in DOMAIN Tail(q), j > k - 1 PROVE Tail(q)[j] \notin LeaveMsg
      <4>1. j + 1 > k
        BY <1>2, <3>2
      <4> QED BY <1>1, <2>1, <4>1
    <3> QED BY <3>1, <3>2 DEF AskStands
  <2> QED BY <2>2, <2>3
<1> QED BY <1>3, <1>4

LEMMA AskMore ==
    ASSUME NEW q \in Seq(UpMsg), NEW r \in Seq(UpMsg)
    PROVE  /\ AskStands(q) /\ NoLeave(r) => AskStands(q \o r)
           /\ AskStands(r) => AskStands(q \o r)
           /\ NoLeave(q) /\ NoLeave(r) => NoLeave(q \o r)
<1> DEFINE w == q \o r
<1>1. /\ \A k \in DOMAIN q : k \in DOMAIN w /\ w[k] = q[k]
      /\ \A k \in DOMAIN r : Len(q) + k \in DOMAIN w /\ w[Len(q) + k] = r[k]
      /\ \A k \in DOMAIN w :
           (k \in DOMAIN q /\ w[k] = q[k])
           \/ (k > Len(q) /\ k - Len(q) \in DOMAIN r /\ w[k] = r[k - Len(q)])
  BY MoreSaid
<1>2. /\ DOMAIN q = 1 .. Len(q) /\ Len(q) \in Nat /\ DOMAIN r \subseteq Nat /\ DOMAIN w \subseteq Nat
  OBVIOUS
<1> HIDE DEF w
<1>3. ASSUME NoLeave(q), NoLeave(r) PROVE NoLeave(w)
  BY <1>1, <1>3 DEF NoLeave
<1>4. ASSUME AskStands(q), NoLeave(r) PROVE AskStands(w)
  <2>1. PICK k \in DOMAIN q : q[k] \in SearchMsg /\ \A j \in DOMAIN q : j > k => q[j] \notin LeaveMsg
    BY <1>4 DEF AskStands
  <2>2. k \in DOMAIN w /\ w[k] \in SearchMsg
    BY <1>1, <2>1
  <2>3. ASSUME NEW j \in DOMAIN w, j > k PROVE w[j] \notin LeaveMsg
    BY <1>1, <1>4, <2>1, <2>3 DEF NoLeave
  <2> QED BY <2>2, <2>3 DEF AskStands
<1>5. ASSUME AskStands(r) PROVE AskStands(w)
  <2>1. PICK k \in DOMAIN r : r[k] \in SearchMsg /\ \A j \in DOMAIN r : j > k => r[j] \notin LeaveMsg
    BY <1>5 DEF AskStands
  <2>2. Len(q) + k \in DOMAIN w /\ w[Len(q) + k] \in SearchMsg
    BY <1>1, <2>1
  <2>3. ASSUME NEW j \in DOMAIN w, j > Len(q) + k PROVE w[j] \notin LeaveMsg
    <3>1. j \notin DOMAIN q
      BY <1>2, <2>1, <2>3
    <3>2. j - Len(q) \in DOMAIN r /\ w[j] = r[j - Len(q)]
      BY <1>1, <3>1
    <3>3. j - Len(q) > k
      BY <1>2, <2>1, <2>3
    <3> QED BY <2>1, <3>2, <3>3
  <2> QED BY <2>2, <2>3 DEF AskStands
<1> QED BY <1>3, <1>4, <1>5 DEF w

LEMMA EndTail ==
    ASSUME NEW q \in Seq(DownMsg), q # <<>>, Ending(q)
    PROVE  Ending(Tail(q)) \/ Head(q) \in EndMsg
BY ZenonT(40), HeadGone DEF Ending

LEMMA EndMore ==
    ASSUME NEW q \in Seq(DownMsg), NEW r \in Seq(DownMsg)
    PROVE  Ending(q) \/ Ending(r) => Ending(q \o r)
<1>1. /\ \A k \in DOMAIN q : k \in DOMAIN (q \o r) /\ (q \o r)[k] = q[k]
      /\ \A k \in DOMAIN r : Len(q) + k \in DOMAIN (q \o r) /\ (q \o r)[Len(q) + k] = r[k]
  BY MoreSaid
<1> DEFINE w == q \o r
<1> HIDE DEF w
<1>2. ASSUME Ending(q) PROVE Ending(w)
  BY <1>1, <1>2 DEF Ending, w
<1>3. ASSUME Ending(r) PROVE Ending(w)
  BY <1>1, <1>3 DEF Ending, w
<1> QED BY <1>2, <1>3 DEF w

\* The messages there are, one by one.
LEMMA Words ==
    /\ \A m \in SearchMsg : <<m>> \in Seq(UpMsg) /\ AskStands(<<m>>)
    /\ <<"leave", "gjoin">> \in Seq(UpMsg) /\ AskStands(<<"leave", "gjoin">>)
    /\ <<"decline">> \in Seq(UpMsg) /\ NoLeave(<<"decline">>)
    /\ <<"leave">> \in Seq(UpMsg) /\ <<"leave", "gleave">> \in Seq(UpMsg)
    /\ <<>> \in Seq(UpMsg) /\ NoLeave(<<>>)
    /\ \A m \in DownMsg : <<m>> \in Seq(DownMsg)
    /\ \A m \in EndMsg : Ending(<<m>>)
<1>1. ASSUME NEW m \in SearchMsg PROVE <<m>> \in Seq(UpMsg) /\ AskStands(<<m>>)
  <2>1. DOMAIN <<m>> = {1} /\ <<m>>[1] = m
    OBVIOUS
  <2> QED BY <2>1 DEF AskStands, UpMsg
<1>2. <<"leave", "gjoin">> \in Seq(UpMsg) /\ AskStands(<<"leave", "gjoin">>)
  <2> DEFINE q == <<"leave", "gjoin">>
  <2>1. DOMAIN q = {1, 2} /\ q[1] = "leave" /\ q[2] = "gjoin"
    OBVIOUS
  <2>2. "leave" \in UpMsg /\ "gjoin" \in UpMsg /\ "gjoin" \in SearchMsg
    BY DEF UpMsg, SearchMsg, LeaveMsg
  <2>3. q \in Seq(UpMsg)
    BY <2>2
  <2> HIDE DEF q
  <2>4. AskStands(q)
    BY <2>1, <2>2 DEF AskStands
  <2> QED BY <2>3, <2>4 DEF q
<1>3. NoLeave(<<"decline">>) /\ NoLeave(<<>>)
  BY DEF NoLeave, LeaveMsg
<1>4. /\ <<"decline">> \in Seq(UpMsg) /\ <<>> \in Seq(UpMsg)
      /\ <<"leave">> \in Seq(UpMsg) /\ <<"leave", "gleave">> \in Seq(UpMsg)
  BY DEF UpMsg, LeaveMsg
<1>5. \A m \in DownMsg : <<m>> \in Seq(DownMsg)
  OBVIOUS
<1>6. ASSUME NEW m \in EndMsg PROVE Ending(<<m>>)
  <2>1. DOMAIN <<m>> = {1} /\ <<m>>[1] = m
    OBVIOUS
  <2> QED BY <2>1 DEF Ending
<1> QED BY <1>1, <1>2, <1>3, <1>4, <1>5, <1>6

LEMMA GroundsKept ==
    ASSUME SocketInv, Grounds, cur' = cur, UNCHANGED serverVars, NEW ms \in Seq(UpMsg), NoLeave(ms),
           listeners'[cur] = listeners[cur],
           up'[cur] = up[cur] \/ up'[cur] = up[cur] \o ms,
           down'[cur] = down[cur] \/ (/\ down[cur] # <<>> /\ Head(down[cur]) \notin EndMsg
                                      /\ down'[cur] = Tail(down[cur]))
    PROVE  Grounds'
<1>1. cur # 0 /\ cur \in Socket /\ up[cur] \in Seq(UpMsg) /\ down[cur] \in Seq(DownMsg)
  BY SocketFacts DEF Grounds, SocketInv, Queues
<1>2. ASSUME AskStands(up[cur]) PROVE AskStands(up'[cur])
  BY <1>1, <1>2, AskMore
<1>3. ASSUME HasPlace(cur), NoLeave(up[cur]) PROVE HasPlace(cur)' /\ NoLeave(up'[cur])
  <2>1. NoLeave(up'[cur])
    BY <1>1, <1>3, AskMore
  <2>2. HasPlace(cur)'
    BY <1>3 DEF HasPlace, serverVars
  <2> QED BY <2>1, <2>2
<1>4. ASSUME Ending(down[cur]) PROVE Ending(down'[cur])
  BY <1>1, <1>4, EndTail
<1> QED BY <1>1, <1>2, <1>3, <1>4 DEF Grounds

LEMMA AskGrounds ==
    ASSUME SocketInv, NEW ms \in Seq(UpMsg), AskStands(ms), up' = Sent(ms), Open(cur), cur' = cur
    PROVE  Grounds'
<1>1. cur # 0 /\ cur \in Socket /\ up[cur] \in Seq(UpMsg)
  BY SocketFacts DEF Open, SocketInv, Queues
<1>2. up'[cur] = up[cur] \o ms
  BY <1>1 DEF Sent, SocketInv, Queues
<1>3. AskStands(up'[cur])
  BY <1>1, <1>2, AskMore
<1> QED BY <1>1, <1>3 DEF Grounds

LEMMA TakingGrounds ==
    ASSUME SocketInv, Grounds, NEW m, m \notin EndMsg, Taking(m),
           NEW ms \in Seq(UpMsg), NoLeave(ms), up' = up \/ up' = Sent(ms), unsent' \in BOOLEAN
    PROVE  Grounds'
<1>1. /\ cur \in Socket /\ cur' = cur /\ down[cur] # <<>> /\ Head(down[cur]) = m
      /\ down'[cur] = Tail(down[cur]) /\ (up' = Sent(ms) => up'[cur] = up[cur] \o ms)
  BY TakingKeeps
<1>2. UNCHANGED serverVars /\ listeners' = listeners
  BY DEF Taking
<1> QED BY <1>1, <1>2, GroundsKept

LEMMA FoundedStays ==
    ASSUME SessionInv, finding' => finding, forgotten => forgotten', unsent => unsent',
           astray => astray', Pending => Pending', Grounds => Grounds'
    PROVE  Founded'
BY DEF SessionInv, Founded

\* The page keeps its types when a frame or a timer touches only what invites, what is
\* asked for next, or the exceptions.
LEMMA PageStill ==
    ASSUME PageInv, inviting' \in BOOLEAN, astray' \in BOOLEAN, redo' \in BOOLEAN,
           beginning' \in Beginning, invite' \in InviteRoom \cup {0}, decline' = invite',
           requeue' \in BOOLEAN,
           UNCHANGED <<seat, lobby, clicks, pushes, forgotten, finding, matched, inGroup,
                       tiles, accepting, live, coming>>
    PROVE  PageInv'
<1>1. /\ finding' = finding /\ matched' = matched /\ inGroup' = inGroup /\ accepting' = accepting
      /\ live' = live /\ forgotten' = forgotten
  OBVIOUS
<1>2. /\ tiles' = tiles /\ coming' = coming /\ seat' = seat /\ lobby' = lobby
      /\ clicks' = clicks /\ pushes' = pushes
  OBVIOUS
<1>3. /\ finding' \in BOOLEAN /\ matched' \in BOOLEAN /\ inGroup' \in BOOLEAN
      /\ accepting' \in BOOLEAN /\ live' \in BOOLEAN /\ forgotten' \in BOOLEAN
  BY <1>1 DEF PageInv, PageTypes
<1>4. tiles' \in {"none", "local", "both"} /\ coming' \subseteq {"solo", "mesh"}
  BY <1>2 DEF PageInv, PageTypes
<1>5. /\ seat' \in [Socket -> {"idle", "queued", "room"}]
      /\ lobby' \in [Socket -> {"none", "lobby", "match"}]
  BY <1>2 DEF PageInv, PageTypes
<1>6. clicks' \in 0 .. MaxClicks /\ pushes' \in 0 .. MaxPushes
  BY <1>2 DEF PageInv, PageTypes
<1>7. DeclineTimerMatchesInvite' /\ decline' \in InviteRoom \cup {0}
  BY DEF DeclineTimerMatchesInvite
<1> QED BY <1>3, <1>4, <1>5, <1>6, <1>7 DEF PageInv, PageTypes

LEMMA PageFacts ==
    ASSUME SessionInv
    PROVE  /\ PageInv /\ inviting \in BOOLEAN /\ astray \in BOOLEAN /\ redo \in BOOLEAN
           /\ requeue \in BOOLEAN /\ beginning \in Beginning
           /\ invite \in InviteRoom \cup {0} /\ decline = invite
BY DEF SessionInv, PageInv, PageTypes, DeclineTimerMatchesInvite

-----------------------------------------------------------------------------
(* What the server says. *)

LEMMA WaitingKeeps ==
    ASSUME SessionInv, OnWaiting
    PROVE  SessionInv'
<1>1. Taking("waiting") /\ UNCHANGED <<up, unsent>>
  BY DEF OnWaiting
<1>2. SocketInv' /\ cur \in Socket /\ Open(cur) /\ cur' = cur
  BY <1>1, Words, TakingKeeps, UnsentTyped DEF SessionInv
<1>3. PageInv'
  BY ZenonT(40) DEF SessionInv, PageInv, PageTypes, OnWaiting, Taking, PeerUiCleared, serverVars,
         DeclineTimerMatchesInvite
<1>4. Grounds => Grounds'
  BY <1>1, Words, TakingGrounds, UnsentTyped DEF SessionInv, EndMsg
<1>5. Founded'
  <2>1. /\ beginning' = beginning /\ requeue' = requeue /\ redo' = redo
        /\ forgotten' = forgotten /\ unsent' = unsent
    BY DEF OnWaiting, Taking
  <2>4. astray => astray'
    BY DEF OnWaiting
  <2>5. ~finding /\ finding' /\ ~astray' => ~PlaceGone(cur)
    BY DEF OnWaiting
  <2>2. CASE finding
    BY <1>4, <2>1, <2>2, <2>4 DEF SessionInv, Founded, Pending
  <2>3. CASE ~finding /\ finding' /\ ~astray'
    <3>1. ~PlaceGone(cur) /\ UNCHANGED serverVars
      BY <2>3, <2>5 DEF OnWaiting, Taking
    <3>2. HasPlace(cur)'
      BY <1>2, <3>1 DEF PlaceGone, HasPlace, serverVars
    <3>3. NoLeave(up'[cur])
      BY <1>1, <3>1 DEF PlaceGone, NoLeave, LeaveMsg, ToSet
    <3>4. cur # 0
      BY <1>2, SocketFacts DEF SessionInv
    <3> QED BY <1>2, <3>2, <3>3, <3>4 DEF Grounds, Founded
  <2> QED BY <2>2, <2>3 DEF Founded
<1> QED BY <1>2, <1>3, <1>5 DEF SessionInv

LEMMA MatchedKeeps ==
    ASSUME SessionInv, OnRoomMatched \/ OnGroupMatchMatched
    PROVE  SessionInv'
<1>1. PICK m : /\ Taking(m) /\ (up' = up \/ up' = Sent(<<"leave">>)) /\ unsent' = unsent
               /\ ~finding'
  BY DEF OnRoomMatched, OnGroupMatchMatched
<1>2. SocketInv'
  <2>1. <<"leave">> \in Seq(UpMsg) /\ unsent' \in BOOLEAN
    BY <1>1, Words, UnsentTyped DEF SessionInv
  <2>2. Taking(m) /\ (up' = up \/ up' = Sent(<<"leave">>))
    BY <1>1
  <2> QED BY <2>1, <2>2, TakingKeeps DEF SessionInv
<1>3. PageInv'
  <2>1. CASE OnRoomMatched
    <3>1. /\ finding' \in BOOLEAN /\ matched' \in BOOLEAN
          /\ accepting' \in BOOLEAN /\ coming' \subseteq {"solo", "mesh"}
      BY <2>1 DEF SessionInv, PageInv, PageTypes, OnRoomMatched
    <3>2. UNCHANGED <<inGroup, tiles, live, beginning, requeue, redo, invite, decline, inviting,
                      seat, lobby, clicks, pushes, forgotten, astray>>
      BY <2>1 DEF OnRoomMatched, Taking, serverVars
    <3> QED BY <3>1, <3>2 DEF SessionInv, PageInv, PageTypes, DeclineTimerMatchesInvite
  <2>2. CASE OnGroupMatchMatched
    <3>1. /\ tiles' \in {"none", "local", "both"} /\ finding' \in BOOLEAN /\ matched' \in BOOLEAN
          /\ inGroup' \in BOOLEAN /\ accepting' \in BOOLEAN /\ coming' \subseteq {"solo", "mesh"}
      BY <2>2 DEF SessionInv, PageInv, PageTypes, OnGroupMatchMatched
    <3>2. UNCHANGED <<live, beginning, requeue, redo, invite, decline, inviting, seat, lobby,
                      clicks, pushes, forgotten, astray>>
      BY <2>2 DEF OnGroupMatchMatched, Taking, serverVars
    <3> QED BY <3>1, <3>2 DEF SessionInv, PageInv, PageTypes, DeclineTimerMatchesInvite
  <2> QED BY <2>1, <2>2
<1> QED BY <1>1, <1>2, <1>3 DEF SessionInv, Founded

LEMMA PeerLeftKeeps ==
    ASSUME SessionInv, OnRoomPeerLeft
    PROVE  SessionInv'
<1>1. PICK r \in {"left", "left-blocked", "left-invited"} :
        /\ Taking(r)
        /\ PeerUiCleared
        /\ \/ r = "left-blocked" /\ finding' = FALSE /\ UNCHANGED <<inGroup, requeue>>
           \/ r # "left-blocked" /\ inviting /\ UNCHANGED <<finding, inGroup, requeue>>
           \/ r = "left-invited" /\ ~inviting /\ finding' = TRUE /\ UNCHANGED <<inGroup, requeue>>
           \/ /\ r = "left" /\ ~inviting
              /\ finding' = TRUE /\ inGroup' = FALSE /\ requeue' = TRUE
        /\ astray' = (\/ astray
                      \/ r = "left-invited" /\ ~inviting
                      \/ r # "left-blocked" /\ inviting /\ finding)
        /\ UNCHANGED <<up, unsent, coming, beginning, redo, invite, decline, inviting>>
  BY DEF OnRoomPeerLeft
<1>2. SocketInv'
  BY <1>1, Words, TakingKeeps, UnsentTyped DEF SessionInv
<1>3. PageInv'
  <2>1. /\ finding' \in BOOLEAN /\ inGroup' \in BOOLEAN /\ requeue' \in BOOLEAN
    BY <1>1 DEF SessionInv, PageInv, PageTypes
  <2>2. astray' \in BOOLEAN
    BY <1>1
  <2>3. /\ matched' = FALSE /\ tiles' = "none" /\ accepting' = FALSE /\ live' = FALSE
        /\ UNCHANGED <<coming, beginning, redo, invite, decline, inviting, seat, lobby,
                       clicks, pushes, forgotten>>
    BY <1>1 DEF PeerUiCleared, Taking, serverVars
  <2> QED BY <2>1, <2>2, <2>3 DEF SessionInv, PageInv, PageTypes, DeclineTimerMatchesInvite
<1>4. Founded'
  <2>1. CASE r = "left-blocked"
    BY <1>1, <2>1 DEF Founded
  <2>2. CASE r # "left-blocked" /\ inviting
    BY <1>1, <2>2 DEF Founded
  <2>3. CASE r = "left-invited" /\ ~inviting
    BY <1>1, <2>3 DEF Founded
  <2>4. CASE r = "left" /\ ~inviting
    BY <1>1, <2>4 DEF Founded, Pending
  <2> QED BY <2>1, <2>2, <2>3, <2>4
<1> QED BY <1>2, <1>3, <1>4 DEF SessionInv

LEMMA ErrorKeeps ==
    ASSUME SessionInv, OnError \/ OnDraining
    PROVE  SessionInv'
<1>1. PICK m : Taking(m) /\ UNCHANGED <<up, unsent, astray>> /\ finding' = FALSE
  BY DEF OnError, OnDraining, Quiet
<1>2. SocketInv'
  BY <1>1, Words, TakingKeeps, UnsentTyped DEF SessionInv
<1>3. PageInv'
  <2>1. matched' \in BOOLEAN /\ live' \in BOOLEAN /\ redo' \in BOOLEAN
    BY DEF OnError, OnDraining, SessionInv, PageInv, PageTypes
  <2>2. UNCHANGED <<inGroup, tiles, accepting, coming, beginning, requeue, invite, decline,
                    inviting, seat, lobby, clicks, pushes, forgotten>>
    BY DEF OnError, OnDraining, Taking, serverVars
  <2> QED BY <1>1, <2>1, <2>2 DEF SessionInv, PageInv, PageTypes, DeclineTimerMatchesInvite
<1> QED BY <1>1, <1>2, <1>3 DEF SessionInv, Founded

LEMMA CreatedKeeps ==
    ASSUME SessionInv, OnGroupMatchCreated
    PROVE  SessionInv'
<1>1. /\ Taking("created") /\ UNCHANGED <<up, unsent>>
      /\ inGroup' = TRUE /\ matched' = FALSE /\ finding' = TRUE
      /\ UNCHANGED <<tiles, accepting, live, coming, beginning, requeue, redo, invite, decline,
                     inviting, seat, lobby, clicks, pushes, forgotten>>
  BY DEF OnGroupMatchCreated, Taking, serverVars
<1>2. astray' \in BOOLEAN /\ (astray => astray') /\ (~finding => astray')
  BY DEF OnGroupMatchCreated
<1>3. SocketInv'
  BY <1>1, Words, TakingKeeps, UnsentTyped DEF SessionInv
<1>4. PageInv'
  BY <1>1, <1>2 DEF SessionInv, PageInv, PageTypes, DeclineTimerMatchesInvite
<1>5. Grounds => Grounds'
  BY <1>1, Words, TakingGrounds, UnsentTyped DEF SessionInv, EndMsg
<1>6. Founded'
  BY <1>1, <1>2, <1>5 DEF SessionInv, Founded, Pending
<1> QED BY <1>3, <1>4, <1>6 DEF SessionInv

LEMMA JoinedKeeps ==
    ASSUME SessionInv, OnParticipantJoined
    PROVE  SessionInv'
<1>1. /\ Taking("joined") /\ (up' = up \/ up' = Sent(<<"start">>)) /\ UNCHANGED unsent
      /\ inviting' = FALSE
      /\ UNCHANGED <<astray, finding, matched, inGroup, tiles, accepting, live, coming, beginning,
                     requeue, redo, invite, decline, seat, lobby, clicks, pushes, forgotten>>
  BY DEF OnParticipantJoined, Taking, serverVars
<1>2. <<"start">> \in Seq(UpMsg) /\ NoLeave(<<"start">>)
  <2>1. DOMAIN <<"start">> = {1} /\ <<"start">>[1] = "start"
    OBVIOUS
  <2> QED BY <2>1, Words DEF NoLeave, LeaveMsg, SearchMsg
<1>3. SocketInv'
  BY <1>1, <1>2, TakingKeeps, UnsentTyped DEF SessionInv
<1>4. PageInv'
  <2>1. /\ inviting' \in BOOLEAN /\ astray' = astray /\ redo' = redo /\ requeue' = requeue
        /\ beginning' = beginning /\ invite' = invite /\ decline' = decline
    BY <1>1
  <2> QED BY <1>1, <2>1, PageFacts, PageStill
<1>5. Grounds => Grounds'
  BY <1>1, <1>2, TakingGrounds, UnsentTyped DEF SessionInv, EndMsg
<1>6. Founded'
  BY <1>1, <1>5 DEF SessionInv, Founded, Pending
<1> QED BY <1>3, <1>4, <1>6 DEF SessionInv

LEMMA LastGoneKeeps ==
    ASSUME SessionInv, OnParticipantLeft
    PROVE  SessionInv'
<1>1. /\ Taking("last-gone") /\ UNCHANGED <<unsent, astray, coming, beginning, requeue, redo, invite,
                                           decline, seat, lobby, clicks, pushes, forgotten>>
      /\ \/ Stopped /\ up' = Sent(<<"leave", "gleave">>)
         \/ UNCHANGED <<up, matched, tiles, accepting, live, finding, inGroup, inviting>>
  BY DEF OnParticipantLeft, Taking, serverVars
<1>2. SocketInv'
  <2>1. <<"leave", "gleave">> \in Seq(UpMsg) /\ unsent' \in BOOLEAN
    BY <1>1, Words, UnsentTyped DEF SessionInv
  <2>2. Taking("last-gone") /\ (up' = up \/ up' = Sent(<<"leave", "gleave">>))
    BY <1>1
  <2> QED BY <2>1, <2>2, TakingKeeps DEF SessionInv
<1>3. CASE Stopped
  BY <1>1, <1>2, <1>3 DEF Stopped, PeerUiCleared, SessionInv, PageInv, PageTypes,
                          DeclineTimerMatchesInvite, Founded
<1>4. CASE UNCHANGED <<up, matched, tiles, accepting, live, finding, inGroup, inviting>>
  <2>1. Grounds => Grounds'
    BY <1>1, <1>4, Words, TakingGrounds, UnsentTyped DEF SessionInv, EndMsg
  <2>2. Founded'
    BY <1>1, <1>4, <2>1 DEF SessionInv, Founded, Pending
  <2>3. PageInv'
    BY <1>1, <1>4 DEF SessionInv, PageInv, PageTypes, DeclineTimerMatchesInvite
  <2> QED BY <1>2, <2>2, <2>3 DEF SessionInv
<1> QED BY <1>1, <1>3, <1>4

LEMMA InvitationKeeps ==
    ASSUME SessionInv, OnInviteReceived \/ OnInviteDeclined
    PROVE  SessionInv'
<1>1. CASE OnInviteReceived
  <2>1. PICK r \in InviteRoom :
          /\ Taking(IF r = 1 THEN "invited1" ELSE "invited2")
          /\ invite' = r /\ decline' = r
          /\ UNCHANGED <<up, unsent, astray, finding, matched, inGroup, tiles, accepting, live,
                         coming, beginning, requeue, redo, inviting>>
    BY <1>1 DEF OnInviteReceived, Quiet
  <2>2. PICK m : m = (IF r = 1 THEN "invited1" ELSE "invited2")
    OBVIOUS
  <2>3. Taking(m) /\ m \notin EndMsg
    BY <2>1, <2>2 DEF EndMsg
  <2>4. SocketInv'
    BY <2>1, <2>3, Words, TakingKeeps, UnsentTyped DEF SessionInv
  <2>5. Grounds => Grounds'
    BY <2>1, <2>3, Words, TakingGrounds, UnsentTyped DEF SessionInv
  <2>6. UNCHANGED <<seat, lobby, clicks, pushes, forgotten>>
    BY <2>3 DEF Taking, serverVars
  <2>7. PageInv'
    BY <2>1, <2>6 DEF SessionInv, PageInv, PageTypes, DeclineTimerMatchesInvite
  <2>8. Founded'
    BY <2>1, <2>5, <2>6 DEF SessionInv, Founded, Pending
  <2> QED BY <2>4, <2>7, <2>8 DEF SessionInv
<1>2. CASE OnInviteDeclined
  <2>1. /\ Taking("invite-declined") /\ inviting' = FALSE
        /\ UNCHANGED <<up, unsent, finding, matched, inGroup, tiles, accepting, live, coming,
                       beginning, requeue, redo, invite, decline, seat, lobby, clicks, pushes,
                       forgotten>>
    BY <1>2 DEF OnInviteDeclined, Taking, serverVars
  <2>2. astray' \in BOOLEAN /\ (finding => astray')
    BY <1>2 DEF OnInviteDeclined
  <2>3. SocketInv'
    BY <2>1, Words, TakingKeeps, UnsentTyped DEF SessionInv
  <2>4. PageInv'
    <3>1. /\ inviting' \in BOOLEAN /\ redo' = redo /\ requeue' = requeue
          /\ beginning' = beginning /\ invite' = invite /\ decline' = decline
      BY <2>1
    <3> QED BY <2>1, <2>2, <3>1, PageFacts, PageStill
  <2>5. Founded'
    BY <2>1, <2>2 DEF Founded
  <2> QED BY <2>3, <2>4, <2>5 DEF SessionInv
<1> QED BY <1>1, <1>2

LEMMA MessagesKeep ==
    ASSUME SessionInv, Messages
    PROVE  SessionInv'
BY WaitingKeeps, MatchedKeeps, PeerLeftKeeps, ErrorKeeps, CreatedKeeps, JoinedKeeps,
   LastGoneKeeps, InvitationKeeps DEF Messages

-----------------------------------------------------------------------------
(* Timers and clicks. *)

LEMMA EnsureAsks ==
    ASSUME SocketInv, NEW m \in SearchMsg, EnsureAndSend(m)
    PROVE  SocketInv' /\ (unsent' \/ Grounds') /\ unsent' \in BOOLEAN
<1>1. m \in UpMsg /\ <<m>> \in Seq(UpMsg) /\ AskStands(<<m>>)
  BY Words DEF UpMsg
<1>2. SocketInv'
  BY <1>1, EnsureAndSendKeeps
<1>3. CASE ~Open(cur)
  BY <1>2, <1>3 DEF EnsureAndSend
<1>4. CASE Open(cur)
  <2>1. cur # 0
    BY <1>4 DEF Open
  <2>2. cur' = cur /\ up' = Sent(<<m>>)
    BY <2>1, EnsureCore, UnsentTyped DEF EnsureAndSend
  <2>3. Grounds'
    BY <1>1, <1>4, <2>2, AskGrounds
  <2>4. unsent' \in BOOLEAN
    BY DEF EnsureAndSend
  <2> QED BY <1>2, <2>3, <2>4
<1>5. unsent' \in BOOLEAN
  BY DEF EnsureAndSend
<1> QED BY <1>3, <1>4, <1>5

LEMMA JustAsks ==
    ASSUME SocketInv, NEW m \in SearchMsg, JustSend(<<m>>, TRUE)
    PROVE  SocketInv' /\ (unsent' \/ Grounds')
<1>1. <<m>> \in Seq(UpMsg) /\ AskStands(<<m>>)
  BY Words
<1>2. SocketInv'
  BY <1>1, JustSendKeeps
<1>3. CASE ~Open(cur)
  BY <1>2, <1>3 DEF JustSend
<1>4. CASE Open(cur)
  BY <1>1, <1>2, <1>4, AskGrounds DEF JustSend
<1> QED BY <1>3, <1>4

LEMMA JustTells ==
    ASSUME SocketInv, NEW ms \in Seq(UpMsg), JustSend(ms, FALSE)
    PROVE  SocketInv' /\ unsent' = unsent /\ (NoLeave(ms) /\ Grounds => Grounds' \/ ~UNCHANGED serverVars)
<1>1. SocketInv'
  BY JustSendKeeps
<1>2. unsent' = unsent
  <2>1. unsent \in BOOLEAN
    BY UnsentTyped
  <2> QED BY <2>1 DEF JustSend
<1>3. ASSUME NoLeave(ms), Grounds, UNCHANGED serverVars PROVE Grounds'
  <2>1. cur # 0 /\ cur \in Socket /\ cur' = cur /\ down' = down /\ listeners' = listeners
    BY <1>3, SocketFacts DEF Grounds, JustSend
  <2>2. up'[cur] = up[cur] \/ up'[cur] = up[cur] \o ms
    BY <2>1 DEF JustSend, Sent, SocketInv, Queues
  <2> QED BY <1>3, <2>1, <2>2, GroundsKept
<1> QED BY <1>1, <1>2, <1>3

LEMMA SocketStill ==
    ASSUME SocketInv, UNCHANGED <<socketVars, seat, lobby>>
    PROVE  SocketInv' /\ unsent' = unsent /\ (Grounds => Grounds')
BY DEF SocketInv, SocketCore, Queues, NothingElsewhere, Live, Open, socketVars, Grounds, HasPlace

LEMMA TimersKeep ==
    ASSUME SessionInv, Requeue \/ DeclineTimeout \/ InvitingTimeout \/ Redo
    PROVE  SessionInv'
<1>1. CASE Requeue
  <2>1. /\ requeue' = FALSE
        /\ UNCHANGED <<seat, lobby, clicks, pushes, forgotten, astray, finding, matched, inGroup,
                       tiles, accepting, live, coming, beginning, redo, invite, decline, inviting>>
        /\ JustSend(<<"start">>, TRUE) \/ EnsureAndSend("next")
    BY <1>1 DEF Requeue, serverVars, countVars
  <2>2. "start" \in SearchMsg /\ "next" \in SearchMsg
    BY DEF SearchMsg
  <2>3. SocketInv' /\ (unsent' \/ Grounds')
    BY <2>1, <2>2, JustAsks, EnsureAsks DEF SessionInv
  <2>4. PageInv'
    <3>1. /\ requeue' \in BOOLEAN /\ inviting' = inviting /\ astray' = astray /\ redo' = redo
          /\ beginning' = beginning /\ invite' = invite /\ decline' = decline
      BY <2>1, PageFacts
    <3> QED BY <2>1, <3>1, PageFacts, PageStill
  <2> QED BY <2>3, <2>4 DEF SessionInv, Founded
<1>2. CASE DeclineTimeout
  <2>1. /\ decline' = 0 /\ invite' = 0
        /\ UNCHANGED <<seat, lobby, clicks, pushes, forgotten, astray, finding, matched, inGroup,
                       tiles, accepting, live, coming, beginning, requeue, redo, inviting>>
        /\ JustSend(<<"decline">>, FALSE) /\ UNCHANGED serverVars
    BY <1>2 DEF DeclineTimeout, serverVars, countVars
  <2>2. SocketInv' /\ unsent' = unsent /\ (Grounds => Grounds')
    BY <2>1, Words, JustTells DEF SessionInv
  <2>3. PageInv'
    <3>1. /\ invite' \in InviteRoom \cup {0} /\ decline' = invite' /\ inviting' = inviting
          /\ astray' = astray /\ redo' = redo /\ requeue' = requeue /\ beginning' = beginning
      BY <2>1, PageFacts
    <3> QED BY <2>1, <3>1, PageFacts, PageStill
  <2>4. Founded'
    BY <2>1, <2>2 DEF SessionInv, Founded, Pending
  <2> QED BY <2>2, <2>3, <2>4 DEF SessionInv
<1>3. CASE InvitingTimeout
  <2>1. /\ inviting' = FALSE
        /\ UNCHANGED <<seat, lobby, clicks, pushes, forgotten, astray, finding, matched, inGroup,
                       tiles, accepting, live, coming, beginning, requeue, redo, invite, decline>>
        /\ UNCHANGED socketVars
    BY <1>3 DEF InvitingTimeout, serverVars, countVars
  <2>2. SocketInv' /\ unsent' = unsent /\ (Grounds => Grounds')
    BY <2>1, SocketStill DEF SessionInv
  <2>3. PageInv'
    <3>1. /\ inviting' \in BOOLEAN /\ astray' = astray /\ redo' = redo /\ requeue' = requeue
          /\ beginning' = beginning /\ invite' = invite /\ decline' = decline
      BY <2>1, PageFacts
    <3> QED BY <2>1, <3>1, PageFacts, PageStill
  <2>4. Founded'
    BY <2>1, <2>2 DEF SessionInv, Founded, Pending
  <2> QED BY <2>2, <2>3, <2>4 DEF SessionInv
<1>4. CASE Redo
  <2>1. /\ redo' = FALSE /\ beginning' = "join"
        /\ UNCHANGED <<seat, lobby, clicks, pushes, forgotten, astray, finding, matched, inGroup,
                       tiles, accepting, live, coming, requeue, invite, decline, inviting>>
        /\ UNCHANGED socketVars
    BY <1>4 DEF Redo, serverVars, countVars
  <2>2. SocketInv'
    BY <2>1, SocketStill DEF SessionInv
  <2>3. PageInv'
    <3>1. /\ redo' \in BOOLEAN /\ inviting' = inviting /\ astray' = astray /\ requeue' = requeue
          /\ invite' = invite /\ decline' = decline
      BY <2>1
    <3>2. beginning' \in Beginning
      BY <2>1 DEF Beginning
    <3> QED BY <2>1, <3>1, <3>2, PageFacts, PageStill
  <2>4. Founded'
    BY <2>1 DEF Founded, Pending
  <2> QED BY <2>2, <2>3, <2>4 DEF SessionInv
<1> QED BY <1>1, <1>2, <1>3, <1>4

LEMMA ComesAndBegins ==
    ASSUME SessionInv, MatchComes \/ Begin \/ BeginFails
    PROVE  SessionInv'
<1>1. UNCHANGED <<socketVars, seat, lobby, pushes, forgotten, astray, inGroup, tiles, accepting,
                  requeue, redo, invite, decline, inviting, matched>>
  BY DEF MatchComes, Begin, BeginFails, Click, serverVars, countVars
<1>2. SocketInv' /\ unsent' = unsent /\ (Grounds => Grounds')
  BY <1>1, SocketStill DEF SessionInv
<1>3. /\ coming' \subseteq coming /\ live' \in BOOLEAN /\ beginning' \in Beginning
      /\ clicks' \in 0 .. MaxClicks /\ finding' \in BOOLEAN
  <2>1. clicks' = clicks \/ (clicks < MaxClicks /\ clicks' = clicks + 1)
    BY DEF MatchComes, Begin, BeginFails, Click, countVars
  <2>2. clicks' \in 0 .. MaxClicks
    BY <2>1, SessionBounds DEF SessionInv, PageInv, PageTypes
  <2>3. coming' \subseteq coming /\ live' \in BOOLEAN
    BY DEF MatchComes, Begin, BeginFails, SessionInv, PageInv, PageTypes
  <2>4. beginning' \in Beginning /\ finding' \in BOOLEAN
    BY DEF MatchComes, Begin, BeginFails, Beginning, SessionInv, PageInv, PageTypes
  <2> QED BY <2>2, <2>3, <2>4
<1>4. PageInv'
  BY <1>1, <1>3 DEF SessionInv, PageInv, PageTypes, DeclineTimerMatchesInvite
<1>5. CASE MatchComes
  <2>1. beginning' = beginning /\ finding' = finding
    BY <1>5 DEF MatchComes
  <2> QED BY <1>1, <1>2, <1>4, <2>1 DEF SessionInv, Founded, Pending
<1>6. CASE Begin
  <2>1. beginning' # "none"
    BY <1>6 DEF Begin
  <2> QED BY <1>2, <1>4, <2>1 DEF SessionInv, Founded, Pending
<1>7. CASE BeginFails
  <2>1. finding' = FALSE
    BY <1>7 DEF BeginFails
  <2> QED BY <1>2, <1>4, <2>1 DEF SessionInv, Founded
<1> QED BY <1>5, <1>6, <1>7

LEMMA BegunKeeps ==
    ASSUME SessionInv, Begun
    PROVE  SessionInv'
<1>1. /\ beginning' = "none" /\ finding' = TRUE /\ matched' \in BOOLEAN
      /\ UNCHANGED <<seat, lobby, clicks, pushes, forgotten, astray, inGroup, tiles, accepting, live,
                     coming, requeue, redo, invite, decline, inviting>>
      /\ JoinSocket \/ EnsureAndSend("create")
  BY DEF Begun, serverVars, countVars
<1>2. PageInv'
  BY <1>1 DEF SessionInv, PageInv, PageTypes, DeclineTimerMatchesInvite, Beginning
<1>3. CASE EnsureAndSend("create")
  <2>1. SocketInv' /\ (unsent' \/ Grounds')
    BY <1>3, EnsureAsks DEF SessionInv, SearchMsg
  <2> QED BY <1>2, <2>1 DEF SessionInv, Founded
<1>4. CASE JoinSocket
  <2>1. /\ SocketInv' /\ cur' # 0
        /\ \/ up' = [up EXCEPT ![cur'] = Append(@, "join")]
           \/ listeners'[cur'] # <<>>
    BY <1>4, JoinKeeps DEF SessionInv
  <2>2. ASSUME up' = [up EXCEPT ![cur'] = Append(@, "join")]
        PROVE  AskStands(up'[cur'])
    <3>1. cur' \in Socket
      BY <2>1 DEF SocketInv, SocketCore, Socket
    <3>2. up[cur'] \in Seq(UpMsg) /\ up'[cur'] = Append(up[cur'], "join")
      BY <2>2, <3>1 DEF SessionInv, SocketInv, Queues
    <3>3. \A q \in Seq(UpMsg) : Append(q, "join") = q \o <<"join">>
      BY DEF UpMsg, SearchMsg
    <3>4. <<"join">> \in Seq(UpMsg) /\ AskStands(<<"join">>)
      BY Words DEF SearchMsg
    <3> QED BY <3>2, <3>3, <3>4, AskMore
  <2>3. Grounds'
    BY <2>1, <2>2 DEF Grounds
  <2> QED BY <1>2, <2>1, <2>3 DEF SessionInv, Founded
<1> QED BY <1>1, <1>3, <1>4

LEMMA ClicksKeep ==
    ASSUME SessionInv, NextPeer \/ Stop \/ InvitePeerToGroup \/ AcceptGroupInvite \/ DeclineGroupInvite
    PROVE  SessionInv'
<1>1. /\ clicks' \in 0 .. MaxClicks
      /\ UNCHANGED <<seat, lobby, pushes, forgotten, astray>> /\ UNCHANGED serverVars
  <2>1. Click
    BY DEF NextPeer, Stop, InvitePeerToGroup, AcceptGroupInvite, DeclineGroupInvite
  <2>2. clicks < MaxClicks /\ clicks' = clicks + 1
    BY <2>1 DEF Click
  <2>3. clicks' \in 0 .. MaxClicks
    BY <2>2, SessionBounds DEF SessionInv, PageInv, PageTypes
  <2> QED BY <2>1, <2>3 DEF Click, serverVars
<1>2. CASE NextPeer
  <2>1. /\ live' = FALSE /\ matched' = FALSE /\ finding' = TRUE
        /\ UNCHANGED <<inGroup, tiles, accepting, coming, beginning, requeue, redo, invite,
                       decline, inviting>>
        /\ JustSend(<<"start">>, TRUE) \/ EnsureAndSend("next")
    BY <1>2 DEF NextPeer
  <2>2. SocketInv' /\ (unsent' \/ Grounds')
    BY <2>1, JustAsks, EnsureAsks DEF SessionInv, SearchMsg
  <2>3. PageInv'
    BY <1>1, <2>1 DEF SessionInv, PageInv, PageTypes, DeclineTimerMatchesInvite
  <2> QED BY <2>2, <2>3 DEF SessionInv, Founded
<1>3. CASE Stop
  <2>1. /\ JustSend(<<"leave", "gleave">>, FALSE)
        /\ matched' = FALSE /\ tiles' = "none" /\ accepting' = FALSE /\ live' = FALSE
        /\ finding' = FALSE /\ inGroup' = FALSE /\ inviting' = FALSE
        /\ UNCHANGED <<coming, beginning, requeue, redo, invite, decline>>
    BY <1>3 DEF Stop, Stopped, PeerUiCleared
  <2>2. SocketInv'
    BY <2>1, Words, JustTells DEF SessionInv
  <2>3. PageInv'
    BY <1>1, <2>1 DEF SessionInv, PageInv, PageTypes, DeclineTimerMatchesInvite
  <2> QED BY <2>1, <2>2, <2>3 DEF SessionInv, Founded
<1>4. CASE InvitePeerToGroup
  <2>1. /\ inviting' = TRUE /\ EnsureAndSend("invite")
        /\ UNCHANGED <<finding, matched, inGroup, tiles, accepting, live, coming, beginning, requeue,
                       redo, invite, decline>>
    BY <1>4 DEF InvitePeerToGroup
  <2>2. SocketInv' /\ (unsent' \/ Grounds')
    BY <2>1, EnsureAsks DEF SessionInv, SearchMsg
  <2>3. PageInv'
    BY <1>1, <2>1 DEF SessionInv, PageInv, PageTypes, DeclineTimerMatchesInvite
  <2> QED BY <2>2, <2>3 DEF SessionInv, Founded
<1>5. CASE AcceptGroupInvite
  <2>1. /\ EnsureSocket /\ up' = Sent(<<"leave", "gjoin">>) /\ unsent' = (unsent \/ ~Open(cur))
        /\ UNCHANGED <<heart, reconnect, listeners, down, identity, seen>>
        /\ matched' = FALSE /\ tiles' = "none" /\ accepting' = FALSE /\ live' = FALSE
        /\ invite' = 0 /\ decline' = 0 /\ finding' = TRUE
        /\ UNCHANGED <<inGroup, coming, beginning, requeue, redo, inviting>>
    BY <1>5 DEF AcceptGroupInvite, PeerUiCleared
  <2>2. unsent' \in BOOLEAN /\ (~Open(cur) => unsent') /\ reconnect' \in BOOLEAN
    BY <2>1, UnsentTyped DEF SessionInv
  <2>3. SocketInv'
    BY <2>1, <2>2, Words, EnsureSendKeeps DEF SessionInv
  <2>4. PageInv'
    BY <1>1, <2>1 DEF SessionInv, PageInv, PageTypes, DeclineTimerMatchesInvite
  <2>5. Open(cur) => Grounds'
    <3>1. Open(cur) => cur' = cur
      BY <2>1, <2>2, EnsureCore DEF SessionInv, Open
    <3> QED BY <2>1, <3>1, Words, AskGrounds DEF SessionInv
  <2> QED BY <2>2, <2>3, <2>4, <2>5 DEF SessionInv, Founded
<1>6. CASE DeclineGroupInvite
  <2>1. /\ JustSend(<<"decline">>, FALSE) /\ invite' = 0 /\ decline' = 0
        /\ UNCHANGED <<finding, matched, inGroup, tiles, accepting, live, coming, beginning, requeue,
                       redo, inviting>>
    BY <1>6 DEF DeclineGroupInvite
  <2>2. SocketInv' /\ unsent' = unsent /\ (Grounds => Grounds')
    BY <1>1, <2>1, Words, JustTells DEF SessionInv
  <2>3. PageInv'
    BY <1>1, <2>1 DEF SessionInv, PageInv, PageTypes, DeclineTimerMatchesInvite
  <2>4. Founded'
    BY <1>1, <2>1, <2>2 DEF SessionInv, Founded, Pending
  <2> QED BY <2>2, <2>3, <2>4 DEF SessionInv
<1> QED BY <1>2, <1>3, <1>4, <1>5, <1>6

LEMMA UserKeeps ==
    ASSUME SessionInv, User
    PROVE  SessionInv'
BY ComesAndBegins, ClicksKeep DEF User

LEMMA PageKeeps ==
    ASSUME SessionInv, Page
    PROVE  SessionInv'
BY MessagesKeep, TimersKeep, ComesAndBegins, BegunKeeps DEF Page

-----------------------------------------------------------------------------
(* The network and the server. *)

LEMMA ConnectsKeeps ==
    ASSUME SessionInv, Connects
    PROVE  SessionInv'
<1>1. PICK c \in Socket : OnOpen(c)
  BY DEF Connects
<1>2. /\ SocketInv' /\ c = cur /\ cur' = cur /\ down' = down
      /\ \E ms \in {<<>>, <<"auth">>} : up'[c] = ms \o listeners[c]
  BY <1>1, OpenKeeps DEF SessionInv
<1>3. UNCHANGED <<pageVars, seat, lobby, countVars, unsent>> /\ phase[c] = "connecting"
  BY <1>1 DEF Connects, serverVars, OnOpen
<1>4. PageInv'
  BY <1>3 DEF SessionInv, PageInv, PageTypes, DeclineTimerMatchesInvite, pageVars, countVars
<1>5. up[c] = <<>> /\ down[c] = <<>>
  BY <1>3 DEF SessionInv, SocketInv, Queues, NothingElsewhere
<1>6. PICK ms \in {<<>>, <<"auth">>} : up'[c] = ms \o listeners[c]
  BY <1>2
<1>7. /\ ms \in Seq(UpMsg) /\ NoLeave(ms)
      /\ listeners[c] \in Seq(UpMsg) /\ NoLeave(listeners[c])
      /\ listeners[c] # <<>> => AskStands(listeners[c])
  <2>1. listeners[c] \in Seq({"join"})
    BY DEF SessionInv, SocketInv, Queues
  <2>2. Seq({"join"}) \subseteq Seq(UpMsg)
    BY DEF UpMsg, SearchMsg
  <2>3. ASSUME NEW q \in Seq({"join"}) PROVE NoLeave(q) /\ (q # <<>> => AskStands(q))
    <3>1. \A k \in DOMAIN q : q[k] = "join"
      OBVIOUS
    <3>2. q # <<>> => 1 \in DOMAIN q
      OBVIOUS
    <3> QED BY <3>1, <3>2 DEF NoLeave, AskStands, SearchMsg, LeaveMsg
  <2>4. ms \in Seq(UpMsg) /\ NoLeave(ms)
    <3>1. <<"auth">> \in Seq(UpMsg) /\ DOMAIN <<"auth">> = {1} /\ <<"auth">>[1] = "auth"
      BY DEF UpMsg
    <3>2. NoLeave(<<"auth">>)
      BY <3>1 DEF NoLeave, LeaveMsg
    <3> QED BY <3>1, <3>2, Words
  <2> QED BY <2>1, <2>2, <2>3, <2>4
<1>8. Grounds => Grounds'
  <2>1. listeners[c] # <<>> => AskStands(up'[c])
    BY <1>6, <1>7, AskMore
  <2>2. NoLeave(up'[c])
    BY <1>6, <1>7, AskMore
  <2>3. ~AskStands(up[c]) /\ ~Ending(down[c])
    BY <1>5 DEF AskStands, Ending
  <2>4. HasPlace(cur) => HasPlace(cur)'
    BY <1>2, <1>3 DEF HasPlace
  <2> QED BY <1>2, <2>1, <2>2, <2>3, <2>4 DEF Grounds
<1>9. Founded'
  BY <1>3, <1>8 DEF SessionInv, Founded, Pending, pageVars, countVars
<1> QED BY <1>2, <1>4, <1>9 DEF SessionInv

\* A socket that goes takes the grounds of a search with it, and that is remembered.
LEMMA GroundsForgotten ==
    ASSUME SessionInv, cur # 0, SeatGone(cur)
    PROVE  /\ (forgotten \/ Grounds => forgotten') /\ forgotten' \in BOOLEAN
           /\ seat' \in [Socket -> {"idle", "queued", "room"}]
           /\ lobby' \in [Socket -> {"none", "lobby", "match"}]
<1>1. ASSUME Grounds PROVE forgotten'
  <2>1. AskStands(up[cur]) => up[cur] # <<>>
    BY DEF AskStands
  <2>2. Ending(down[cur]) => down[cur] # <<>>
    BY DEF Ending
  <2> QED BY <1>1, <2>1, <2>2 DEF Grounds, HasPlace, SeatGone
<1>2. forgotten' \in BOOLEAN /\ (forgotten => forgotten')
  BY DEF SeatGone
<1>3. /\ seat' \in [Socket -> {"idle", "queued", "room"}]
      /\ lobby' \in [Socket -> {"none", "lobby", "match"}]
  BY DEF SeatGone, SessionInv, PageInv, PageTypes
<1> QED BY <1>1, <1>2, <1>3

LEMMA LostKeeps ==
    ASSUME SessionInv, ConnectionLost
    PROVE  SessionInv'
<1>1. PICK c \in Socket : OnClose(c) /\ SeatGone(c)
  BY DEF ConnectionLost
<1>2. SocketInv' /\ c = cur /\ cur # 0
  BY <1>1, CloseKeeps, SocketFacts DEF SessionInv
<1>3. UNCHANGED <<pageVars, clicks, pushes, astray, unsent>>
  BY <1>1 DEF ConnectionLost, OnClose
<1>4. /\ (forgotten \/ Grounds => forgotten') /\ forgotten' \in BOOLEAN
      /\ seat' \in [Socket -> {"idle", "queued", "room"}]
      /\ lobby' \in [Socket -> {"none", "lobby", "match"}]
  BY <1>1, <1>2, GroundsForgotten
<1>5. PageInv'
  BY <1>3, <1>4 DEF SessionInv, PageInv, PageTypes, DeclineTimerMatchesInvite, pageVars
<1>6. Founded'
  BY <1>3, <1>4 DEF SessionInv, Founded, Pending, pageVars
<1> QED BY <1>2, <1>5, <1>6 DEF SessionInv

LEMMA AuthEffectKeeps ==
    ASSUME SessionInv, AuthEffect
    PROVE  SessionInv'
<1>1. SocketInv'
  BY AuthKeeps DEF SessionInv, AuthEffect
<1>2. UNCHANGED <<pageVars, clicks, pushes, astray, unsent>>
  BY DEF AuthEffect, ReconnectForAuthChange
<1>3. /\ (forgotten \/ Grounds => forgotten') /\ forgotten' \in BOOLEAN
      /\ seat' \in [Socket -> {"idle", "queued", "room"}]
      /\ lobby' \in [Socket -> {"none", "lobby", "match"}]
  <2>1. CASE cur # 0
    BY <2>1, GroundsForgotten DEF AuthEffect
  <2>2. CASE cur = 0
    BY <2>2 DEF AuthEffect, serverVars, Grounds, SessionInv, PageInv, PageTypes
  <2> QED BY <2>1, <2>2
<1>4. PageInv'
  BY <1>2, <1>3 DEF SessionInv, PageInv, PageTypes, DeclineTimerMatchesInvite, pageVars
<1>5. Founded'
  BY <1>2, <1>3 DEF SessionInv, Founded, Pending, pageVars
<1> QED BY <1>1, <1>4, <1>5 DEF SessionInv

LEMMA ReconnectsKeeps ==
    ASSUME SessionInv, Reconnects \/ SignsInOrOut
    PROVE  SessionInv'
<1>1. SocketInv'
  BY ReconnectKeeps, SwitchKeeps DEF SessionInv, Reconnects, SignsInOrOut
<1>2. UNCHANGED <<pageVars, seat, lobby, pushes, forgotten, astray, unsent, up, down, listeners>>
  BY DEF Reconnects, SignsInOrOut, Reconnect, SwitchIdentity, serverVars, countVars
<1>3. clicks' \in 0 .. MaxClicks
  <2>1. clicks' = clicks \/ (clicks < MaxClicks /\ clicks' = clicks + 1)
    BY DEF Reconnects, SignsInOrOut, countVars
  <2> QED BY <2>1, SessionBounds DEF SessionInv, PageInv, PageTypes
<1>4. PageInv'
  BY <1>2, <1>3 DEF SessionInv, PageInv, PageTypes, DeclineTimerMatchesInvite, pageVars
<1>5. cur # 0 => cur' = cur
  <2>1. CASE Reconnects
    BY <2>1, EnsureCore, UnsentTyped DEF Reconnects, Reconnect, SessionInv
  <2>2. CASE SignsInOrOut
    BY <2>2 DEF SignsInOrOut, SwitchIdentity
  <2> QED BY <2>1, <2>2
<1>6. Grounds => Grounds'
  BY <1>2, <1>5 DEF Grounds, HasPlace
<1>7. Founded'
  BY <1>2, <1>6 DEF SessionInv, Founded, Pending, pageVars
<1> QED BY <1>1, <1>4, <1>7 DEF SessionInv

\* What the server answers is in the vocabulary.
LEMMA Answers ==
    /\ \A m \in DownMsg : <<m>> \in Seq(DownMsg)
    /\ <<"created", "waiting", "group-local">> \in Seq(DownMsg)
    /\ <<"joined", "waiting", "group-local">> \in Seq(DownMsg)
    /\ <<"last-gone", "left">> \in Seq(DownMsg) /\ Ending(<<"last-gone", "left">>)
    /\ <<>> \in Seq(DownMsg)
<1>1. /\ "created" \in DownMsg /\ "waiting" \in DownMsg /\ "group-local" \in DownMsg
      /\ "joined" \in DownMsg /\ "last-gone" \in DownMsg /\ "left" \in DownMsg
  BY DEF DownMsg, EndMsg
<1>2. Ending(<<"last-gone", "left">>)
  <2> DEFINE q == <<"last-gone", "left">>
  <2>1. 2 \in DOMAIN q /\ q[2] = "left"
    OBVIOUS
  <2> HIDE DEF q
  <2>2. Ending(q)
    BY <2>1 DEF Ending, EndMsg
  <2> QED BY <2>2 DEF q
<1> QED BY <1>1, <1>2

\* The server answers on c: the grounds stay, or there are new ones.
LEMMA AnswerGrounds ==
    ASSUME SocketInv, NEW c \in Socket, c = cur, cur' = cur, listeners' = listeners,
           NEW ms \in Seq(DownMsg),
           down' = down \/ down' = [down EXCEPT ![c] = @ \o ms],
           up[c] # <<>>, up' = [up EXCEPT ![c] = Tail(@)],
           Head(up[c]) \in SearchMsg =>
             HasPlace(c)' \/ (Ending(ms) /\ down' = [down EXCEPT ![c] = @ \o ms]),
           Head(up[c]) \in {"auth", "decline"} => UNCHANGED <<seat, lobby>>,
           Grounds
    PROVE  Grounds'
<1>1. up[c] \in Seq(UpMsg) /\ down[c] \in Seq(DownMsg) /\ cur # 0
  BY DEF SocketInv, Queues, Grounds
<1>2. Head(up[c]) \in UpMsg /\ up'[c] = Tail(up[c]) /\ listeners'[c] = listeners[c]
  BY <1>1, HeadGone DEF SocketInv, Queues
<1>3. down'[c] = down[c] \/ down'[c] = down[c] \o ms
  BY DEF SocketInv, Queues
<1>4. down' = [down EXCEPT ![c] = @ \o ms] => down'[c] = down[c] \o ms
  BY DEF SocketInv, Queues
<1>5. CASE AskStands(up[c])
  <2>1. AskStands(up'[c]) \/ (Head(up[c]) \in SearchMsg /\ NoLeave(up'[c]))
    BY <1>1, <1>2, <1>5, AskTail
  <2>2. Ending(ms) => Ending(down[c] \o ms)
    BY <1>1, EndMore
  <2> QED BY <1>1, <1>4, <2>1, <2>2 DEF Grounds
<1>6. CASE listeners[c] # <<>>
  BY <1>1, <1>2, <1>6 DEF Grounds
<1>7. CASE HasPlace(c) /\ NoLeave(up[c])
  <2>1. Head(up[c]) \notin LeaveMsg /\ NoLeave(up'[c])
    BY <1>1, <1>2, <1>7, AskTail
  <2>2. Head(up[c]) \in SearchMsg \/ Head(up[c]) \in {"auth", "decline"}
    BY <1>2, <2>1 DEF UpMsg
  <2>3. Ending(ms) => Ending(down[c] \o ms)
    BY <1>1, EndMore
  <2>4. UNCHANGED <<seat, lobby>> => HasPlace(c)'
    BY <1>7 DEF HasPlace
  <2> QED BY <1>1, <1>4, <2>1, <2>2, <2>3, <2>4 DEF Grounds
<1>8. CASE Ending(down[c])
  <2>1. Ending(down'[c])
    BY <1>1, <1>3, <1>8, EndMore
  <2> QED BY <1>1, <2>1 DEF Grounds
<1> QED BY <1>5, <1>6, <1>7, <1>8 DEF Grounds

LEMMA HandlesKeeps ==
    ASSUME SessionInv, NEW c \in Socket, ServerHandles(c)
    PROVE  SessionInv'
<1> DEFINE m == Head(up[c])
           Said(ms) == down' = [down EXCEPT ![c] = @ \o ms]
<1>1. /\ up[c] # <<>> /\ up' = [up EXCEPT ![c] = Tail(@)]
      /\ UNCHANGED <<phase, cur, heart, reconnect, listeners, identity, upgrade, seen, unsent,
                     pageVars, countVars>>
  BY DEF ServerHandles
<1>2. phase[c] = "open" /\ c = cur
  BY <1>1, SocketFacts DEF SessionInv, SocketInv, Queues, NothingElsewhere
<1>3. \E ms \in Seq(DownMsg) :
        /\ down' = down \/ Said(ms)
        /\ m \in SearchMsg => HasPlace(c)' \/ (Ending(ms) /\ Said(ms))
        /\ m \in {"auth", "decline"} => UNCHANGED <<seat, lobby>>
  <2>0. /\ \A w \in DownMsg : <<w>> \in Seq(DownMsg)
        /\ Ending(<<"error">>) /\ "error" \in DownMsg /\ "waiting" \in DownMsg
        /\ "matched" \in DownMsg /\ "created" \in DownMsg
    BY Words, Answers DEF EndMsg, DownMsg
  <2>a. "leave" \notin SearchMsg /\ "gleave" \notin SearchMsg /\ "auth" \notin SearchMsg /\ "decline" \notin SearchMsg
    BY DEF SearchMsg
  <2>b. \A s \in {"queued", "room"} : \A l : Seated(c, s, l) => HasPlace(c)'
    BY DEF Seated, HasPlace, SessionInv, PageInv, PageTypes
  <2>c. \A l \in {"lobby", "match"} : \A s : Seated(c, s, l) => HasPlace(c)'
    BY DEF Seated, HasPlace, SessionInv, PageInv, PageTypes
  <2>1. CASE m \in {"auth", "decline"} /\ UNCHANGED <<serverVars, down>>
    BY <2>1, <2>a, Answers DEF serverVars
  <2>2. CASE m \in {"leave", "gleave"} /\ UNCHANGED down
    BY <2>2, <2>a, Answers
  <2>3. CASE Push(c, <<"error">>) /\ UNCHANGED serverVars
    <3> HIDE DEF m
    <3> QED BY <2>3, <2>0 DEF Push, serverVars
  <2>4. CASE m \in {"join", "next"} /\ Seated(c, "queued", "none") /\ Push(c, <<"waiting">>)
    BY <2>4, <2>0, <2>b DEF Push
  <2>5. CASE m \in {"join", "next"} /\ Seated(c, "room", "none") /\ Push(c, <<"matched">>)
    BY <2>5, <2>0, <2>b DEF Push
  <2>6. CASE m = "create" /\ Seated(c, "idle", "lobby") /\ Push(c, <<"created">>)
    BY <2>6, <2>0, <2>c DEF Push
  <2>7. CASE m = "invite" /\ Seated(c, seat[c], "lobby") /\ Push(c, <<"created">>)
    BY <2>7, <2>0, <2>c DEF Push
  <2>8. CASE m = "gjoin" /\ Seated(c, "idle", "match") /\ Push(c, <<"created", "waiting", "group-local">>)
    BY <2>8, <2>c, Answers DEF Push
  <2>9. CASE m = "start" /\ lobby[c] # "none" /\ Push(c, <<"waiting">>) /\ UNCHANGED serverVars
    <3>1. HasPlace(c)'
      BY <2>9 DEF HasPlace, serverVars
    <3> QED BY <2>9, <2>0, <3>1 DEF Push
  <2> QED BY <2>1, <2>2, <2>3, <2>4, <2>5, <2>6, <2>7, <2>8, <2>9 DEF ServerHandles
<1>4. PICK ms \in Seq(DownMsg) :
        /\ down' = down \/ Said(ms)
        /\ m \in SearchMsg => HasPlace(c)' \/ (Ending(ms) /\ Said(ms))
        /\ m \in {"auth", "decline"} => UNCHANGED <<seat, lobby>>
  BY <1>3
<1>5. SocketInv'
  BY <1>1, <1>2, <1>4, ServerSpeaks DEF SessionInv
<1>6. Grounds => Grounds'
  <2> SUFFICES ASSUME Grounds PROVE Grounds'
    OBVIOUS
  <2>1. SocketInv /\ cur' = cur /\ listeners' = listeners
    BY <1>1 DEF SessionInv
  <2>2. down' = down \/ down' = [down EXCEPT ![c] = @ \o ms]
    BY <1>4
  <2>3. Head(up[c]) \in SearchMsg => HasPlace(c)' \/ (Ending(ms) /\ down' = [down EXCEPT ![c] = @ \o ms])
    BY <1>4
  <2>4. Head(up[c]) \in {"auth", "decline"} => UNCHANGED <<seat, lobby>>
    BY <1>4
  <2>5. SocketInv
    BY <2>1
  <2>6. up[c] # <<>>
    BY <1>1
  <2>7. up' = [up EXCEPT ![c] = Tail(@)]
    BY <1>1
  <2>8. c = cur
    BY <1>2
  <2>9. cur' = cur
    BY <2>1
  <2>10. listeners' = listeners
    BY <2>1
  <2> HIDE DEF m, Said
  <2> QED
    BY ONLY <2>2, <2>3, <2>4, <2>5, <2>6, <2>7, <2>8, <2>9, <2>10, AnswerGrounds, Grounds,
            c \in Socket, ms \in Seq(DownMsg)
<1>7. /\ seat' \in [Socket -> {"idle", "queued", "room"}]
      /\ lobby' \in [Socket -> {"none", "lobby", "match"}]
  BY DEF ServerHandles, Seated, serverVars, SessionInv, PageInv, PageTypes
<1>8. PageInv'
  BY <1>1, <1>7 DEF SessionInv, PageInv, PageTypes, DeclineTimerMatchesInvite, pageVars, countVars
<1>9. Founded'
  BY <1>1, <1>6 DEF SessionInv, Founded, Pending, pageVars, countVars
<1> QED BY <1>5, <1>8, <1>9 DEF SessionInv

LEMMA PushKeeps ==
    ASSUME SessionInv, ServerPush
    PROVE  SessionInv'
<1>1. PICK c \in Socket : Open(c) /\ (ServerMatches(c) \/ ServerParts(c) \/ ServerNotes(c))
  BY DEF ServerPush
<1> DEFINE Said(ms) == down' = [down EXCEPT ![c] = @ \o ms]
<1>2. /\ UNCHANGED <<phase, cur, heart, reconnect, listeners, up, identity, upgrade, seen, unsent,
                     pageVars, clicks, forgotten, astray>>
      /\ pushes < MaxPushes /\ pushes' = pushes + 1
  BY DEF ServerPush
<1>3. phase[c] = "open" /\ c = cur /\ cur # 0
  BY <1>1, SocketFacts DEF SessionInv, Open
<1>4. \E ms \in Seq(DownMsg) : Said(ms) /\ (HasPlace(c)' \/ Ending(ms) \/ UNCHANGED <<seat, lobby>>)
  <2>0. /\ \A w \in DownMsg : <<w>> \in Seq(DownMsg)
        /\ \A w \in EndMsg : Ending(<<w>>) /\ w \in DownMsg
    BY Words DEF DownMsg
  <2>1. CASE ServerMatches(c)
    <3>1. CASE seat[c] = "queued" /\ Seated(c, "room", lobby[c]) /\ Push(c, <<"matched">>)
      BY <3>1, <2>0 DEF Push, EndMsg
    <3>2. CASE lobby[c] = "lobby" /\ Seated(c, "idle", "match") /\ Push(c, <<"joined", "waiting", "group-local">>)
      <4>1. HasPlace(c)'
        BY <3>2 DEF Seated, HasPlace, SessionInv, PageInv, PageTypes
      <4> QED BY <3>2, <4>1, Answers DEF Push
    <3>3. CASE lobby[c] = "match" /\ Push(c, <<"group-both">>) /\ UNCHANGED serverVars
      BY <3>3, <2>0 DEF Push, EndMsg
    <3> QED BY <2>1, <3>1, <3>2, <3>3 DEF ServerMatches
  <2>2. CASE ServerParts(c)
    <3>1. CASE \E r \in {"left", "left-blocked", "left-invited"} : Push(c, <<r>>)
      BY <3>1, <2>0 DEF Push, EndMsg
    <3>2. CASE Push(c, <<"last-gone", "left">>)
      BY <3>2, Answers DEF Push
    <3>3. CASE Push(c, <<"invite-declined">>)
      BY <3>3, <2>0 DEF Push, EndMsg
    <3> QED BY <2>2, <3>1, <3>2, <3>3 DEF ServerParts
  <2>3. CASE ServerNotes(c)
    <3>1. PICK w \in {"error", "draining", "invited1", "invited2"} : Push(c, <<w>>)
      BY <2>3 DEF ServerNotes
    <3>2. w \in DownMsg
      BY DEF DownMsg, EndMsg
    <3> QED BY <2>0, <2>3, <3>1, <3>2 DEF ServerNotes, Push, serverVars
  <2> QED BY <1>1, <2>1, <2>2, <2>3
<1>5. PICK ms \in Seq(DownMsg) : Said(ms) /\ (HasPlace(c)' \/ Ending(ms) \/ UNCHANGED <<seat, lobby>>)
  BY <1>4
<1>6. SocketInv'
  BY <1>2, <1>3, <1>5, ServerSpeaks DEF SessionInv
<1>7. Grounds => Grounds'
  <2> SUFFICES ASSUME Grounds PROVE Grounds'
    OBVIOUS
  <2>1. down[c] \in Seq(DownMsg) /\ down'[c] = down[c] \o ms
    BY <1>5 DEF SessionInv, SocketInv, Queues
  <2>2. (Ending(down[c]) => Ending(down'[c])) /\ (Ending(ms) => Ending(down'[c]))
    BY <2>1, EndMore
  <2>3. UNCHANGED <<seat, lobby>> /\ HasPlace(c) => HasPlace(c)'
    BY DEF HasPlace
  <2> QED BY <1>2, <1>3, <1>5, <2>2, <2>3 DEF Grounds
<1>8. /\ seat' \in [Socket -> {"idle", "queued", "room"}]
      /\ lobby' \in [Socket -> {"none", "lobby", "match"}]
      /\ pushes' \in 0 .. MaxPushes
  <2>1. pushes' \in 0 .. MaxPushes
    BY <1>2, SessionBounds DEF SessionInv, PageInv, PageTypes
  <2>2. /\ seat' \in [Socket -> {"idle", "queued", "room"}]
        /\ lobby' \in [Socket -> {"none", "lobby", "match"}]
    BY <1>1 DEF ServerMatches, ServerParts, ServerNotes, Seated, serverVars, SessionInv, PageInv, PageTypes
  <2> QED BY <2>1, <2>2
<1>9. PageInv'
  BY <1>2, <1>8 DEF SessionInv, PageInv, PageTypes, DeclineTimerMatchesInvite, pageVars
<1>10. Founded'
  BY <1>2, <1>7 DEF SessionInv, Founded, Pending, pageVars
<1> QED BY <1>6, <1>9, <1>10 DEF SessionInv

LEMMA SessionStarts == SessionInit => SessionInv
<1> SUFFICES ASSUME SessionInit PROVE SessionInv
  OBVIOUS
<1>1. SocketInv
  BY SocketStarts DEF SessionInit
<1>2. PageTypes
  <2>1. 0 \in 0..MaxClicks /\ 0 \in 0..MaxPushes
    BY SessionBounds
  <2>2. /\ seat \in [Socket -> {"idle", "queued", "room"}]
        /\ lobby \in [Socket -> {"none", "lobby", "match"}]
    BY DEF SessionInit
  <2>3. /\ finding = FALSE /\ matched = FALSE /\ inGroup = FALSE /\ tiles = "none"
        /\ accepting = FALSE /\ live = FALSE /\ coming = {} /\ beginning = "none"
        /\ requeue = FALSE /\ redo = FALSE /\ invite = 0 /\ decline = 0 /\ inviting = FALSE
        /\ clicks = 0 /\ pushes = 0 /\ forgotten = FALSE /\ astray = FALSE
    BY DEF SessionInit
  <2>4. /\ tiles \in {"none", "local", "both"} /\ coming \subseteq {"solo", "mesh"}
        /\ invite \in InviteRoom \cup {0} /\ decline \in InviteRoom \cup {0}
        /\ clicks \in 0 .. MaxClicks /\ pushes \in 0 .. MaxPushes
    BY <2>1, <2>3
  <2>5. beginning \in Beginning
    BY <2>3 DEF Beginning
  <2> QED BY <2>2, <2>3, <2>4, <2>5 DEF PageTypes
<1>3. DeclineTimerMatchesInvite /\ Founded
  BY DEF SessionInit, DeclineTimerMatchesInvite, Founded
<1> QED BY <1>1, <1>2, <1>3 DEF SessionInv, PageInv

LEMMA SessionStep == SessionInv /\ [SessionNext]_sessionVars => SessionInv'
<1> SUFFICES ASSUME SessionInv, [SessionNext]_sessionVars PROVE SessionInv'
  OBVIOUS
<1>1. CASE User
  BY <1>1, UserKeeps
<1>2. CASE Page
  BY <1>2, PageKeeps
<1>3. CASE Network
  BY <1>3, ConnectsKeeps, ReconnectsKeeps, AuthEffectKeeps, HandlesKeeps DEF Network
<1>4. CASE ServerPush
  BY <1>4, PushKeeps
<1>5. CASE ConnectionLost
  BY <1>5, LostKeeps
<1>6. CASE SignsInOrOut
  BY <1>6, ReconnectsKeeps
<1>7. CASE UNCHANGED sessionVars
  <2>1. UNCHANGED <<socketVars, seat, lobby, pageVars, countVars>>
    BY <1>7 DEF sessionVars, serverVars
  <2>2. SocketInv' /\ unsent' = unsent /\ (Grounds => Grounds')
    BY <2>1, SocketStill DEF SessionInv
  <2> QED BY <2>1, <2>2 DEF SessionInv, PageInv, PageTypes, DeclineTimerMatchesInvite, Founded, Pending,
                            pageVars, countVars
<1> QED BY <1>1, <1>2, <1>3, <1>4, <1>5, <1>6, <1>7 DEF SessionNext

\* What the invariant says of the properties.
LEMMA SessionMeans ==
    ASSUME SessionInv
    PROVE  /\ SessionTypeOK /\ OneLiveSocket /\ SocketHasIdentity
           /\ SearchIsReal /\ DeclineTimerMatchesInvite
<1>1. SocketTypeOK
  BY DEF SessionInv, SocketInv, SocketCore, Queues, NothingElsewhere, SocketTypeOK
<1>2. SessionTypeOK
  BY <1>1 DEF SessionInv, PageInv, PageTypes, SessionTypeOK
<1>3. OneLiveSocket /\ SocketHasIdentity /\ DeclineTimerMatchesInvite
  BY DEF SessionInv, SocketInv, SocketCore, PageInv, OneLiveSocket, SocketHasIdentity, Live
<1>4. SearchIsReal
  <2> SUFFICES ASSUME Settled, finding, ~matched, ~forgotten, ~unsent, ~astray
               PROVE  seat[cur] \in {"queued", "room"} \/ lobby[cur] # "none"
    BY DEF SearchIsReal
  <2>1. Grounds
    BY DEF SessionInv, Founded, Pending, Settled
  <2>2. ~AskStands(up[cur]) /\ ~Ending(down[cur])
    BY DEF Settled, AskStands, Ending
  <2>3. cur \in Socket /\ listeners[cur] = <<>>
    BY SocketFacts DEF Settled, Open, SessionInv, SocketInv, Queues, NothingElsewhere
  <2>4. HasPlace(cur)
    BY <2>1, <2>2, <2>3 DEF Grounds
  <2> QED BY <2>3, <2>4 DEF HasPlace, SessionInv, PageInv, PageTypes
<1> QED BY <1>2, <1>3, <1>4

-----------------------------------------------------------------------------
(* The session in the specification that composes the four scenes: a step  *)
(* of it is a step of the session or leaves the session's variables alone. *)

LEMMA CallsStepOfSession ==
    ASSUME [CallsNext]_callsVars
    PROVE  [SessionNext]_sessionVars
BY DEF CallsNext, callsVars, Solo, Mesh, Session, Bridge

LEMMA SessionInvariant == CallsSpec => []SessionInv
<1>1. CallsInit => SessionInv
  BY SessionStarts DEF CallsInit
<1>2. SessionInv /\ [CallsNext]_callsVars => SessionInv'
  BY CallsStepOfSession, SessionStep
<1> QED BY <1>1, <1>2, PTL DEF CallsSpec

\* One socket is alive, it is the current one, and the present identity opened it,
\* however closing, reconnecting, joining and signing in interleave
\* (matchSocket.ts:49-262), for any bound on clicks, pushes and sockets.
THEOREM SocketsAgreeAlways == CallsSpec => []SocketsAgree
<1>1. SessionInv => SocketsAgree
  BY SessionMeans DEF SocketsAgree
<1> QED BY <1>1, SessionInvariant, PTL

\* A search the page shows stands in a queue or a group of the server, but for the
\* losses SearchIsReal names, and the timer that declines belongs to the invitation
\* shown (useMatchSession.ts).
THEOREM SessionIsTrueAlways == CallsSpec => []SessionIsTrue
<1>1. SessionInv => SessionIsTrue
  BY SessionMeans DEF SessionIsTrue
<1> QED BY <1>1, SessionInvariant, PTL

\* The three ways to lose a connection of the page that a group's search could take:
\* the leave of the user or of the last member, and a lost peer, none of which is
\* a queue:waiting or asks for another match.
LEMMA SearchKeepsCall ==
    ASSUME SessionInv, [SessionNext]_sessionVars, GroupSearching, live, ~live'
    PROVE  ~Consumed("waiting") /\ ~Requested("start")
<1> SUFFICES ASSUME Open(cur) PROVE ~Consumed("waiting") /\ ~Requested("start")
  BY DEF Consumed, Requested
<1>1. /\ cur \in Socket /\ up[cur] \in Seq(UpMsg) /\ down[cur] \in Seq(DownMsg)
  BY SocketFacts DEF Open, SessionInv, SocketInv, Queues
<1>2. up'[cur] = up[cur] => ~Requested("start")
  <2>1. Len(Append(up[cur], "start")) # Len(up[cur])
    BY <1>1
  <2> QED BY <2>1 DEF Requested
<1>3. down'[cur] = down[cur] => ~Consumed("waiting")
  <2>1. down[cur] # <<>> => Len(Tail(down[cur])) # Len(down[cur])
    BY <1>1
  <2> QED BY <2>1 DEF Consumed
<1>4. \A a \in UpMsg : up'[cur] = up[cur] \o <<"leave", a>> => ~Requested("start")
  <2>1. \A a \in UpMsg : <<"leave", a>> \in Seq(UpMsg)
    BY DEF UpMsg, SearchMsg, LeaveMsg
  <2>2. \A a \in UpMsg : Len(up[cur] \o <<"leave", a>>) = Len(up[cur]) + 2
    BY <1>1, <2>1
  <2>3. Len(Append(up[cur], "start")) = Len(up[cur]) + 1 /\ Len(up[cur]) \in Nat
    BY <1>1
  <2> QED BY <2>2, <2>3 DEF Requested
<1>5. \A m : Taking(m) /\ m # "waiting" => ~Consumed("waiting")
  BY DEF Taking, Consumed
<1>6. \A a \in {"gleave", "gjoin"} : up' = Sent(<<"leave", a>>) => ~Requested("start")
  <2> SUFFICES ASSUME NEW a \in {"gleave", "gjoin"}, up' = Sent(<<"leave", a>>) PROVE ~Requested("start")
    OBVIOUS
  <2>1. up'[cur] = up[cur] \o <<"leave", a>>
    BY <1>1 DEF Sent, SessionInv, SocketInv, Queues
  <2>2. a \in UpMsg
    BY DEF UpMsg, SearchMsg, LeaveMsg
  <2> QED BY <2>1, <2>2, <1>4
<1>7. CASE User
  <2>1. CASE Stop
    <3>1. up' = Sent(<<"leave", "gleave">>) /\ down' = down
      BY <2>1 DEF Stop, JustSend
    <3> QED BY <3>1, <1>3, <1>6
  <2>2. CASE AcceptGroupInvite
    <3>1. up' = Sent(<<"leave", "gjoin">>) /\ down' = down
      BY <2>2 DEF AcceptGroupInvite
    <3> QED BY <3>1, <1>3, <1>6
  <2>3. CASE NextPeer
    BY <2>3 DEF NextPeer
  <2>4. CASE Begin
    BY <2>4 DEF Begin
  <2>5. CASE InvitePeerToGroup \/ DeclineGroupInvite
    BY <2>5 DEF InvitePeerToGroup, DeclineGroupInvite
  <2> QED BY <1>7, <2>1, <2>2, <2>3, <2>4, <2>5 DEF User
<1>8. CASE Page
  <2>1. CASE OnWaiting
    BY <2>1 DEF OnWaiting, GroupSearching
  <2>2. CASE OnRoomPeerLeft
    <3>1. PICK r \in {"left", "left-blocked", "left-invited"} : Taking(r) /\ up' = up
      BY <2>2 DEF OnRoomPeerLeft
    <3> QED BY <3>1, <1>2, <1>5
  <2>3. CASE OnDraining
    <3>1. Taking("draining") /\ up' = up
      BY <2>3 DEF OnDraining, Quiet
    <3> QED BY <3>1, <1>2, <1>5
  <2>4. CASE OnParticipantLeft
    <3>1. Taking("last-gone") /\ up' = Sent(<<"leave", "gleave">>)
      BY <2>4 DEF OnParticipantLeft
    <3> QED BY <3>1, <1>5, <1>6
  <2>5. CASE OnRoomMatched \/ OnGroupMatchMatched \/ OnError \/ OnGroupMatchCreated
    BY <2>5 DEF OnRoomMatched, OnGroupMatchMatched, OnError, OnGroupMatchCreated
  <2>6. CASE OnParticipantJoined \/ OnInviteReceived \/ OnInviteDeclined
    BY <2>6 DEF OnParticipantJoined, OnInviteReceived, OnInviteDeclined
  <2>7. CASE MatchComes \/ Requeue \/ DeclineTimeout \/ InvitingTimeout
    BY <2>7 DEF MatchComes, Requeue, DeclineTimeout, InvitingTimeout
  <2>8. CASE Redo \/ Begun \/ BeginFails
    BY <2>8 DEF Redo, Begun, BeginFails
  <2> QED BY <1>8, <2>1, <2>2, <2>3, <2>4, <2>5, <2>6, <2>7, <2>8 DEF Page, Messages
<1>9. CASE Network \/ ServerPush \/ ConnectionLost \/ SignsInOrOut \/ UNCHANGED sessionVars
  BY <1>9 DEF Network, Connects, Reconnects, AuthEffect, ServerHandles, ServerPush, ConnectionLost,
              SignsInOrOut, sessionVars, pageVars
<1> QED BY <1>7, <1>8, <1>9 DEF SessionNext

\* A group that stands and searches keeps its call: no queue:waiting closes its
\* connections, and next() does not ask for a match it is looking for already.
THEOREM SearchingGroupKeepsItsCall == CallsSpec => SearchingGroupKeepsCall
<1>1. SessionInv /\ [CallsNext]_callsVars
        => [GroupSearching /\ live /\ ~live' => ~Consumed("waiting") /\ ~Requested("start")]_sessionVars
  BY CallsStepOfSession, SearchKeepsCall
<1> QED BY <1>1, SessionInvariant, PTL DEF CallsSpec, SearchingGroupKeepsCall
-----------------------------------------------------------------------------
(* The 1:1 call.  The numbers an end handles exist: its own connections are *)
(* in pcs[e], those of the other end in pcs[Far(e)].                        *)

SoloTypes ==
  /\ call \in [End -> {"waiting", "in", "left"}]
  /\ stream \in [End -> BOOLEAN]
  /\ tasks \in [End -> SUBSET Task]
  /\ pc \in [End -> Nat]
  /\ pcs \in [End -> Seq(Pc)]
  /\ pending \in [End -> SUBSET PcId]
  /\ ready \in [End -> BOOLEAN]
  /\ signals \in [End -> Seq(Signal)]
  /\ creates \in [End -> Nat]
  /\ refused \in [End -> BOOLEAN] /\ late \in [End -> BOOLEAN]
  /\ restarts \in 0 .. MaxRestarts

OwnNumbers(e) ==
  /\ Len(pcs[e]) <= MaxPcs /\ pc[e] <= Len(pcs[e])
  /\ pc[e] # 0 => pcs[e][pc[e]].open
  /\ \A t \in tasks[e] : t.pc <= Len(pcs[e])

FarNumbers(e, far) ==
  /\ \A t \in tasks[e] : t.sdp <= far
  /\ \A i \in pending[e] : i <= far
  /\ \A n \in DOMAIN signals[e] : signals[e][n].pc <= far
  /\ \A i \in DOMAIN pcs[e] : pcs[e][i].remote <= far

\* Creating(e): createPeer is on its way to its connection
Creating(e) == {t \in tasks[e] : t.stage = "ice"}

\* One run of createPeer makes one connection, which soloPcRef holds until the
\* end leaves the call.
OneRun(e) ==
  /\ creates[e] = 0 => Creating(e) = {} /\ pcs[e] = <<>> /\ ~ready[e]
  /\ creates[e] = 1 =>
       \/ pcs[e] = <<>> /\ ~ready[e] /\ \A t, u \in Creating(e) : t = u
       \/ /\ Len(pcs[e]) = 1 /\ Creating(e) = {}
          /\ pc[e] = 1 \/ (call[e] = "left" /\ ~pcs[e][1].open)
          /\ ready[e] => pcs[e][1].remote # 0

\* An end that left and was not creating a connection holds none.
Gone(e) == call[e] = "left" /\ ~late[e] => Matching(e) = {} /\ pc[e] = 0

Waits(e, kind) == \E n \in DOMAIN signals[e] : signals[e][n].kind = kind

\* Before an end has run createPeer, a candidate for it stands behind an offer.
OfferFirst(e) ==
  creates[e] = 0 /\ ~refused[e] /\ call[e] # "left" =>
    /\ \A n \in DOMAIN signals[e] : signals[e][n].kind = "candidate" =>
         \E m \in DOMAIN signals[e] : m < n /\ signals[e][m].kind = "offer"
    /\ call[Far(e)] # "left" /\ (\E i \in DOMAIN pcs[Far(e)] : pcs[Far(e)][i].gather)
         => Waits(e, "offer")

Emitted(e, f) ==
  /\ call[e] # "left" /\ call[f] # "left"
  /\ creates[e] < 2 /\ creates[f] = 1 /\ restarts = 0 /\ ~refused[e]
  /\ pc[f] # 0 /\ HasLocal(pcs[f][1])

\* The candidates of the other end's connection are still to come, on their
\* way, kept, or added.
Followed(e, f) ==
  \/ pcs[f][1].gather
  \/ Waits(e, "candidate")
  \/ creates[e] = 1 /\ (1 \in pending[e] \/ (pcs[e] # <<>> /\ 1 \in pcs[e][1].cands))

SoloEnd(e) ==
  /\ OwnNumbers(e) /\ FarNumbers(e, Len(pcs[Far(e)])) /\ OneRun(e) /\ Gone(e)
  /\ OfferFirst(e) /\ (Emitted(e, Far(e)) => Followed(e, Far(e)))

SoloInv == SoloTypes /\ \A e \in End : SoloEnd(e)

\* What an action of e does to the other end f: it sends at most one signal.
Apart(f) ==
  /\ call'[f] = call[f] /\ tasks'[f] = tasks[f] /\ pc'[f] = pc[f] /\ pcs'[f] = pcs[f]
  /\ pending'[f] = pending[f] /\ ready'[f] = ready[f] /\ creates'[f] = creates[f]
  /\ refused'[f] = refused[f] /\ late'[f] = late[f]

Sends(e, f) ==
  \/ signals'[f] = signals[f]
  \/ \E s \in Signal :
       /\ signals'[f] = Append(signals[f], s) /\ s.pc <= Len(pcs[e])
       /\ s.kind = "candidate" => call[e] # "left" /\ \E i \in DOMAIN pcs[e] : pcs[e][i].gather

Gathers(e) == \E i \in DOMAIN pcs[e] : pcs[e][i].gather

Leaves(e, f) ==
  /\ Apart(f) /\ Sends(e, f)
  /\ Len(pcs'[e]) >= Len(pcs[e])
  /\ call'[e] # "left" => call[e] # "left"
  /\ call'[e] # "left" /\ Gathers(e)'
       => Gathers(e) \/ Waits(f, "offer")' \/ creates[f] > 0 \/ call[f] = "left"
  /\ Emitted(f, e)' => \/ pcs'[e][1].gather
                       \/ Emitted(f, e) /\ (pcs[e][1].gather => Waits(f, "candidate")')

\* What an action of e does to its own signals.
Listens(e) ==
  \/ signals'[e] = signals[e]
  \/ /\ signals[e] # <<>> /\ signals'[e] = Tail(signals[e])
     /\ Head(signals[e]).kind = "offer" => creates'[e] # 0 \/ refused'[e] \/ call'[e] = "left"

LEMMA Ends ==
    ASSUME NEW e \in End
    PROVE  /\ Far(e) \in End /\ Far(e) # e /\ Far(Far(e)) = e
           /\ \A g \in End : g = e \/ g = Far(e)
<1>1. "offerer" # "answerer"
  OBVIOUS
<1>2. \A g \in End : \E h \in End : h # g
  BY <1>1 DEF End
<1>3. \A g \in End : Far(g) \in End /\ Far(g) # g
  BY <1>2 DEF Far
<1> QED BY <1>3 DEF End

\* The shapes of a task.
LEMMA TaskShape ==
    ASSUME NEW t \in Task
    PROVE  /\ t.pc \in Nat /\ t.sdp \in Nat
           /\ t.stage \in {"prepare", "ice"} => t.pc = 0
           /\ t.stage \in {"offering", "remote", "answering"} => t.pc \in PcId
           /\ t.stage \in {"prepare", "ice", "offering", "remote", "answering"}
           /\ t.kind = "offer" \/ t.stage = "remote" => t.sdp \in PcId
           /\ t.kind = "offer" => t.stage \in {"ice", "remote", "answering"}
           /\ t.kind = "matched" => t.stage \in {"prepare", "ice", "offering"} /\ t.sdp = 0
           /\ t.stage = "answering" => t.kind = "offer"
           /\ t.stage = "offering" => t.kind = "matched"
           /\ t.kind \in {"matched", "offer", "answer"}
<1>1. PcId \subseteq Nat
  BY SoloBounds DEF PcId
<1>2. CASE t \in [kind : {"matched"}, stage : {"prepare", "ice"}, pc : {0}, sdp : {0}]
  BY <1>2
<1>3. CASE t \in [kind : {"matched"}, stage : {"offering"}, pc : PcId, sdp : {0}]
  <2>1. t.kind = "matched" /\ t.stage = "offering" /\ t.pc \in PcId /\ t.sdp = 0
    BY <1>3
  <2>2. t.pc \in Nat
    BY <1>1, <2>1
  <2>3. t.sdp \in Nat
    BY <1>1, <2>1
  <2> QED BY <2>1, <2>2, <2>3
<1>4. CASE t \in [kind : {"offer"}, stage : {"ice"}, pc : {0}, sdp : PcId]
  <2>1. t.kind = "offer" /\ t.stage = "ice" /\ t.pc = 0 /\ t.sdp \in PcId
    BY <1>4
  <2>2. t.pc \in Nat
    BY <1>1, <2>1
  <2>3. t.sdp \in Nat
    BY <1>1, <2>1
  <2> QED BY <2>1, <2>2, <2>3
<1>5. CASE t \in [kind : {"offer"}, stage : {"remote", "answering"}, pc : PcId, sdp : PcId]
  BY <1>1, <1>5
<1>6. CASE t \in [kind : {"answer"}, stage : {"remote"}, pc : PcId, sdp : PcId]
  BY <1>1, <1>6
<1> QED BY <1>2, <1>3, <1>4, <1>5, <1>6 DEF Task

\* A task moves from stage to stage.
LEMMA TaskMoves ==
    ASSUME NEW t \in Task
    PROVE  /\ t.kind = "matched" /\ t.stage = "prepare" => [t EXCEPT !.stage = "ice"] \in Task
           /\ t.stage = "ice" /\ t.kind = "offer" =>
                \A n \in PcId : [t EXCEPT !.stage = "remote", !.pc = n] \in Task
           /\ t.stage = "ice" /\ t.kind # "offer" =>
                \A n \in PcId : [t EXCEPT !.stage = "offering", !.pc = n] \in Task
           /\ t.stage = "remote" /\ t.kind = "offer" => [t EXCEPT !.stage = "answering"] \in Task
BY DEF Task

LEMMA TaskMade ==
    ASSUME NEW n \in PcId, NEW m \in PcId
    PROVE  /\ [kind |-> "matched", stage |-> "prepare", pc |-> 0, sdp |-> 0] \in Task
           /\ [kind |-> "matched", stage |-> "offering", pc |-> n, sdp |-> 0] \in Task
           /\ [kind |-> "offer", stage |-> "ice", pc |-> 0, sdp |-> m] \in Task
           /\ [kind |-> "offer", stage |-> "remote", pc |-> n, sdp |-> m] \in Task
           /\ [kind |-> "answer", stage |-> "remote", pc |-> n, sdp |-> m] \in Task
BY DEF Task

LEMMA SignalShape ==
    ASSUME NEW s \in Signal
    PROVE  /\ s.pc \in Nat
           /\ s.kind \in {"offer", "answer", "candidate"} => s.pc \in PcId
<1>1. PcId \subseteq Nat
  BY SoloBounds DEF PcId
<1>2. CASE s \in [kind : {"matched", "left"}, pc : {0}, of : {0}]
  BY <1>2
<1>3. CASE s \in [kind : {"offer", "candidate"}, pc : PcId, of : {0}]
  BY <1>1, <1>3
<1>4. CASE s \in [kind : {"answer"}, pc : PcId, of : PcId]
  BY <1>1, <1>4
<1> QED BY <1>2, <1>3, <1>4 DEF Signal

LEMMA SignalMade ==
    ASSUME NEW n \in PcId, NEW m \in PcId
    PROVE  /\ [kind |-> "offer", pc |-> n, of |-> 0] \in Signal
           /\ [kind |-> "candidate", pc |-> n, of |-> 0] \in Signal
           /\ [kind |-> "answer", pc |-> n, of |-> m] \in Signal
           /\ [kind |-> "left", pc |-> 0, of |-> 0] \in Signal
           /\ [kind |-> "matched", pc |-> 0, of |-> 0] \in Signal
BY DEF Signal

LEMMA AppendedIs ==
    ASSUME NEW V, NEW q \in Seq(V), NEW v \in V
    PROVE  /\ Append(q, v) \in Seq(V)
           /\ DOMAIN Append(q, v) = DOMAIN q \cup {Len(q) + 1}
           /\ Append(q, v)[Len(q) + 1] = v
           /\ \A n \in DOMAIN q : /\ n \in DOMAIN Append(q, v) /\ Append(q, v)[n] = q[n]
                                  /\ n < Len(q) + 1
OBVIOUS

\* The other end of an action.
LEMMA OtherEnd ==
    ASSUME SoloInv, SoloTypes', NEW e \in End, NEW f \in End, f = Far(e), e = Far(f), e # f,
           Leaves(e, f)
    PROVE  SoloEnd(f)'
<1>1. SoloEnd(f) /\ SoloEnd(e)
  BY DEF SoloInv
<1>2. /\ signals[f] \in Seq(Signal) /\ signals'[f] \in Seq(Signal)
      /\ pcs[e] \in Seq(Pc) /\ pcs'[e] \in Seq(Pc) /\ pcs[f] \in Seq(Pc)
      /\ creates[f] \in Nat /\ tasks[f] \subseteq Task /\ pending[f] \subseteq PcId
  BY DEF SoloInv, SoloTypes
<1>3. OwnNumbers(f)' /\ OneRun(f)' /\ Gone(f)'
  BY <1>1 DEF SoloEnd, OwnNumbers, OneRun, Gone, Leaves, Apart, Creating, Matching
<1>4. FarNumbers(f, Len(pcs[e]))'
  <2>1. \A n \in DOMAIN signals'[f] : signals'[f][n].pc <= Len(pcs'[e])
    <3>1. CASE signals'[f] = signals[f]
      BY <3>1, <1>1, <1>2, SignalShape DEF SoloEnd, FarNumbers, Leaves
    <3>2. CASE signals'[f] # signals[f]
      <4>1. PICK s \in Signal : signals'[f] = Append(signals[f], s) /\ s.pc <= Len(pcs[e])
        BY <3>2 DEF Leaves, Sends
      <4>2. \A n \in DOMAIN signals'[f] : signals'[f][n] \in Signal /\
               (signals'[f][n] = s \/ (n \in DOMAIN signals[f] /\ signals'[f][n] = signals[f][n]))
        BY <4>1, <1>2, AppendedIs
      <4>3. \A n \in DOMAIN signals'[f] : signals'[f][n].pc \in Nat /\ signals'[f][n].pc <= Len(pcs[e])
        BY <4>1, <4>2, <1>1, <1>2, SignalShape DEF SoloEnd, FarNumbers
      <4>4. Len(pcs[e]) \in Nat /\ Len(pcs'[e]) \in Nat /\ Len(pcs[e]) <= Len(pcs'[e])
        BY <1>2 DEF Leaves
      <4> QED BY <4>3, <4>4
    <3> QED BY <3>1, <3>2
  <2>2. \A t \in tasks[f] : t.sdp <= Len(pcs'[e])
    BY <1>1, <1>2, TaskShape DEF SoloEnd, FarNumbers, Leaves
  <2>3. \A i \in pending[f] : i <= Len(pcs'[e])
    BY <1>1, <1>2 DEF SoloEnd, FarNumbers, Leaves, PcId
  <2>4. \A i \in DOMAIN pcs[f] : pcs[f][i].remote <= Len(pcs'[e])
    <3>1. \A i \in DOMAIN pcs[f] : pcs[f][i].remote \in Nat
      <4>1. \A i \in DOMAIN pcs[f] : pcs[f][i] \in Pc
        BY <1>2
      <4>2. \A p \in Pc : p.remote \in Nat
        BY SoloBounds DEF Pc
      <4> QED BY <4>1, <4>2
    <3> QED BY <3>1, <1>1, <1>2 DEF SoloEnd, FarNumbers, Leaves
  <2> QED BY <2>1, <2>2, <2>3, <2>4 DEF FarNumbers, Leaves, Apart
<1>5. OfferFirst(f)'
  <2> SUFFICES ASSUME creates[f] = 0, ~refused[f], call[f] # "left"
               PROVE  /\ \A n \in DOMAIN signals'[f] : signals'[f][n].kind = "candidate" =>
                           \E m \in DOMAIN signals'[f] : m < n /\ signals'[f][m].kind = "offer"
                      /\ call'[e] # "left" /\ Gathers(e)' => Waits(f, "offer")'
    BY DEF OfferFirst, Leaves, Apart, Gathers
  <2>1. /\ \A n \in DOMAIN signals[f] : signals[f][n].kind = "candidate" =>
             \E m \in DOMAIN signals[f] : m < n /\ signals[f][m].kind = "offer"
        /\ call[e] # "left" /\ Gathers(e) => Waits(f, "offer")
    BY <1>1 DEF SoloEnd, OfferFirst, Gathers
  <2>2. CASE signals'[f] = signals[f]
    BY <2>1, <2>2 DEF Leaves, Waits
  <2>3. CASE signals'[f] # signals[f]
    <3>1. PICK s \in Signal :
            /\ signals'[f] = Append(signals[f], s)
            /\ s.kind = "candidate" => call[e] # "left" /\ Gathers(e)
      BY <2>3 DEF Leaves, Sends, Gathers
    <3>2. /\ DOMAIN signals'[f] = DOMAIN signals[f] \cup {Len(signals[f]) + 1}
          /\ signals'[f][Len(signals[f]) + 1] = s
          /\ \A n \in DOMAIN signals[f] : signals'[f][n] = signals[f][n] /\ n < Len(signals[f]) + 1
      BY <3>1, <1>2, AppendedIs
    <3>3. Waits(f, "offer") => \E m \in DOMAIN signals[f] :
                                 m < Len(signals[f]) + 1 /\ signals'[f][m].kind = "offer"
      BY <3>2 DEF Waits
    <3>4. \A n \in DOMAIN signals'[f] : signals'[f][n].kind = "candidate" =>
             \E m \in DOMAIN signals'[f] : m < n /\ signals'[f][m].kind = "offer"
      <4> SUFFICES ASSUME NEW n \in DOMAIN signals'[f], signals'[f][n].kind = "candidate"
                   PROVE  \E m \in DOMAIN signals'[f] : m < n /\ signals'[f][m].kind = "offer"
        OBVIOUS
      <4>1. CASE n \in DOMAIN signals[f]
        BY <4>1, <2>1, <3>2
      <4>2. CASE n = Len(signals[f]) + 1
        BY <4>2, <2>1, <3>1, <3>2, <3>3
      <4> QED BY <4>1, <4>2, <3>2
    <3>5. Waits(f, "offer") => Waits(f, "offer")'
      BY <3>2 DEF Waits
    <3> QED BY <2>1, <3>4, <3>5 DEF Leaves
  <2> QED BY <2>2, <2>3
<1>6. Emitted(f, e)' => Followed(f, e)'
  <2> SUFFICES ASSUME Emitted(f, e)', ~pcs'[e][1].gather PROVE Followed(f, e)'
    BY DEF Followed
  <2>1. Emitted(f, e) /\ (pcs[e][1].gather => Waits(f, "candidate")')
    BY DEF Leaves
  <2>2. Followed(f, e)
    BY <2>1, <1>1 DEF SoloEnd
  <2>3. Waits(f, "candidate") => Waits(f, "candidate")'
    <3>1. CASE signals'[f] = signals[f]
      BY <3>1 DEF Waits
    <3>2. CASE signals'[f] # signals[f]
      <4>1. PICK s \in Signal : signals'[f] = Append(signals[f], s)
        BY <3>2 DEF Leaves, Sends
      <4>2. signals[f] \in Seq(Signal)
        BY <1>2
      <4>3. \A n \in DOMAIN signals[f] : n \in DOMAIN signals'[f] /\ signals'[f][n] = signals[f][n]
        BY ONLY <4>1, <4>2, AppendedIs
      <4> QED BY <4>3 DEF Waits
    <3> QED BY <3>1, <3>2
  <2> QED BY <2>1, <2>2, <2>3 DEF Followed, Leaves, Apart
<1> QED BY <1>3, <1>4, <1>5, <1>6 DEF SoloEnd

\* The acting end: an offer is consumed only by a run of createPeer or a refusal.
LEMMA OfferStays ==
    ASSUME SoloTypes, NEW e \in End, OfferFirst(e), Listens(e),
           call'[Far(e)] = call[Far(e)], pcs'[Far(e)] = pcs[Far(e)],
           creates'[e] = 0 => creates[e] = 0, refused[e] => refused'[e],
           call[e] = "left" => call'[e] = "left"
    PROVE  OfferFirst(e)'
<1> SUFFICES ASSUME creates'[e] = 0, ~refused'[e], call'[e] # "left"
             PROVE  /\ \A n \in DOMAIN signals'[e] : signals'[e][n].kind = "candidate" =>
                         \E m \in DOMAIN signals'[e] : m < n /\ signals'[e][m].kind = "offer"
                    /\ call[Far(e)] # "left" /\ (\E i \in DOMAIN pcs[Far(e)] : pcs[Far(e)][i].gather)
                         => Waits(e, "offer")'
  BY DEF OfferFirst
<1>1. /\ \A n \in DOMAIN signals[e] : signals[e][n].kind = "candidate" =>
           \E m \in DOMAIN signals[e] : m < n /\ signals[e][m].kind = "offer"
      /\ call[Far(e)] # "left" /\ (\E i \in DOMAIN pcs[Far(e)] : pcs[Far(e)][i].gather)
           => Waits(e, "offer")
  BY DEF OfferFirst
<1>2. CASE signals'[e] = signals[e]
  BY <1>1, <1>2 DEF Waits
<1>3. CASE signals'[e] # signals[e]
  <2>1. signals[e] # <<>> /\ signals'[e] = Tail(signals[e]) /\ Head(signals[e]).kind # "offer"
    BY <1>3 DEF Listens
  <2>2. signals[e] \in Seq(Signal)
    BY DEF SoloTypes
  <2>3. /\ \A k \in DOMAIN signals[e] :
             (k = 1 /\ signals[e][k] = Head(signals[e]))
             \/ (k # 1 /\ k - 1 \in DOMAIN signals'[e] /\ signals'[e][k - 1] = signals[e][k])
        /\ \A k \in DOMAIN signals'[e] :
             k \in Nat /\ k + 1 \in DOMAIN signals[e] /\ signals'[e][k] = signals[e][k + 1]
        /\ \A k \in DOMAIN signals[e] : k \in Nat
    BY <2>1, <2>2, HeadGone
  <2>4. Waits(e, "offer") => Waits(e, "offer")'
    <3> SUFFICES ASSUME NEW m \in DOMAIN signals[e], signals[e][m].kind = "offer"
                 PROVE  \E n \in DOMAIN signals'[e] : signals'[e][n].kind = "offer"
      BY DEF Waits
    <3>1. m # 1
      BY <2>1, <2>3
    <3>2. m - 1 \in DOMAIN signals'[e] /\ signals'[e][m - 1] = signals[e][m]
      BY <2>3, <3>1
    <3> QED BY <3>2
  <2>5. ASSUME NEW n \in DOMAIN signals'[e], signals'[e][n].kind = "candidate"
        PROVE  \E m \in DOMAIN signals'[e] : m < n /\ signals'[e][m].kind = "offer"
    <3>1. n + 1 \in DOMAIN signals[e] /\ signals[e][n + 1].kind = "candidate"
      BY <2>3, <2>5
    <3>2. PICK m \in DOMAIN signals[e] : m < n + 1 /\ signals[e][m].kind = "offer"
      BY <3>1, <1>1
    <3>3. m # 1 /\ m - 1 \in DOMAIN signals'[e] /\ signals'[e][m - 1].kind = "offer" /\ m - 1 < n
      BY <2>1, <2>3, <3>2
    <3> QED BY <3>3
  <2> QED BY <1>1, <2>4, <2>5
<1> QED BY <1>2, <1>3

\* and what it heard of the other end's candidates it keeps.
Hears(e, f) ==
  /\ Apart(f) /\ Listens(e) /\ restarts' >= restarts /\ creates'[e] >= creates[e]
  /\ refused[e] => refused'[e]
  /\ call[e] = "left" => call'[e] = "left"
  /\ signals'[e] # signals[e] /\ Head(signals[e]).kind = "candidate" /\ creates[e] = 1
     /\ Emitted(e, f)' => Followed(e, f)'
  /\ creates'[e] = creates[e] /\ creates[e] = 1 /\ Emitted(e, f) =>
       /\ 1 \in pending[e] => Followed(e, f)'
       /\ pcs[e] # <<>> /\ 1 \in pcs[e][1].cands => pcs'[e] # <<>> /\ 1 \in pcs'[e][1].cands

LEMMA FollowStays ==
    ASSUME SoloInv, SoloTypes', NEW e \in End, NEW f \in End, f = Far(e), e = Far(f), e # f,
           Hears(e, f)
    PROVE  Emitted(e, f)' => Followed(e, f)'
<1> SUFFICES ASSUME Emitted(e, f)' PROVE Followed(e, f)'
  OBVIOUS
<1>0. /\ creates[e] \in Nat /\ creates'[e] \in Nat /\ restarts \in Nat /\ restarts' \in Nat
      /\ signals[e] \in Seq(Signal) /\ pcs[f] \in Seq(Pc)
  BY SoloBounds DEF SoloInv, SoloTypes
<1>1. Emitted(e, f)
  BY <1>0 DEF Emitted, Apart, Hears
<1>2. Followed(e, f)
  BY <1>1 DEF SoloInv, SoloEnd
<1>4. creates'[e] < 2 /\ creates'[e] >= creates[e]
  BY DEF Emitted, Hears
<1>5. CASE pcs[f][1].gather
  BY <1>5 DEF Followed, Apart, Hears
<1>6. CASE Waits(e, "candidate")
  <2>1. CASE signals'[e] = signals[e]
    BY <1>6, <2>1 DEF Followed, Waits
  <2>2. CASE signals'[e] # signals[e]
    <3>1. signals[e] # <<>> /\ signals'[e] = Tail(signals[e])
      BY <2>2 DEF Listens, Hears
    <3>2. /\ \A k \in DOMAIN signals[e] :
               (k = 1 /\ signals[e][k] = Head(signals[e]))
               \/ (k # 1 /\ k - 1 \in DOMAIN signals'[e] /\ signals'[e][k - 1] = signals[e][k])
          /\ \A k \in DOMAIN signals[e] : k \in Nat /\ k >= 1
          /\ 1 \in DOMAIN signals[e] /\ signals[e][1] = Head(signals[e])
      BY <3>1, <1>0, HeadGone
    <3>3. CASE Head(signals[e]).kind = "candidate" /\ creates[e] # 1
      <4>1. creates[e] = 0
        BY <1>0, <3>3, <1>4
      <4>2. \E m \in DOMAIN signals[e] : m < 1 /\ signals[e][m].kind = "offer"
        BY <4>1, <3>2, <3>3, <1>1 DEF SoloInv, SoloEnd, OfferFirst, Emitted
      <4> QED BY <4>2, <3>2
    <3>4. CASE Head(signals[e]).kind = "candidate" /\ creates[e] = 1
      BY <3>4, <2>2 DEF Hears
    <3>5. CASE Head(signals[e]).kind # "candidate"
      BY <3>5, <3>2, <1>6 DEF Waits, Followed
    <3> QED BY <3>3, <3>4, <3>5
  <2> QED BY <2>1, <2>2
<1>7. CASE creates[e] = 1 /\ (1 \in pending[e] \/ (pcs[e] # <<>> /\ 1 \in pcs[e][1].cands))
  <2>1. creates'[e] = creates[e]
    BY <1>0, <1>4, <1>7
  <2> QED BY <2>1, <1>7, <1>1 DEF Followed, Hears
<1> QED BY <1>2, <1>5, <1>6, <1>7 DEF Followed

\* The head of an end's signals.
LEMMA HeadSignal ==
    ASSUME SoloInv, NEW e \in End, signals[e] # <<>>
    PROVE  /\ Head(signals[e]) \in Signal /\ Tail(signals[e]) \in Seq(Signal)
           /\ Head(signals[e]).pc \in Nat /\ Head(signals[e]).pc <= Len(pcs[Far(e)])
           /\ Head(signals[e]).kind \in {"offer", "answer", "candidate"} => Head(signals[e]).pc \in PcId
<1>1. signals[e] \in Seq(Signal)
  BY DEF SoloInv, SoloTypes
<1>2. /\ Head(signals[e]) \in Signal /\ Tail(signals[e]) \in Seq(Signal)
      /\ 1 \in DOMAIN signals[e] /\ signals[e][1] = Head(signals[e])
  BY <1>1, HeadGone
<1> QED BY <1>2, SignalShape DEF SoloInv, SoloEnd, FarNumbers

\* What an end knows of the other's connections.
LEMMA FarStays ==
    ASSUME SoloInv, NEW e \in End, pcs'[Far(e)] = pcs[Far(e)], Listens(e),
           \A t \in tasks'[e] : t \in tasks[e] \/ t.sdp <= Len(pcs[Far(e)]),
           \A i \in pending'[e] : i \in pending[e] \/ i <= Len(pcs[Far(e)]),
           \A i \in DOMAIN pcs'[e] :
             (i \in DOMAIN pcs[e] /\ pcs'[e][i].remote = pcs[e][i].remote)
             \/ pcs'[e][i].remote <= Len(pcs[Far(e)])
    PROVE  FarNumbers(e, Len(pcs[Far(e)]))'
<1>1. FarNumbers(e, Len(pcs[Far(e)]))
  BY DEF SoloInv, SoloEnd
<1>2. \A n \in DOMAIN signals'[e] : signals'[e][n].pc <= Len(pcs[Far(e)])
  <2>1. CASE signals'[e] = signals[e]
    BY <2>1, <1>1 DEF FarNumbers
  <2>2. CASE signals'[e] # signals[e]
    <3>1. signals[e] \in Seq(Signal) /\ signals[e] # <<>> /\ signals'[e] = Tail(signals[e])
      BY <2>2 DEF Listens, SoloInv, SoloTypes
    <3>2. \A k \in DOMAIN signals'[e] : k + 1 \in DOMAIN signals[e] /\ signals'[e][k] = signals[e][k + 1]
      BY <3>1, HeadGone
    <3> QED BY <3>2, <1>1 DEF FarNumbers
  <2> QED BY <2>1, <2>2
<1> QED BY <1>1, <1>2 DEF FarNumbers

\* The connections of an end that only change their state.
SamePcs(e) ==
  /\ Len(pcs'[e]) = Len(pcs[e]) /\ DOMAIN pcs'[e] = DOMAIN pcs[e]
  /\ \A i \in DOMAIN pcs[e] :
       /\ pcs'[e][i].remote = pcs[e][i].remote /\ pcs'[e][i].cands = pcs[e][i].cands
       /\ pcs'[e][i].gather = pcs[e][i].gather /\ pcs'[e][i].sig = pcs[e][i].sig

\* clear() closes the connection soloPcRef holds.
LEMMA Cleared ==
    ASSUME SoloInv, NEW e \in End, ClearSolo(e)
    PROVE  /\ pcs' \in [End -> Seq(Pc)] /\ pc' \in [End -> Nat] /\ ready' \in [End -> BOOLEAN]
           /\ pending' \in [End -> SUBSET PcId]
           /\ \A g \in End : g # e => /\ pcs'[g] = pcs[g] /\ pc'[g] = pc[g]
                                      /\ pending'[g] = pending[g] /\ ready'[g] = ready[g]
           /\ pc'[e] = 0 /\ ~ready'[e] /\ pending'[e] = {}
           /\ SamePcs(e)
           /\ \A i \in DOMAIN pcs[e] : pcs'[e][i].open => pcs[e][i].open /\ i # pc[e]
<1>0. /\ pcs \in [End -> Seq(Pc)] /\ pc \in [End -> Nat] /\ ready \in [End -> BOOLEAN]
      /\ pending \in [End -> SUBSET PcId] /\ pc[e] <= Len(pcs[e]) /\ pcs[e] \in Seq(Pc)
  BY DEF SoloInv, SoloTypes, SoloEnd, OwnNumbers
<1>1. CASE pc[e] = 0
  <2>1. pcs' = pcs
    BY <1>1 DEF ClearSolo
  <2>2. \A i \in DOMAIN pcs[e] : i # 0
    BY <1>0
  <2> QED BY <1>0, <1>1, <2>1, <2>2 DEF ClearSolo, SamePcs
<1>2. CASE pc[e] # 0
  <2> DEFINE p == [pcs[e][pc[e]] EXCEPT !.open = FALSE]
  <2>1. pc[e] \in DOMAIN pcs[e] /\ pcs[e][pc[e]] \in Pc
    BY <1>0, <1>2
  <2>2. p \in Pc /\ p.open = FALSE /\ p.remote = pcs[e][pc[e]].remote /\ p.cands = pcs[e][pc[e]].cands
        /\ p.gather = pcs[e][pc[e]].gather /\ p.sig = pcs[e][pc[e]].sig
    BY <2>1 DEF Pc
  <2>3. pcs'[e] = [pcs[e] EXCEPT ![pc[e]] = p]
    BY <1>0, <1>2 DEF ClearSolo, ClosedAt
  <2> HIDE DEF p
  <2>4. /\ [pcs[e] EXCEPT ![pc[e]] = p] \in Seq(Pc)
        /\ Len([pcs[e] EXCEPT ![pc[e]] = p]) = Len(pcs[e])
        /\ DOMAIN [pcs[e] EXCEPT ![pc[e]] = p] = DOMAIN pcs[e]
        /\ \A i \in DOMAIN pcs[e] :
             [pcs[e] EXCEPT ![pc[e]] = p][i] = IF i = pc[e] THEN p ELSE pcs[e][i]
    BY <1>0, <2>1, <2>2
  <2>5. pcs' = [pcs EXCEPT ![e] = [pcs[e] EXCEPT ![pc[e]] = p]]
    BY <1>0, <1>2 DEF ClearSolo, ClosedAt, p
  <2>6. pcs' \in [End -> Seq(Pc)] /\ \A g \in End : g # e => pcs'[g] = pcs[g]
    BY <1>0, <2>4, <2>5
  <2>7. SamePcs(e)
    BY <2>2, <2>3, <2>4 DEF SamePcs
  <2>8. \A i \in DOMAIN pcs[e] : pcs'[e][i].open => pcs[e][i].open /\ i # pc[e]
    BY <2>2, <2>3, <2>4
  <2> QED BY <1>0, <2>6, <2>7, <2>8 DEF ClearSolo
<1> QED BY <1>1, <1>2

LEMMA AppendsToFar ==
    ASSUME SoloInv, NEW e \in End, NEW s \in Signal, Sending(e, s), s.pc <= Len(pcs[e]),
           s.kind = "candidate" => \E i \in DOMAIN pcs[e] : pcs[e][i].gather
    PROVE  /\ signals' \in [End -> Seq(Signal)] /\ signals'[e] = signals[e]
           /\ Sends(e, Far(e))
           /\ call[e] # "left" /\ call[Far(e)] # "left" => Waits(Far(e), s.kind)'
<1>1. Far(e) \in End /\ Far(e) # e /\ signals \in [End -> Seq(Signal)]
  BY Ends DEF SoloInv, SoloTypes
<1>2. CASE "left" \in {call[e], call[Far(e)]}
  BY <1>1, <1>2 DEF Sending, Sends
<1>3. CASE "left" \notin {call[e], call[Far(e)]}
  <2>1. signals' = [signals EXCEPT ![Far(e)] = Append(signals[Far(e)], s)]
    BY <1>3 DEF Sending
  <2>2. Append(signals[Far(e)], s) \in Seq(Signal)
    BY <1>1, AppendedIs
  <2>3. signals' \in [End -> Seq(Signal)] /\ signals'[e] = signals[e]
        /\ signals'[Far(e)] = Append(signals[Far(e)], s)
    BY <1>1, <2>1, <2>2
  <2>4. Waits(Far(e), s.kind)'
    <3>1. Len(signals[Far(e)]) + 1 \in DOMAIN signals'[Far(e)]
          /\ signals'[Far(e)][Len(signals[Far(e)]) + 1] = s
      BY <1>1, <2>3, AppendedIs
    <3> QED BY <3>1 DEF Waits
  <2> QED BY <1>3, <2>3, <2>4 DEF Sends
<1> QED BY <1>2, <1>3

\* room:matched
LEMMA OnMatchedKeeps == ASSUME SoloInv, NEW e \in End, OnMatched(e) PROVE SoloInv'
<1> PICK f \in End : f = Far(e)
  BY Ends
<1> DEFINE t == [kind |-> "matched", stage |-> "prepare", pc |-> 0, sdp |-> 0]
<1>0. f # e /\ e = Far(f) /\ \A g \in End : g = e \/ g = f
  BY Ends
<1>1. t \in Task /\ t.stage = "prepare" /\ t.pc = 0 /\ t.sdp = 0 /\ tasks' = [tasks EXCEPT ![e] = @ \cup {t}]
  BY TaskMade, SoloBounds DEF OnMatched, Task
<1> HIDE DEF t
<1>2. UNCHANGED <<stream, pc, pcs, pending, ready, creates, refused, late, restarts>>
      /\ call' = [call EXCEPT ![e] = "in"] /\ call[e] = "waiting"
      /\ signals[e] # <<>> /\ signals' = [signals EXCEPT ![e] = Tail(@)] /\ Head(signals[e]).kind = "matched"
  BY DEF OnMatched
<1>3. SoloTypes'
  BY <1>1, <1>2, HeadSignal DEF SoloInv, SoloTypes
<1>4. SoloEnd(e) /\ Listens(e) /\ tasks'[e] = tasks[e] \cup {t} /\ call'[e] = "in"
  BY <1>1, <1>2 DEF SoloInv, SoloTypes, Listens
<1>5. Creating(e)' = Creating(e)
  BY <1>1, <1>4 DEF Creating
<1>6. OwnNumbers(e)' /\ OneRun(e)' /\ Gone(e)'
  <2>1. Len(pcs[e]) \in Nat
    BY DEF SoloInv, SoloTypes
  <2> QED BY <2>1, <1>1, <1>2, <1>4, <1>5 DEF SoloEnd, OwnNumbers, OneRun, Gone
<1>7. FarNumbers(e, Len(pcs[f]))'
  <2>1. Len(pcs[f]) \in Nat
    BY DEF SoloInv, SoloTypes
  <2> QED BY <2>1, <1>1, <1>2, <1>4, FarStays
<1>8. OfferFirst(e)'
  BY <1>0, <1>2, <1>4, OfferStays DEF SoloInv, SoloTypes, SoloEnd
<1>9. Apart(f)
  BY <1>0, <1>1, <1>2 DEF Apart, SoloInv, SoloTypes
<1>10. Emitted(e, f)' => Followed(e, f)'
  <2>1. 1 \in pending[e] /\ creates[e] = 1 => Followed(e, f)'
    BY <1>2 DEF Followed
  <2>2. Hears(e, f)
    BY <2>1, <1>2, <1>4, <1>9 DEF Hears, SoloInv, SoloTypes
  <2> QED BY <2>2, <1>0, <1>3, FollowStays
<1>11. Leaves(e, f)
  <2>1. signals'[f] = signals[f]
    BY <1>0, <1>2 DEF SoloInv, SoloTypes
  <2>2. Emitted(f, e)' => Emitted(f, e)
    BY <1>0, <1>2, <1>9 DEF Emitted, Apart
  <2> QED BY <2>1, <2>2, <1>2, <1>9 DEF Leaves, Sends, Gathers, SoloInv, SoloTypes
<1>12. SoloEnd(f)'
  BY <1>0, <1>3, <1>11, OtherEnd
<1> QED BY <1>0, <1>3, <1>6, <1>7, <1>8, <1>10, <1>12 DEF SoloInv, SoloEnd

\* createPeer begins
LEMMA PreparedKeeps == ASSUME SoloInv, NEW e \in End, Prepared(e) PROVE SoloInv'
<1> PICK f \in End : f = Far(e)
  BY Ends
<1>0. f # e /\ e = Far(f) /\ \A g \in End : g = e \/ g = f
  BY Ends
<1>a. PICK t \in tasks[e] :
        /\ t.kind = "matched" /\ t.stage = "prepare"
        /\ tasks' = [tasks EXCEPT ![e] = (@ \ {t}) \cup {[t EXCEPT !.stage = "ice"]}]
  BY DEF Prepared, Becomes
<1>b. t \in Task
  BY DEF SoloInv, SoloTypes
<1>c. PICK u \in Task : u = [t EXCEPT !.stage = "ice"]
  BY <1>a, <1>b, TaskMoves
<1>d. u.stage = "ice" /\ u.pc = 0 /\ u.sdp = 0 /\ t.pc = 0
  BY <1>a, <1>b, <1>c, TaskShape DEF Task
<1>1. tasks' = [tasks EXCEPT ![e] = (@ \ {t}) \cup {u}]
  BY <1>a, <1>c
<1>2. /\ UNCHANGED <<call, signals, refused, late, restarts>>
      /\ ClearSolo(e) /\ creates' = [creates EXCEPT ![e] = @ + 1]
      /\ stream' = [stream EXCEPT ![e] = TRUE]
  BY DEF Prepared, StartCreate
<1>e. /\ pcs' \in [End -> Seq(Pc)] /\ pc' \in [End -> Nat] /\ ready' \in [End -> BOOLEAN]
      /\ pending' \in [End -> SUBSET PcId]
      /\ pcs'[f] = pcs[f] /\ pc'[f] = pc[f] /\ pending'[f] = pending[f] /\ ready'[f] = ready[f]
      /\ pc'[e] = 0 /\ ~ready'[e] /\ pending'[e] = {}
      /\ SamePcs(e)
  BY <1>0, <1>2, Cleared
<1>3. SoloTypes'
  <2>1. tasks' \in [End -> SUBSET Task]
    BY <1>1 DEF SoloInv, SoloTypes
  <2>2. creates' \in [End -> Nat] /\ stream' \in [End -> BOOLEAN]
    BY <1>2 DEF SoloInv, SoloTypes
  <2> QED BY <2>1, <2>2, <1>2, <1>e DEF SoloInv, SoloTypes
<1>4. /\ SoloEnd(e) /\ Listens(e) /\ tasks'[e] = (tasks[e] \ {t}) \cup {u}
      /\ creates'[e] = creates[e] + 1 /\ creates[e] \in Nat
  BY <1>1, <1>2 DEF SoloInv, SoloTypes, Listens
<1>5. /\ \A v \in Creating(e)' : v = u \/ v \in Creating(e)
      /\ t \in Matching(e)
  BY <1>a, <1>4 DEF Creating, Matching
<1>6. OwnNumbers(e)' /\ OneRun(e)' /\ Gone(e)'
  <2>1. Len(pcs[e]) \in Nat /\ (pcs[e] = <<>> => Len(pcs[e]) = 0) /\ pcs'[e] \in Seq(Pc)
    BY <1>e DEF SoloInv, SoloTypes
  <2>2. creates'[e] # 0 /\ (creates'[e] = 1 => creates[e] = 0)
    BY <1>4
  <2>7. creates[e] = 0 => pcs[e] = <<>> /\ Creating(e) = {}
    BY <1>4 DEF SoloEnd, OneRun
  <2>8. creates[e] = 0 => pcs'[e] = <<>>
    BY <2>1, <2>7, <1>e DEF SamePcs
  <2>3. creates[e] = 0 => pcs'[e] = <<>> /\ \A v, w \in Creating(e)' : v = w
    BY <2>7, <2>8, <1>5
  <2>4. OwnNumbers(e)'
    BY <2>1, <1>d, <1>4, <1>e DEF SoloEnd, OwnNumbers, SamePcs
  <2>5. OneRun(e)'
    BY <2>2, <2>3, <1>e DEF OneRun
  <2>6. ~(call[e] = "left" /\ ~late[e])
    BY <1>4, <1>5 DEF SoloEnd, Gone
  <2> QED BY <2>4, <2>5, <2>6, <1>2 DEF Gone
<1>7. FarNumbers(e, Len(pcs[f]))'
  <2>1. Len(pcs[f]) \in Nat
    BY DEF SoloInv, SoloTypes
  <2>2. \A v \in tasks'[e] : v \in tasks[e] \/ v.sdp <= Len(pcs[f])
    BY <2>1, <1>d, <1>4
  <2> QED BY <2>2, <1>4, <1>e, FarStays DEF SamePcs
<1>8. OfferFirst(e)'
  <2>1. /\ SoloTypes /\ OfferFirst(e)
        /\ call'[f] = call[f] /\ call'[e] = call[e] /\ refused'[e] = refused[e]
    BY <1>2, <1>4 DEF SoloInv, SoloEnd
  <2>2. creates'[e] = 0 => creates[e] = 0
    BY <1>4
  <2> QED BY <2>1, <2>2, <1>4, <1>e, OfferStays
<1>9. Apart(f)
  BY <1>0, <1>1, <1>2, <1>e DEF Apart, SoloInv, SoloTypes
<1>10. Emitted(e, f)' => Followed(e, f)'
  <2>2. Hears(e, f)
    BY <1>2, <1>4, <1>9 DEF Hears, SoloInv, SoloTypes
  <2> QED BY <2>2, <1>0, <1>3, FollowStays
<1>11. Leaves(e, f)
  <2>1. ~Emitted(f, e)'
    BY <1>e DEF Emitted
  <2>2. Gathers(e)' => Gathers(e)
    BY <1>e DEF Gathers, SamePcs
  <2>3. Len(pcs'[e]) >= Len(pcs[e])
    BY <1>e DEF SamePcs, SoloInv, SoloTypes
  <2> QED BY <2>1, <2>2, <2>3, <1>2, <1>9 DEF Leaves, Sends
<1>12. SoloEnd(f)'
  BY <1>0, <1>3, <1>11, OtherEnd
<1> QED BY <1>0, <1>3, <1>6, <1>7, <1>8, <1>10, <1>12 DEF SoloInv, SoloEnd

\* A step of e that only changes its tasks, of the stages after createPeer, hears
\* nothing and sends nothing.
LEMMA TasksKeep ==
    ASSUME SoloInv, NEW e \in End, NEW T \in SUBSET Task,
           \A t \in T : t \in tasks[e] \/ (t.stage = "offering" /\ t.sdp = 0 /\ t.pc = pc[e]),
           tasks' = [tasks EXCEPT ![e] = T],
           refused' \in [End -> BOOLEAN], \A g \in End : refused[g] => refused'[g],
           \A g \in End : g # e => refused'[g] = refused[g],
           restarts' \in 0 .. MaxRestarts, restarts' >= restarts,
           UNCHANGED <<call, stream, pc, pcs, pending, ready, signals, creates, late>>
    PROVE  SoloInv'
<1> PICK f \in End : f = Far(e)
  BY Ends
<1>0. f # e /\ e = Far(f) /\ \A g \in End : g = e \/ g = f
  BY Ends
<1>3. SoloTypes'
  BY DEF SoloInv, SoloTypes
<1>4. SoloEnd(e) /\ Listens(e) /\ tasks'[e] = T /\ Len(pcs[e]) \in Nat /\ Len(pcs[f]) \in Nat
  BY DEF SoloInv, SoloTypes, Listens
<1>5. Creating(e)' \subseteq Creating(e) /\ Matching(e)' \subseteq Matching(e)
  BY <1>4 DEF Creating, Matching
<1>6. OwnNumbers(e)' /\ OneRun(e)' /\ Gone(e)'
  <2>1. OwnNumbers(e)'
    BY <1>4 DEF SoloEnd, OwnNumbers
  <2>2. OneRun(e)' /\ Gone(e)'
    BY <1>4, <1>5 DEF SoloEnd, OneRun, Gone
  <2> QED BY <2>1, <2>2
<1>7. FarNumbers(e, Len(pcs[f]))'
  <2>2. \A v \in tasks'[e] : v \in tasks[e] \/ v.sdp <= Len(pcs[f])
    BY <1>4
  <2> QED BY <2>2, <1>4, FarStays
<1>8. OfferFirst(e)'
  BY <1>0, <1>4, OfferStays DEF SoloInv, SoloTypes, SoloEnd
<1>9. Apart(f)
  BY <1>0 DEF Apart, SoloInv, SoloTypes
<1>10. Emitted(e, f)' => Followed(e, f)'
  <2>1. 1 \in pending[e] /\ creates[e] = 1 => Followed(e, f)'
    BY DEF Followed
  <2>2. Hears(e, f)
    BY <2>1, <1>4, <1>9 DEF Hears, SoloInv, SoloTypes
  <2> QED BY <2>2, <1>0, <1>3, FollowStays
<1>11. Leaves(e, f)
  <2>0. restarts \in Nat /\ restarts' \in Nat
    BY SoloBounds DEF SoloInv, SoloTypes
  <2>1. Emitted(f, e)' => Emitted(f, e)
    BY <1>0, <2>0, <1>9 DEF Emitted, Apart
  <2> QED BY <2>1, <1>4, <1>9 DEF Leaves, Sends, Gathers
<1>12. SoloEnd(f)'
  BY <1>0, <1>3, <1>11, OtherEnd
<1> QED BY <1>0, <1>3, <1>6, <1>7, <1>8, <1>10, <1>12 DEF SoloInv, SoloEnd

\* ensureStream rejects, a promise rejects, or retry asks for a fresh offer
LEMMA RejectionsKeep ==
    ASSUME SoloInv, NEW e \in End, PrepareFails(e) \/ Rejected(e) \/ RestartIce(e)
    PROVE  SoloInv'
<1>0. tasks \in [End -> SUBSET Task] /\ refused \in [End -> BOOLEAN] /\ restarts \in 0 .. MaxRestarts
  BY DEF SoloInv, SoloTypes
<1>1. CASE PrepareFails(e)
  <2>1. PICK t \in tasks[e] : tasks' = [tasks EXCEPT ![e] = @ \ {t}]
    BY <1>1 DEF PrepareFails, Forget
  <2>2. PICK T \in SUBSET Task : T = tasks[e] \ {t}
    BY <1>0
  <2>3. /\ tasks' = [tasks EXCEPT ![e] = T] /\ \A u \in T : u \in tasks[e]
        /\ refused' = [refused EXCEPT ![e] = TRUE] /\ restarts' = restarts
        /\ UNCHANGED <<call, stream, pc, pcs, pending, ready, signals, creates, late>>
    BY <1>1, <2>1, <2>2 DEF PrepareFails
  <2>4. refused' \in [End -> BOOLEAN] /\ restarts' >= restarts /\ restarts' \in 0 .. MaxRestarts
        /\ \A g \in End : (refused[g] => refused'[g]) /\ (g # e => refused'[g] = refused[g])
    <3>1. restarts' >= restarts /\ restarts' \in 0 .. MaxRestarts
      BY <1>0, <2>3, SoloBounds
    <3>2. refused' \in [End -> BOOLEAN]
          /\ \A g \in End : (refused[g] => refused'[g]) /\ (g # e => refused'[g] = refused[g])
      BY <1>0, <2>3
    <3> QED BY <3>1, <3>2
  <2> QED BY ZenonT(40), <2>3, <2>4, TasksKeep
<1>2. CASE Rejected(e)
  <2>1. PICK t \in tasks[e] : tasks' = [tasks EXCEPT ![e] = @ \ {t}]
    BY <1>2 DEF Rejected, Forget
  <2>2. PICK T \in SUBSET Task : T = tasks[e] \ {t}
    BY <1>0
  <2>3. /\ tasks' = [tasks EXCEPT ![e] = T] /\ \A u \in T : u \in tasks[e]
        /\ refused' = refused /\ restarts' = restarts
        /\ UNCHANGED <<call, stream, pc, pcs, pending, ready, signals, creates, late>>
    BY <1>2, <2>1, <2>2 DEF Rejected
  <2>4. restarts' >= restarts
    BY <1>0, <2>3, SoloBounds
  <2> QED BY <2>3, <2>4, <1>0, TasksKeep
<1>3. CASE RestartIce(e)
  <2>1. pc[e] \in PcId
    BY <1>3, SoloBounds DEF RestartIce, SoloInv, SoloTypes, SoloEnd, OwnNumbers, PcId
  <2>2. PICK u \in Task : u = [kind |-> "matched", stage |-> "offering", pc |-> pc[e], sdp |-> 0]
    BY <2>1, TaskMade
  <2>3. PICK T \in SUBSET Task : T = tasks[e] \cup {u}
    BY <1>0
  <2>4. /\ tasks' = [tasks EXCEPT ![e] = T]
        /\ \A v \in T : v \in tasks[e] \/ (v.stage = "offering" /\ v.sdp = 0 /\ v.pc = pc[e])
        /\ refused' = refused /\ restarts' = restarts + 1 /\ restarts < MaxRestarts
        /\ UNCHANGED <<call, stream, pc, pcs, pending, ready, signals, creates, late>>
    BY <1>3, <2>2, <2>3 DEF RestartIce
  <2>5. restarts' >= restarts /\ restarts' \in 0 .. MaxRestarts
    BY <1>0, <2>4, SoloBounds
  <2> QED BY <2>4, <2>5, <1>0, TasksKeep
<1> QED BY <1>1, <1>2, <1>3

LEMMA SetAt ==
    ASSUME NEW V, NEW q \in Seq(V), NEW i \in DOMAIN q, NEW v \in V
    PROVE  /\ [q EXCEPT ![i] = v] \in Seq(V) /\ Len([q EXCEPT ![i] = v]) = Len(q)
           /\ DOMAIN [q EXCEPT ![i] = v] = DOMAIN q /\ [q EXCEPT ![i] = v][i] = v
           /\ \A k \in DOMAIN q : k # i => [q EXCEPT ![i] = v][k] = q[k]
OBVIOUS

\* With one run of createPeer behind it and a connection there, an end has one.
LEMMA OnlyOne ==
    ASSUME SoloInv, NEW e \in End, creates[e] < 2
    PROVE  /\ Len(pcs[e]) \in Nat /\ Len(pcs[e]) <= 1 /\ (Len(pcs[e]) = 1 => creates[e] = 1)
           /\ \A i \in DOMAIN pcs[e] : i = 1 /\ creates[e] = 1 /\ Len(pcs[e]) = 1 /\ pcs[e] # <<>> /\ Creating(e) = {}
<1>1. creates[e] \in Nat /\ pcs[e] \in Seq(Pc) /\ OneRun(e)
  BY DEF SoloInv, SoloTypes, SoloEnd
<1>2. creates[e] = 0 \/ creates[e] = 1
  BY <1>1
<1>3. DOMAIN pcs[e] = 1 .. Len(pcs[e]) /\ (pcs[e] = <<>> => Len(pcs[e]) = 0)
      /\ (Len(pcs[e]) = 1 => pcs[e] # <<>>)
  BY SMTT(30), <1>1
<1>4. CASE pcs[e] = <<>>
  BY <1>3, <1>4
<1>5. CASE pcs[e] # <<>>
  <2>1. creates[e] = 1 /\ Len(pcs[e]) = 1 /\ Creating(e) = {}
    BY <1>1, <1>2, <1>5 DEF OneRun
  <2>2. \A i \in DOMAIN pcs[e] : i = 1
    BY <2>1, <1>3
  <2> QED BY <2>1, <2>2, <1>5
<1> QED BY <1>4, <1>5

\* A step of e that changes one of its connections and sends a signal.
LEMMA SendingKeeps ==
    ASSUME SoloInv, NEW e \in End,
           NEW T \in SUBSET Task, T \subseteq tasks[e], tasks' = [tasks EXCEPT ![e] = T],
           NEW i \in DOMAIN pcs[e], NEW p \in Pc, pcs' = [pcs EXCEPT ![e] = [pcs[e] EXCEPT ![i] = p]],
           p.open = pcs[e][i].open, p.remote = pcs[e][i].remote, p.cands = pcs[e][i].cands,
           NEW s \in Signal, Sending(e, s), s.pc <= Len(pcs[e]),
           s.kind = "candidate" => pcs[e][i].gather,
           s.kind = "offer" \/ creates[Far(e)] > 0 \/ ~p.gather,
           p.gather \/ (s.kind = "candidate" /\ (HasLocal(p) => HasLocal(pcs[e][i])))
             \/ call[e] = "left" \/ call[Far(e)] = "left",
           UNCHANGED <<call, stream, pc, pending, ready, creates, refused, late, restarts>>
    PROVE  SoloInv'
<1> PICK f \in End : f = Far(e)
  BY Ends
<1>0. f # e /\ e = Far(f) /\ \A g \in End : g = e \/ g = f
  BY Ends
<1>1. pcs[e] \in Seq(Pc) /\ Len(pcs[e]) \in Nat /\ Len(pcs[f]) \in Nat /\ pcs \in [End -> Seq(Pc)]
  BY DEF SoloInv, SoloTypes
<1>2. /\ [pcs[e] EXCEPT ![i] = p] \in Seq(Pc) /\ Len([pcs[e] EXCEPT ![i] = p]) = Len(pcs[e])
      /\ DOMAIN [pcs[e] EXCEPT ![i] = p] = DOMAIN pcs[e] /\ [pcs[e] EXCEPT ![i] = p][i] = p
      /\ \A k \in DOMAIN pcs[e] : k # i => [pcs[e] EXCEPT ![i] = p][k] = pcs[e][k]
  BY <1>1, SetAt
<1>3. /\ pcs' \in [End -> Seq(Pc)] /\ pcs'[f] = pcs[f] /\ pcs'[e] = [pcs[e] EXCEPT ![i] = p]
  BY <1>0, <1>1, <1>2
<1>4. /\ Len(pcs'[e]) = Len(pcs[e]) /\ DOMAIN pcs'[e] = DOMAIN pcs[e] /\ pcs'[e][i] = p
      /\ \A k \in DOMAIN pcs[e] : k # i => pcs'[e][k] = pcs[e][k]
  BY <1>2, <1>3
<1>5. /\ signals' \in [End -> Seq(Signal)] /\ signals'[e] = signals[e] /\ Sends(e, f)
      /\ call[e] # "left" /\ call[f] # "left" => Waits(f, s.kind)'
  BY AppendsToFar
<1>6. SoloTypes'
  BY <1>3, <1>5 DEF SoloInv, SoloTypes
<1>7. SoloEnd(e) /\ Listens(e) /\ tasks'[e] = T /\ creates[e] \in Nat
  BY <1>5 DEF SoloInv, SoloTypes, Listens
<1>8. Creating(e)' \subseteq Creating(e) /\ Matching(e)' \subseteq Matching(e)
  BY <1>7 DEF Creating, Matching
<1>9. \A k \in DOMAIN pcs[e] : /\ pcs'[e][k].open = pcs[e][k].open
                               /\ pcs'[e][k].remote = pcs[e][k].remote
                               /\ pcs'[e][k].cands = pcs[e][k].cands
  BY <1>4
<1>10. OwnNumbers(e)'
  <2>1. pc[e] # 0 => pc[e] \in DOMAIN pcs[e]
    BY <1>1, <1>7 DEF SoloEnd, OwnNumbers, SoloInv, SoloTypes
  <2> QED BY <2>1, <1>4, <1>7, <1>9 DEF SoloEnd, OwnNumbers
<1>11. OneRun(e)'
  <2>1. pcs[e] = <<>> <=> pcs'[e] = <<>>
    BY <1>1, <1>2, <1>3, <1>4
  <2>2. Len(pcs[e]) = 1 => 1 \in DOMAIN pcs[e]
    BY <1>1
  <2> QED BY <2>1, <2>2, <1>4, <1>7, <1>8, <1>9 DEF SoloEnd, OneRun
<1>12. Gone(e)'
  BY <1>7, <1>8 DEF SoloEnd, Gone
<1>13. FarNumbers(e, Len(pcs[f]))'
  BY <1>3, <1>4, <1>7, <1>9, FarStays
<1>14. OfferFirst(e)'
  BY <1>3, <1>7, OfferStays DEF SoloInv, SoloEnd
<1>15. Apart(f)
  BY <1>0, <1>3 DEF Apart, SoloInv, SoloTypes
<1>16. Emitted(e, f)' => Followed(e, f)'
  <2>1. 1 \in pending[e] /\ creates[e] = 1 => Followed(e, f)'
    BY DEF Followed
  <2>2. pcs[e] # <<>> => 1 \in DOMAIN pcs[e] /\ pcs'[e] # <<>>
    BY <1>1, <1>3, <1>2, <1>4
  <2>3. restarts \in Nat
    BY SoloBounds DEF SoloInv, SoloTypes
  <2>4. Hears(e, f)
    BY <2>1, <2>2, <2>3, <1>5, <1>7, <1>9, <1>15 DEF Hears
  <2> QED BY <2>4, <1>0, <1>6, FollowStays
<1>17. Leaves(e, f)
  <2>1. call'[e] # "left" /\ Gathers(e)'
          => Gathers(e) \/ Waits(f, "offer")' \/ creates[f] > 0 \/ call[f] = "left"
    BY <1>4, <1>5 DEF Gathers
  <2>2. Emitted(f, e)' => \/ pcs'[e][1].gather
                          \/ Emitted(f, e) /\ (pcs[e][1].gather => Waits(f, "candidate")')
    <3> SUFFICES ASSUME Emitted(f, e)' PROVE \/ pcs'[e][1].gather
                                             \/ Emitted(f, e) /\ Waits(f, "candidate")'
      OBVIOUS
    <3>1. creates[e] = 1 /\ call[e] # "left" /\ call[f] # "left"
      BY DEF Emitted
    <3>2. i = 1
      BY <3>1, OnlyOne
    <3>3. CASE p.gather
      BY <3>2, <3>3, <1>4
    <3>4. CASE s.kind = "candidate" /\ (HasLocal(p) => HasLocal(pcs[e][i]))
      BY <3>1, <3>2, <3>4, <1>4, <1>5, <1>15 DEF Emitted, Apart
    <3> QED BY <3>1, <3>3, <3>4
  <2> QED BY <2>1, <2>2, <1>1, <1>4, <1>5, <1>15 DEF Leaves
<1>18. SoloEnd(f)'
  BY <1>0, <1>6, <1>17, OtherEnd
<1> QED BY <1>0, <1>6, <1>10, <1>11, <1>12, <1>13, <1>14, <1>16, <1>18 DEF SoloInv, SoloEnd

\* A task that is at a connection.
LEMMA TaskHere ==
    ASSUME SoloInv, NEW e \in End, NEW t \in tasks[e], t.stage \in {"offering", "remote", "answering"}
    PROVE  /\ t \in Task /\ t.pc \in PcId /\ t.pc \in DOMAIN pcs[e] /\ pcs[e][t.pc] \in Pc
           /\ t.pc <= Len(pcs[e]) /\ t.sdp <= Len(pcs[Far(e)]) /\ t.sdp \in Nat
<1>1. t \in Task /\ pcs[e] \in Seq(Pc)
  BY DEF SoloInv, SoloTypes
<1>2. t.pc \in PcId /\ t.sdp \in Nat
  BY <1>1, TaskShape
<1>3. t.pc <= Len(pcs[e]) /\ t.sdp <= Len(pcs[Far(e)])
  BY DEF SoloInv, SoloEnd, OwnNumbers, FarNumbers
<1>4. t.pc \in DOMAIN pcs[e]
  BY <1>1, <1>2, <1>3, SoloBounds DEF PcId
<1> QED BY <1>1, <1>2, <1>3, <1>4

\* the offer goes out
LEMMA OfferedKeeps == ASSUME SoloInv, NEW e \in End, Offered(e) PROVE SoloInv'
<1>1. PICK t \in tasks[e] :
        /\ t.stage = "offering"
        /\ pcs' = [pcs EXCEPT ![e][t.pc].sig = "local", ![e][t.pc].gather = TRUE]
        /\ Sending(e, [kind |-> "offer", pc |-> t.pc, of |-> 0])
        /\ tasks' = [tasks EXCEPT ![e] = @ \ {t}]
        /\ UNCHANGED <<call, stream, pc, pending, ready, creates, refused, late, restarts>>
  BY DEF Offered, Forget
<1>2. /\ t.pc \in PcId /\ t.pc \in DOMAIN pcs[e] /\ pcs[e][t.pc] \in Pc /\ t.pc <= Len(pcs[e])
      /\ pcs \in [End -> Seq(Pc)] /\ tasks[e] \subseteq Task
  BY <1>1, TaskHere DEF SoloInv, SoloTypes
<1>3. PICK i \in DOMAIN pcs[e] : i = t.pc
  BY <1>2
<1>4. PICK p \in Pc : p = [pcs[e][i] EXCEPT !.sig = "local", !.gather = TRUE]
  BY <1>2, <1>3 DEF Pc
<1>5. /\ p.open = pcs[e][i].open /\ p.remote = pcs[e][i].remote /\ p.cands = pcs[e][i].cands
      /\ p.gather
  BY <1>2, <1>3, <1>4 DEF Pc
<1>6. pcs' = [pcs EXCEPT ![e] = [pcs[e] EXCEPT ![i] = p]]
  BY <1>1, <1>2, <1>3, <1>4
<1>7. PICK s \in Signal : s = [kind |-> "offer", pc |-> i, of |-> 0]
  BY <1>2, <1>3, SignalMade
<1>8. Sending(e, s) /\ s.pc <= Len(pcs[e]) /\ s.kind = "offer"
  BY <1>1, <1>2, <1>3, <1>7
<1>9. PICK T \in SUBSET Task : T = tasks[e] \ {t}
  BY <1>2
<1>10. T \subseteq tasks[e] /\ tasks' = [tasks EXCEPT ![e] = T]
       /\ UNCHANGED <<call, stream, pc, pending, ready, creates, refused, late, restarts>>
  BY <1>1, <1>9
<1> QED BY <1>5, <1>6, <1>8, <1>10, SendingKeeps

\* the answer goes out
LEMMA AnsweredKeeps == ASSUME SoloInv, NEW e \in End, Answered(e) PROVE SoloInv'
<1>1. PICK t \in tasks[e] :
        /\ t.stage = "answering"
        /\ pcs' = [pcs EXCEPT ![e][t.pc].sig = "stable", ![e][t.pc].gather = TRUE]
        /\ Sending(e, [kind |-> "answer", pc |-> t.pc, of |-> t.sdp])
        /\ tasks' = [tasks EXCEPT ![e] = @ \ {t}]
        /\ UNCHANGED <<call, stream, pc, pending, ready, creates, refused, late, restarts>>
  BY DEF Answered, Forget
<1>2. /\ t.pc \in PcId /\ t.pc \in DOMAIN pcs[e] /\ pcs[e][t.pc] \in Pc /\ t.pc <= Len(pcs[e])
      /\ pcs \in [End -> Seq(Pc)] /\ tasks[e] \subseteq Task
  BY <1>1, TaskHere DEF SoloInv, SoloTypes
<1>a. t.sdp \in PcId /\ t.sdp <= Len(pcs[Far(e)])
  BY <1>1, TaskHere, TaskShape
<1>b. creates[Far(e)] > 0
  <2>1. Far(e) \in End
    BY Ends
  <2>2. pcs[Far(e)] \in Seq(Pc) /\ creates[Far(e)] \in Nat /\ OneRun(Far(e))
    BY <2>1 DEF SoloInv, SoloTypes, SoloEnd
  <2>3. pcs[Far(e)] # <<>>
    BY <2>2, <1>a, SoloBounds DEF PcId
  <2> QED BY <2>2, <2>3 DEF OneRun
<1>3. PICK i \in DOMAIN pcs[e] : i = t.pc
  BY <1>2
<1>4. PICK p \in Pc : p = [pcs[e][i] EXCEPT !.sig = "stable", !.gather = TRUE]
  BY <1>2, <1>3 DEF Pc
<1>5. /\ p.open = pcs[e][i].open /\ p.remote = pcs[e][i].remote /\ p.cands = pcs[e][i].cands
      /\ p.gather
  BY <1>2, <1>3, <1>4 DEF Pc
<1>6. pcs' = [pcs EXCEPT ![e] = [pcs[e] EXCEPT ![i] = p]]
  BY <1>1, <1>2, <1>3, <1>4
<1>7. PICK s \in Signal : s = [kind |-> "answer", pc |-> i, of |-> t.sdp]
  BY <1>2, <1>3, <1>a, SignalMade
<1>8. Sending(e, s) /\ s.pc <= Len(pcs[e]) /\ s.kind = "answer"
  BY <1>1, <1>2, <1>3, <1>7
<1>9. PICK T \in SUBSET Task : T = tasks[e] \ {t}
  BY <1>2
<1>10. T \subseteq tasks[e] /\ tasks' = [tasks EXCEPT ![e] = T]
       /\ UNCHANGED <<call, stream, pc, pending, ready, creates, refused, late, restarts>>
  BY <1>1, <1>9
<1> QED BY <1>5, <1>6, <1>8, <1>10, <1>b, SendingKeeps

\* a local candidate goes out
LEMMA OnIceCandidateKeeps == ASSUME SoloInv, NEW e \in End, OnIceCandidate(e) PROVE SoloInv'
<1>1. PICK i \in DOMAIN pcs[e] :
        /\ pcs[e][i].open /\ pcs[e][i].gather
        /\ pcs' = [pcs EXCEPT ![e][i].gather = FALSE]
        /\ Sending(e, [kind |-> "candidate", pc |-> i, of |-> 0])
        /\ UNCHANGED <<call, stream, tasks, pc, pending, ready, creates, refused, late, restarts>>
  BY DEF OnIceCandidate
<1>2. /\ pcs[e] \in Seq(Pc) /\ pcs \in [End -> Seq(Pc)] /\ tasks \in [End -> SUBSET Task]
      /\ Len(pcs[e]) <= MaxPcs
  BY DEF SoloInv, SoloTypes, SoloEnd, OwnNumbers
<1>3. i \in PcId /\ i <= Len(pcs[e]) /\ pcs[e][i] \in Pc
  BY <1>2, SoloBounds DEF PcId
<1>4. PICK p \in Pc : p = [pcs[e][i] EXCEPT !.gather = FALSE]
  BY <1>3 DEF Pc
<1>5. /\ p.open = pcs[e][i].open /\ p.remote = pcs[e][i].remote /\ p.cands = pcs[e][i].cands
      /\ ~p.gather /\ p.sig = pcs[e][i].sig
  BY <1>3, <1>4 DEF Pc
<1>6. pcs' = [pcs EXCEPT ![e] = [pcs[e] EXCEPT ![i] = p]]
  BY <1>1, <1>2, <1>4
<1>7. PICK s \in Signal : s = [kind |-> "candidate", pc |-> i, of |-> 0]
  BY <1>3, SignalMade
<1>8. Sending(e, s) /\ s.pc <= Len(pcs[e]) /\ s.kind = "candidate"
  BY <1>1, <1>3, <1>7
<1>9. PICK T \in SUBSET Task : T = tasks[e]
  BY <1>2
<1>10. T \subseteq tasks[e] /\ tasks' = [tasks EXCEPT ![e] = T]
       /\ UNCHANGED <<call, stream, pc, pending, ready, creates, refused, late, restarts>>
  BY <1>1, <1>2, <1>9
<1>11. HasLocal(p) => HasLocal(pcs[e][i])
  BY <1>5 DEF HasLocal
<1> QED BY <1>1, <1>5, <1>6, <1>8, <1>10, <1>11, SendingKeeps

\* fetchIceServers answers
LEMMA IceFetchedKeeps == ASSUME SoloInv, NEW e \in End, IceFetched(e) PROVE SoloInv'
<1> PICK f \in End : f = Far(e)
  BY Ends
<1>0. f # e /\ e = Far(f) /\ \A g \in End : g = e \/ g = f
  BY Ends
<1>a. PICK t \in tasks[e] :
        /\ t.stage = "ice" /\ Len(pcs[e]) + 1 <= MaxPcs
        /\ pcs' = [pcs EXCEPT ![e] = Append(@, NewPc)]
        /\ pc' = [pc EXCEPT ![e] = Len(pcs[e]) + 1]
        /\ ready' = [ready EXCEPT ![e] = FALSE]
        /\ IF t.kind = "offer"
           THEN Becomes(e, t, [t EXCEPT !.stage = "remote", !.pc = Len(pcs[e]) + 1])
           ELSE IF e = "offerer"
                THEN Becomes(e, t, [t EXCEPT !.stage = "offering", !.pc = Len(pcs[e]) + 1])
                ELSE Forget(e, t)
        /\ UNCHANGED <<call, stream, signals, pending, creates, refused, late, restarts>>
  BY DEF IceFetched
<1>b. /\ t \in Task /\ pcs \in [End -> Seq(Pc)] /\ pcs[e] \in Seq(Pc) /\ pcs[f] \in Seq(Pc)
      /\ tasks \in [End -> SUBSET Task] /\ pc \in [End -> Nat] /\ ready \in [End -> BOOLEAN]
      /\ Len(pcs[e]) \in Nat /\ Len(pcs[f]) \in Nat /\ SoloEnd(e)
  BY DEF SoloInv, SoloTypes
<1>c. PICK n \in PcId : n = Len(pcs[e]) + 1
  BY <1>a, <1>b, SoloBounds DEF PcId
<1>d. NewPc \in Pc /\ NewPc.open /\ NewPc.sig = "stable" /\ NewPc.remote = 0 /\ ~NewPc.gather
  BY SoloBounds DEF NewPc, Pc
<1>e. PICK T \in SUBSET Task :
        /\ tasks' = [tasks EXCEPT ![e] = T]
        /\ \A v \in T : \/ v \in tasks[e] /\ v # t
                        \/ v.stage \in {"remote", "offering"} /\ v.pc = n /\ v.sdp = t.sdp
  <2>1. CASE t.kind = "offer"
    <3>1. PICK u \in Task : u = [t EXCEPT !.stage = "remote", !.pc = n]
      BY <2>1, <1>a, <1>b, TaskMoves
    <3>2. u.stage = "remote" /\ u.pc = n /\ u.sdp = t.sdp
      BY <3>1, <1>b DEF Task
    <3>3. PICK T \in SUBSET Task : T = (tasks[e] \ {t}) \cup {u}
      BY <1>b
    <3> QED BY <3>1, <3>2, <3>3, <2>1, <1>a, <1>c DEF Becomes
  <2>2. CASE t.kind # "offer" /\ e = "offerer"
    <3>1. PICK u \in Task : u = [t EXCEPT !.stage = "offering", !.pc = n]
      BY <2>2, <1>a, <1>b, TaskMoves
    <3>2. u.stage = "offering" /\ u.pc = n /\ u.sdp = t.sdp
      BY <3>1, <1>b DEF Task
    <3>3. PICK T \in SUBSET Task : T = (tasks[e] \ {t}) \cup {u}
      BY <1>b
    <3> QED BY <3>1, <3>2, <3>3, <2>2, <1>a, <1>c DEF Becomes
  <2>3. CASE t.kind # "offer" /\ e # "offerer"
    <3>3. PICK T \in SUBSET Task : T = tasks[e] \ {t}
      BY <1>b
    <3> QED BY <3>3, <2>3, <1>a DEF Forget
  <2> QED BY <2>1, <2>2, <2>3
<1>1. UNCHANGED <<call, stream, signals, pending, creates, refused, late, restarts>>
  BY <1>a
<1>2. /\ Append(pcs[e], NewPc) \in Seq(Pc) /\ DOMAIN Append(pcs[e], NewPc) = DOMAIN pcs[e] \cup {n}
      /\ Append(pcs[e], NewPc)[n] = NewPc /\ Len(Append(pcs[e], NewPc)) = n
      /\ \A k \in DOMAIN pcs[e] : Append(pcs[e], NewPc)[k] = pcs[e][k]
  BY <1>b, <1>c, <1>d, AppendedIs
<1>3. /\ pcs' \in [End -> Seq(Pc)] /\ pcs'[f] = pcs[f] /\ pcs'[e] = Append(pcs[e], NewPc)
      /\ pc' \in [End -> Nat] /\ pc'[f] = pc[f] /\ pc'[e] = n
      /\ ready' \in [End -> BOOLEAN] /\ ready'[f] = ready[f] /\ ~ready'[e]
      /\ tasks' \in [End -> SUBSET Task] /\ tasks'[f] = tasks[f] /\ tasks'[e] = T
  BY <1>0, <1>a, <1>b, <1>c, <1>e, <1>2
<1>4. /\ DOMAIN pcs'[e] = DOMAIN pcs[e] \cup {n} /\ pcs'[e][n] = NewPc /\ Len(pcs'[e]) = n
      /\ n = Len(pcs[e]) + 1 /\ n <= MaxPcs /\ n \in Nat
      /\ \A k \in DOMAIN pcs[e] : pcs'[e][k] = pcs[e][k]
  BY <1>2, <1>3, <1>a, <1>b, <1>c
<1>5. SoloTypes'
  BY <1>1, <1>3 DEF SoloInv, SoloTypes
<1>6. Listens(e)
  BY <1>1 DEF Listens
<1>7. Creating(e)' \subseteq Creating(e) \ {t} /\ t \in Creating(e) /\ t \in Matching(e)
  BY <1>a, <1>e, <1>3 DEF Creating, Matching
<1>8. OwnNumbers(e)'
  <2>1. \A v \in T : v.pc <= n
    <3>1. \A v \in tasks[e] : v.pc \in Nat /\ v.pc <= Len(pcs[e])
      BY <1>b, TaskShape DEF SoloEnd, OwnNumbers
    <3>2. \A v \in T : v \in tasks[e] \/ v.pc = n
      BY <1>e
    <3>3. \A v \in tasks[e] : v.pc <= n
      BY <3>1, <1>4, <1>b
    <3> QED BY <3>2, <3>3, <1>4
  <2> QED BY <2>1, <1>3, <1>4, <1>d DEF OwnNumbers
<1>9. creates[e] # 0 /\ (creates[e] = 1 => pcs[e] = <<>> /\ Creating(e)' = {})
  BY <1>b, <1>7 DEF SoloEnd, OneRun
<1>10. OneRun(e)'
  <2>1. pcs[e] = <<>> => n = 1
    BY <1>4
  <2>2. creates[e] = 1 => Len(pcs'[e]) = 1 /\ pc'[e] = 1
    BY <2>1, <1>3, <1>4, <1>9
  <2> QED BY <2>2, <1>1, <1>3, <1>9 DEF OneRun
<1>11. Gone(e)'
  BY <1>1, <1>7, <1>b DEF SoloEnd, Gone
<1>12. FarNumbers(e, Len(pcs[f]))'
  <2>1. \A v \in tasks'[e] : v \in tasks[e] \/ v.sdp <= Len(pcs[f])
    BY <1>e, <1>b, <1>3 DEF SoloEnd, FarNumbers
  <2>2. \A i \in DOMAIN pcs'[e] :
             (i \in DOMAIN pcs[e] /\ pcs'[e][i].remote = pcs[e][i].remote)
             \/ pcs'[e][i].remote <= Len(pcs[f])
    BY <1>4, <1>b, <1>d
  <2> QED BY <2>1, <2>2, <1>1, <1>3, <1>6, FarStays
<1>13. OfferFirst(e)'
  BY <1>1, <1>3, <1>6, <1>b, OfferStays DEF SoloInv, SoloEnd
<1>14. Apart(f)
  BY <1>1, <1>3 DEF Apart
<1>15. Emitted(e, f)' => Followed(e, f)'
  <2>1. 1 \in pending[e] /\ creates[e] = 1 => Followed(e, f)'
    BY <1>1 DEF Followed
  <2>2. restarts \in Nat /\ creates[e] \in Nat
    BY SoloBounds DEF SoloInv, SoloTypes
  <2>3. Hears(e, f)
    BY <2>1, <2>2, <1>1, <1>6, <1>9, <1>14 DEF Hears
  <2> QED BY <2>3, <1>0, <1>5, FollowStays
<1>16. Leaves(e, f)
  <2>1. Gathers(e)' => Gathers(e)
    BY <1>4, <1>d DEF Gathers
  <2>2. ~Emitted(f, e)'
    <3> SUFFICES ASSUME creates[e] = 1 PROVE ~HasLocal(pcs'[e][1])
      BY <1>1 DEF Emitted
    <3>1. n = 1
      BY <1>9, <1>4
    <3> QED BY <3>1, <1>4, <1>d DEF HasLocal
  <2> QED BY <2>1, <2>2, <1>1, <1>4, <1>14, <1>b DEF Leaves, Sends
<1>17. SoloEnd(f)'
  BY <1>0, <1>5, <1>16, OtherEnd
<1> QED BY SMTT(30), <1>0, <1>5, <1>8, <1>10, <1>11, <1>12, <1>13, <1>15, <1>17 DEF SoloInv, SoloEnd

\* addIceCandidate
LEMMA AddedIs ==
    ASSUME NEW q \in Seq(Pc), NEW i \in DOMAIN q, NEW cs \in SUBSET PcId
    PROVE  /\ Added(q, i, cs) \in Seq(Pc) /\ Len(Added(q, i, cs)) = Len(q)
           /\ DOMAIN Added(q, i, cs) = DOMAIN q
           /\ \A k \in DOMAIN q :
                /\ Added(q, i, cs)[k].open = q[k].open /\ Added(q, i, cs)[k].sig = q[k].sig
                /\ Added(q, i, cs)[k].remote = q[k].remote /\ Added(q, i, cs)[k].gather = q[k].gather
                /\ q[k].cands \subseteq Added(q, i, cs)[k].cands
           /\ q[i].open /\ q[i].remote # 0
                => Added(q, i, cs)[i].cands = q[i].cands \cup (cs \cap {q[i].remote})
<1>1. CASE q[i].open /\ q[i].remote # 0
  <2>1. q[i] \in Pc
    OBVIOUS
  <2>2. PICK p \in Pc : p = [q[i] EXCEPT !.cands = @ \cup (cs \cap {q[i].remote})]
    BY <2>1 DEF Pc
  <2>3. /\ p.open = q[i].open /\ p.sig = q[i].sig /\ p.remote = q[i].remote
        /\ p.gather = q[i].gather /\ p.cands = q[i].cands \cup (cs \cap {q[i].remote})
    BY <2>1, <2>2 DEF Pc
  <2>4. Added(q, i, cs) = [q EXCEPT ![i] = p]
    BY <1>1, <2>2 DEF Added
  <2>5. /\ [q EXCEPT ![i] = p] \in Seq(Pc) /\ Len([q EXCEPT ![i] = p]) = Len(q)
        /\ DOMAIN [q EXCEPT ![i] = p] = DOMAIN q /\ [q EXCEPT ![i] = p][i] = p
        /\ \A k \in DOMAIN q : k # i => [q EXCEPT ![i] = p][k] = q[k]
    BY SetAt
  <2>6. \A k \in DOMAIN q : (k = i /\ Added(q, i, cs)[k] = p)
                            \/ (k # i /\ Added(q, i, cs)[k] = q[k])
    BY <2>4, <2>5
  <2>7. \A k \in DOMAIN q :
          /\ Added(q, i, cs)[k].open = q[k].open /\ Added(q, i, cs)[k].sig = q[k].sig
          /\ Added(q, i, cs)[k].remote = q[k].remote /\ Added(q, i, cs)[k].gather = q[k].gather
          /\ q[k].cands \subseteq Added(q, i, cs)[k].cands
    BY <2>3, <2>6
  <2> QED BY <2>3, <2>4, <2>5, <2>7
<1>2. CASE ~(q[i].open /\ q[i].remote # 0)
  BY <1>2 DEF Added
<1> QED BY <1>1, <1>2

\* setRemoteDescription is through
LEMMA RemoteSetKeeps == ASSUME SoloInv, NEW e \in End, RemoteSet(e) PROVE SoloInv'
<1> PICK f \in End : f = Far(e)
  BY Ends
<1>0. f # e /\ e = Far(f) /\ \A g \in End : g = e \/ g = f
  BY Ends
<1>a. PICK t \in tasks[e] :
        /\ t.stage = "remote" /\ pcs[e][t.pc].open
        /\ t.kind = "answer" => pcs[e][t.pc].sig = "local"
        /\ pcs' = [pcs EXCEPT ![e] =
             Added([pcs[e] EXCEPT ![t.pc].remote = t.sdp,
                                  ![t.pc].sig = IF t.kind = "offer" THEN "remote" ELSE "stable"],
                   t.pc, pending[e])]
        /\ ready' = [ready EXCEPT ![e] = TRUE]
        /\ pending' = [pending EXCEPT ![e] = {}]
        /\ IF t.kind = "offer" THEN Becomes(e, t, [t EXCEPT !.stage = "answering"])
                               ELSE Forget(e, t)
        /\ UNCHANGED <<call, stream, signals, pc, creates, refused, late, restarts>>
  BY DEF RemoteSet
<1>b. /\ t \in Task /\ pcs \in [End -> Seq(Pc)] /\ pcs[e] \in Seq(Pc) /\ pcs[f] \in Seq(Pc)
      /\ tasks \in [End -> SUBSET Task] /\ pending \in [End -> SUBSET PcId]
      /\ ready \in [End -> BOOLEAN] /\ pending[e] \in SUBSET PcId
      /\ Len(pcs[e]) \in Nat /\ Len(pcs[f]) \in Nat /\ SoloEnd(e)
  BY DEF SoloInv, SoloTypes
<1>c. /\ t.pc \in DOMAIN pcs[e] /\ pcs[e][t.pc] \in Pc /\ t.pc <= Len(pcs[e])
      /\ t.sdp \in PcId /\ t.sdp <= Len(pcs[f])
  BY <1>a, <1>b, TaskHere, TaskShape
<1>d. PICK i \in DOMAIN pcs[e] : i = t.pc
  BY <1>c
<1>e. PICK p \in Pc : p = [pcs[e][i] EXCEPT !.remote = t.sdp,
                                            !.sig = IF t.kind = "offer" THEN "remote" ELSE "stable"]
  <2>1. t.sdp \in 0 .. MaxPcs
    BY <1>c, SoloBounds DEF PcId
  <2>2. [pcs[e][i] EXCEPT !.remote = t.sdp,
                          !.sig = IF t.kind = "offer" THEN "remote" ELSE "stable"] \in Pc
    BY <2>1, <1>c, <1>d DEF Pc
  <2> QED BY <2>2
<1>f. /\ p.open /\ p.remote = t.sdp /\ p.cands = pcs[e][i].cands /\ p.gather = pcs[e][i].gather
      /\ t.kind = "offer" => p.sig = "remote"
  BY <1>a, <1>c, <1>d, <1>e DEF Pc
<1>g. PICK q \in Seq(Pc) : q = [pcs[e] EXCEPT ![i] = p]
  BY <1>b, SetAt
<1>h. /\ Len(q) = Len(pcs[e]) /\ DOMAIN q = DOMAIN pcs[e] /\ q[i] = p
      /\ \A k \in DOMAIN pcs[e] : k # i => q[k] = pcs[e][k]
  BY <1>b, <1>g, SetAt
<1>i. pcs' = [pcs EXCEPT ![e] = Added(q, i, pending[e])]
  BY <1>a, <1>d, <1>e, <1>g
<1>j. t.sdp # 0
  BY <1>c, SoloBounds DEF PcId
<1>l. PICK cs \in SUBSET PcId : cs = pending[e]
  BY <1>b
<1>m. i \in DOMAIN q /\ q[i].open /\ q[i].remote # 0
  BY <1>f, <1>h, <1>j
<1>n. PICK r : r = Added(q, i, cs)
  OBVIOUS
<1>2. /\ r \in Seq(Pc) /\ Len(r) = Len(q) /\ DOMAIN r = DOMAIN q
      /\ \A k \in DOMAIN q :
           /\ r[k].open = q[k].open /\ r[k].sig = q[k].sig
           /\ r[k].remote = q[k].remote /\ r[k].gather = q[k].gather
           /\ q[k].cands \subseteq r[k].cands
      /\ r[i].cands = q[i].cands \cup (cs \cap {q[i].remote})
  BY <1>m, <1>n, AddedIs
<1>k. PICK T \in SUBSET Task :
        /\ tasks' = [tasks EXCEPT ![e] = T]
        /\ \A v \in T : \/ v \in tasks[e]
                        \/ v.stage = "answering" /\ v.pc = t.pc /\ v.sdp = t.sdp
  <2>1. CASE t.kind = "offer"
    <3>1. PICK u \in Task : u = [t EXCEPT !.stage = "answering"]
      BY <2>1, <1>a, <1>b, TaskMoves
    <3>2. u.stage = "answering" /\ u.pc = t.pc /\ u.sdp = t.sdp
      BY <3>1, <1>b DEF Task
    <3>3. PICK T \in SUBSET Task : T = (tasks[e] \ {t}) \cup {u}
      BY <1>b
    <3> QED BY <3>1, <3>2, <3>3, <2>1, <1>a DEF Becomes
  <2>3. CASE t.kind # "offer"
    <3>3. PICK T \in SUBSET Task : T = tasks[e] \ {t}
      BY <1>b
    <3> QED BY <3>3, <2>3, <1>a DEF Forget
  <2> QED BY <2>1, <2>3
<1>1. UNCHANGED <<call, stream, signals, pc, creates, refused, late, restarts>>
  BY <1>a
<1>3. /\ pcs' \in [End -> Seq(Pc)] /\ pcs'[f] = pcs[f] /\ pcs'[e] = r
      /\ pending' \in [End -> SUBSET PcId] /\ pending'[f] = pending[f] /\ pending'[e] = {}
      /\ ready' \in [End -> BOOLEAN] /\ ready'[f] = ready[f]
      /\ tasks' \in [End -> SUBSET Task] /\ tasks'[f] = tasks[f] /\ tasks'[e] = T
  BY <1>0, <1>a, <1>b, <1>i, <1>k, <1>l, <1>n, <1>2
<1>4. /\ Len(pcs'[e]) = Len(pcs[e]) /\ DOMAIN pcs'[e] = DOMAIN pcs[e]
      /\ pcs'[e][i].open /\ pcs[e][i].open /\ pcs'[e][i].remote = t.sdp
      /\ \A k \in DOMAIN pcs[e] :
           /\ pcs'[e][k].open = pcs[e][k].open /\ pcs'[e][k].gather = pcs[e][k].gather
           /\ k # i => pcs'[e][k].remote = pcs[e][k].remote
           /\ pcs[e][k].cands \subseteq pcs'[e][k].cands
      /\ t.sdp \in pending[e] => t.sdp \in pcs'[e][i].cands
      /\ t.kind = "offer" => pcs'[e][i].sig = "remote"
  <2>1. Len(r) = Len(pcs[e]) /\ DOMAIN r = DOMAIN pcs[e]
    BY <1>h, <1>2
  <2>2. /\ r[i].open /\ pcs[e][i].open /\ r[i].remote = t.sdp
        /\ t.kind = "offer" => r[i].sig = "remote"
    BY <1>a, <1>d, <1>f, <1>h, <1>2
  <2>3. t.sdp \in pending[e] => t.sdp \in r[i].cands
    BY <1>f, <1>h, <1>l, <1>2
  <2>4. ASSUME NEW k \in DOMAIN pcs[e]
        PROVE  /\ r[k].open = pcs[e][k].open /\ r[k].gather = pcs[e][k].gather
               /\ k # i => r[k].remote = pcs[e][k].remote
               /\ pcs[e][k].cands \subseteq r[k].cands
    <3>1. CASE k = i
      BY <3>1, <2>2, <1>f, <1>h, <1>2
    <3>2. CASE k # i
      BY <3>2, <1>h, <1>2
    <3> QED BY <3>1, <3>2
  <2> QED BY <2>1, <2>2, <2>3, <2>4, <1>3
<1>5. SoloTypes'
  BY <1>1, <1>3 DEF SoloInv, SoloTypes
<1>6. Listens(e)
  BY <1>1 DEF Listens
<1>7. Creating(e)' \subseteq Creating(e) /\ Matching(e)' \subseteq Matching(e)
  BY <1>k, <1>3 DEF Creating, Matching
<1>8. OwnNumbers(e)'
  <2>1. \A v \in T : v.pc <= Len(pcs[e])
    BY <1>k, <1>b, <1>c DEF SoloEnd, OwnNumbers
  <2>2. pc[e] # 0 => pc[e] \in DOMAIN pcs[e]
    BY <1>b DEF SoloEnd, OwnNumbers, SoloInv, SoloTypes
  <2> QED BY <2>1, <2>2, <1>1, <1>3, <1>4, <1>b DEF SoloEnd, OwnNumbers
<1>9. creates[e] < 2 => i = 1 /\ creates[e] = 1 /\ pcs[e] # <<>> /\ Creating(e) = {} /\ Len(pcs[e]) = 1
  <2> SUFFICES ASSUME creates[e] < 2
               PROVE  i = 1 /\ creates[e] = 1 /\ pcs[e] # <<>> /\ Creating(e) = {} /\ Len(pcs[e]) = 1
    OBVIOUS
  <2>1. i = 1 /\ creates[e] = 1 /\ pcs[e] # <<>> /\ Creating(e) = {} /\ Len(pcs[e]) = 1
    BY OnlyOne
  <2> QED BY <2>1, <1>b
<1>10. OneRun(e)'
  BY <1>1, <1>3, <1>4, <1>7, <1>9, <1>b, <1>j DEF SoloEnd, OneRun
<1>11. Gone(e)'
  BY <1>1, <1>7, <1>b DEF SoloEnd, Gone
<1>12. FarNumbers(e, Len(pcs[f]))'
  <2>1. \A v \in tasks'[e] : v \in tasks[e] \/ v.sdp <= Len(pcs[f])
    BY <1>k, <1>c, <1>3
  <2>2. \A k \in DOMAIN pcs'[e] :
             (k \in DOMAIN pcs[e] /\ pcs'[e][k].remote = pcs[e][k].remote)
             \/ pcs'[e][k].remote <= Len(pcs[f])
    BY <1>4, <1>c
  <2> QED BY <2>1, <2>2, <1>1, <1>3, <1>6, FarStays
<1>13. OfferFirst(e)'
  BY <1>1, <1>3, <1>6, <1>b, OfferStays DEF SoloInv, SoloEnd
<1>14. Apart(f)
  BY <1>1, <1>3 DEF Apart
<1>15. Emitted(e, f)' => Followed(e, f)'
  <2>1. creates[e] = 1 /\ Emitted(e, f) /\ 1 \in pending[e] => Followed(e, f)'
    <3> SUFFICES ASSUME creates[e] = 1, Emitted(e, f), 1 \in pending[e]
                 PROVE  Followed(e, f)'
      OBVIOUS
    <3>1. Len(pcs[f]) \in Nat /\ Len(pcs[f]) <= 1
      BY OnlyOne DEF Emitted
    <3>2. t.sdp = 1 /\ i = 1
      <4>1. i = 1
        BY <1>9
      <4>2. t.sdp \in Nat /\ t.sdp >= 1 /\ t.sdp <= Len(pcs[f])
        BY <1>c, SoloBounds DEF PcId
      <4>3. Len(pcs[f]) \in Nat /\ Len(pcs[f]) <= 1
        BY <3>1
      <4>4. PICK m \in Nat : m = t.sdp
        BY <4>2
      <4>5. m = 1
        BY <4>2, <4>3, <4>4
      <4> QED BY <4>1, <4>4, <4>5
    <3>3. pcs'[e] # <<>>
      BY <1>9, <1>3, <1>4, <1>b
    <3> QED BY <3>2, <3>3, <1>1, <1>4 DEF Followed
  <2>2. restarts \in Nat /\ creates[e] \in Nat
    BY SoloBounds DEF SoloInv, SoloTypes
  <2>3. creates[e] = 1 => 1 \in DOMAIN pcs[e] /\ pcs'[e] # <<>>
    BY <1>9, <1>3, <1>4, <1>b
  <2>4. Hears(e, f)
    BY <2>1, <2>2, <2>3, <1>1, <1>4, <1>6, <1>14 DEF Hears
  <2> QED BY <2>4, <1>0, <1>5, FollowStays
<1>16. Leaves(e, f)
  <2>1. Gathers(e)' => Gathers(e)
    BY <1>4 DEF Gathers
  <2>2. Emitted(f, e)' => pcs'[e][1].gather \/ (Emitted(f, e) /\ ~pcs[e][1].gather)
    <3> SUFFICES ASSUME Emitted(f, e)' PROVE Emitted(f, e) /\ pcs'[e][1].gather = pcs[e][1].gather
      OBVIOUS
    <3>1. creates[e] = 1 /\ HasLocal(pcs'[e][1])
      BY <1>1 DEF Emitted
    <3>2. i = 1
      BY <3>1, <1>9
    <3>3. t.kind # "offer"
      BY <3>1, <3>2, <1>4 DEF HasLocal
    <3>4. HasLocal(pcs[e][1])
      BY <3>2, <3>3, <1>a, <1>b, <1>d, TaskShape DEF HasLocal
    <3> QED BY <3>2, <3>4, <1>1, <1>4, <1>14 DEF Emitted, Apart
  <2> QED BY <2>1, <2>2, <1>1, <1>4, <1>14, <1>b DEF Leaves, Sends
<1>17. SoloEnd(f)'
  BY <1>0, <1>5, <1>16, OtherEnd
<1> QED BY <1>0, <1>5, <1>8, <1>10, <1>11, <1>12, <1>13, <1>15, <1>17 DEF SoloInv, SoloEnd

\* A step of e that takes its next signal and leaves its connections alone.
LEMMA TakenKeeps ==
    ASSUME SoloInv, NEW e \in End, signals[e] # <<>>, signals' = [signals EXCEPT ![e] = Tail(@)],
           NEW T \in SUBSET Task, tasks' = [tasks EXCEPT ![e] = T],
           \A v \in T : v \in tasks[e] \/ ( /\ v.stage = "remote" /\ v.pc = pc[e]
                                            /\ v.sdp = Head(signals[e]).pc ),
           NEW P \in SUBSET PcId, pending' = [pending EXCEPT ![e] = P],
           pending[e] \subseteq P, \A i \in P : i \in pending[e] \/ i = Head(signals[e]).pc,
           refused' \in [End -> BOOLEAN], \A g \in End : refused[g] => refused'[g],
           \A g \in End : g # e => refused'[g] = refused[g],
           Head(signals[e]).kind = "offer" => pc[e] # 0 \/ refused'[e] \/ call[e] = "left",
           Head(signals[e]).kind = "candidate" => Head(signals[e]).pc \in P \/ call[e] = "left",
           UNCHANGED <<call, stream, pc, pcs, ready, creates, late, restarts>>
    PROVE  SoloInv'
<1> PICK f \in End : f = Far(e)
  BY Ends
<1>0. f # e /\ e = Far(f) /\ \A g \in End : g = e \/ g = f
  BY Ends
<1>1. /\ SoloEnd(e) /\ Len(pcs[e]) \in Nat /\ Len(pcs[f]) \in Nat /\ creates[e] \in Nat
      /\ restarts \in Nat /\ pcs[e] \in Seq(Pc) /\ pc[e] \in Nat /\ signals \in [End -> Seq(Signal)]
      /\ tasks \in [End -> SUBSET Task] /\ pending \in [End -> SUBSET PcId]
  BY SoloBounds DEF SoloInv, SoloTypes
<1>2. /\ Tail(signals[e]) \in Seq(Signal) /\ Head(signals[e]).pc \in Nat
      /\ Head(signals[e]).pc <= Len(pcs[f])
      /\ Head(signals[e]).kind = "candidate" => Head(signals[e]).pc \in PcId
  BY HeadSignal
<1>3. /\ signals' \in [End -> Seq(Signal)] /\ signals'[f] = signals[f]
      /\ signals'[e] = Tail(signals[e]) /\ tasks' \in [End -> SUBSET Task]
      /\ tasks'[e] = T /\ tasks'[f] = tasks[f]
      /\ pending' \in [End -> SUBSET PcId] /\ pending'[e] = P /\ pending'[f] = pending[f]
  BY <1>0, <1>1, <1>2
<1>4. SoloTypes'
  BY <1>3 DEF SoloInv, SoloTypes
<1>5. pc[e] # 0 => creates[e] # 0
  <2>1. pc[e] # 0 => pcs[e] # <<>>
    BY <1>1 DEF SoloEnd, OwnNumbers
  <2> QED BY <2>1, <1>1 DEF SoloEnd, OneRun
<1>6. Listens(e)
  BY <1>3, <1>5 DEF Listens
<1>7. Creating(e)' \subseteq Creating(e) /\ Matching(e)' \subseteq Matching(e)
  BY <1>3 DEF Creating, Matching
<1>8. OwnNumbers(e)' /\ OneRun(e)' /\ Gone(e)'
  <2>1. \A v \in T : v.pc <= Len(pcs[e])
    BY <1>1 DEF SoloEnd, OwnNumbers
  <2>2. OwnNumbers(e)'
    BY <2>1, <1>1, <1>3 DEF SoloEnd, OwnNumbers
  <2>3. OneRun(e)' /\ Gone(e)'
    BY <1>1, <1>7 DEF SoloEnd, OneRun, Gone
  <2> QED BY <2>2, <2>3
<1>9. FarNumbers(e, Len(pcs[f]))'
  <2>1. \A v \in tasks'[e] : v \in tasks[e] \/ v.sdp <= Len(pcs[f])
    BY <1>2, <1>3
  <2>2. \A i \in pending'[e] : i \in pending[e] \/ i <= Len(pcs[f])
    BY <1>2, <1>3
  <2> QED BY <2>1, <2>2, <1>6, FarStays
<1>10. OfferFirst(e)'
  BY <1>6, <1>1, OfferStays DEF SoloInv, SoloEnd
<1>11. Apart(f)
  BY <1>0, <1>3 DEF Apart
<1>12. Emitted(e, f)' => Followed(e, f)'
  <2>1. 1 \in pending[e] /\ creates[e] = 1 => Followed(e, f)'
    BY <1>3 DEF Followed
  <2>2. Head(signals[e]).kind = "candidate" /\ creates[e] = 1 /\ Emitted(e, f)' => Followed(e, f)'
    <3> SUFFICES ASSUME Head(signals[e]).kind = "candidate", creates[e] = 1, Emitted(e, f)'
                 PROVE  Followed(e, f)'
      OBVIOUS
    <3>1. creates[f] < 2 /\ call[e] # "left"
      BY <1>11 DEF Emitted, Apart
    <3>2. Len(pcs[f]) \in Nat /\ Len(pcs[f]) <= 1
      BY <3>1, OnlyOne
    <3>3. Head(signals[e]).pc >= 1
      BY <1>2, SoloBounds DEF PcId
    <3>4. Head(signals[e]).pc = 1
      <4>1. PICK n \in Nat : n = Head(signals[e]).pc
        BY <1>2
      <4>2. Len(pcs[f]) <= 1
        BY <3>2
      <4>3. n = 1
        BY <4>1, <4>2, <3>3, <1>1, <1>2
      <4> QED BY <4>1, <4>3
    <3> QED BY <3>1, <3>4, <1>3 DEF Followed
  <2>3. Hears(e, f)
    BY <2>1, <2>2, <1>1, <1>6, <1>11 DEF Hears
  <2> QED BY <2>3, <1>0, <1>4, FollowStays
<1>13. Leaves(e, f)
  <2>1. Emitted(f, e)' => Emitted(f, e)
    BY <1>0, <1>11 DEF Emitted, Apart
  <2> QED BY <2>1, <1>1, <1>3, <1>11 DEF Leaves, Sends, Gathers
<1>14. SoloEnd(f)'
  BY <1>0, <1>4, <1>13, OtherEnd
<1> QED BY <1>0, <1>4, <1>8, <1>9, <1>10, <1>12, <1>14 DEF SoloInv, SoloEnd

\* an offer for the connection there is, an answer, a signal after the call
LEMMA OnOfferKeeps == ASSUME SoloInv, NEW e \in End, OnOffer(e) PROVE SoloInv'
<1>1. /\ signals[e] # <<>> /\ Head(signals[e]).kind = "offer" /\ pc[e] # 0
      /\ signals' = [signals EXCEPT ![e] = Tail(@)]
      /\ tasks' = [tasks EXCEPT ![e] =
           @ \cup {[kind |-> "offer", stage |-> "remote", pc |-> pc[e], sdp |-> Head(signals[e]).pc]}]
      /\ UNCHANGED <<call, stream, pc, pcs, pending, ready, creates, refused, late, restarts>>
  BY DEF OnOffer, Arrives, Taken
<1>2. pc[e] \in PcId /\ Head(signals[e]).pc \in PcId
  <2>1. pc[e] \in PcId
    BY <1>1, SoloBounds DEF SoloInv, SoloTypes, SoloEnd, OwnNumbers, PcId
  <2> QED BY <2>1, <1>1, HeadSignal
<1>3. PICK u \in Task :
        u = [kind |-> "offer", stage |-> "remote", pc |-> pc[e], sdp |-> Head(signals[e]).pc]
  BY <1>2, TaskMade
<1>4. /\ tasks[e] \subseteq Task /\ pending[e] \in SUBSET PcId /\ refused \in [End -> BOOLEAN]
      /\ pending \in [End -> SUBSET PcId]
  BY DEF SoloInv, SoloTypes
<1>5. PICK T \in SUBSET Task : T = tasks[e] \cup {u}
  BY <1>4
<1>6. PICK P \in SUBSET PcId : P = pending[e]
  BY <1>4
<1>7. /\ tasks' = [tasks EXCEPT ![e] = T] /\ pending' = [pending EXCEPT ![e] = P]
      /\ \A v \in T : v \in tasks[e] \/ ( /\ v.stage = "remote" /\ v.pc = pc[e]
                                          /\ v.sdp = Head(signals[e]).pc )
  BY <1>1, <1>3, <1>4, <1>5, <1>6
<1> QED BY <1>1, <1>4, <1>6, <1>7, TakenKeeps

LEMMA OnAnswerKeeps == ASSUME SoloInv, NEW e \in End, OnAnswer(e) PROVE SoloInv'
<1>1. /\ signals[e] # <<>> /\ Head(signals[e]).kind = "answer"
      /\ signals' = [signals EXCEPT ![e] = Tail(@)]
      /\ tasks' = IF pc[e] = 0 THEN tasks
                  ELSE [tasks EXCEPT ![e] = @ \cup {[kind |-> "answer", stage |-> "remote",
                                         pc |-> pc[e], sdp |-> Head(signals[e]).pc]}]
      /\ UNCHANGED <<call, stream, pc, pcs, pending, ready, creates, refused, late, restarts>>
  BY DEF OnAnswer, Arrives, Taken
<1>4. /\ tasks[e] \subseteq Task /\ pending[e] \in SUBSET PcId /\ refused \in [End -> BOOLEAN]
      /\ pending \in [End -> SUBSET PcId] /\ tasks \in [End -> SUBSET Task]
  BY DEF SoloInv, SoloTypes
<1>5. PICK T \in SUBSET Task :
        /\ tasks' = [tasks EXCEPT ![e] = T]
        /\ \A v \in T : v \in tasks[e] \/ ( /\ v.stage = "remote" /\ v.pc = pc[e]
                                            /\ v.sdp = Head(signals[e]).pc )
  <2>1. CASE pc[e] = 0
    BY <2>1, <1>1, <1>4
  <2>2. CASE pc[e] # 0
    <3>1. pc[e] \in PcId
      BY <2>2, SoloBounds DEF SoloInv, SoloTypes, SoloEnd, OwnNumbers, PcId
    <3>2. Head(signals[e]).pc \in PcId
      BY <1>1, HeadSignal
    <3>3. PICK u \in Task :
            u = [kind |-> "answer", stage |-> "remote", pc |-> pc[e], sdp |-> Head(signals[e]).pc]
      BY <3>1, <3>2, TaskMade
    <3>4. PICK T \in SUBSET Task : T = tasks[e] \cup {u}
      BY <1>4
    <3>5. \A v \in T : v \in tasks[e] \/ ( /\ v.stage = "remote" /\ v.pc = pc[e]
                                           /\ v.sdp = Head(signals[e]).pc )
      BY <3>3, <3>4
    <3>6. tasks' = [tasks EXCEPT ![e] = T]
      BY <3>3, <3>4, <2>2, <1>1
    <3> QED BY <3>5, <3>6
  <2> QED BY <2>1, <2>2
<1>6. PICK P \in SUBSET PcId : P = pending[e]
  BY <1>4
<1>7. pending' = [pending EXCEPT ![e] = P]
  BY <1>1, <1>4, <1>6
<1> QED BY <1>1, <1>4, <1>5, <1>6, <1>7, TakenKeeps

LEMMA OnStaleKeeps == ASSUME SoloInv, NEW e \in End, OnStale(e) PROVE SoloInv'
<1>1. /\ signals[e] # <<>> /\ call[e] = "left"
      /\ signals' = [signals EXCEPT ![e] = Tail(@)]
      /\ UNCHANGED <<call, stream, tasks, pc, pcs, pending, ready, creates, refused, late, restarts>>
  BY DEF OnStale, Taken
<1>4. /\ tasks[e] \subseteq Task /\ pending[e] \in SUBSET PcId /\ refused \in [End -> BOOLEAN]
      /\ pending \in [End -> SUBSET PcId] /\ tasks \in [End -> SUBSET Task]
  BY DEF SoloInv, SoloTypes
<1>5. PICK T \in SUBSET Task : T = tasks[e]
  BY <1>4
<1>6. PICK P \in SUBSET PcId : P = pending[e]
  BY <1>4
<1>7. pending' = [pending EXCEPT ![e] = P] /\ tasks' = [tasks EXCEPT ![e] = T]
  BY <1>1, <1>4, <1>5, <1>6
<1> QED BY <1>1, <1>4, <1>5, <1>6, <1>7, TakenKeeps

\* an offer before there is a connection: createPeer begins, or it is refused
LEMMA EarlyOfferRefused ==
    ASSUME SoloInv, NEW e \in End, Arrives(e, "offer"), Taken(e),
           refused' = [refused EXCEPT ![e] = TRUE],
           UNCHANGED <<call, stream, tasks, pc, pcs, pending, ready, creates, late, restarts>>
    PROVE  SoloInv'
<1>1. /\ signals[e] # <<>> /\ Head(signals[e]).kind = "offer"
      /\ signals' = [signals EXCEPT ![e] = Tail(@)]
  BY DEF Arrives, Taken
<1>4. /\ tasks[e] \subseteq Task /\ pending[e] \in SUBSET PcId /\ refused \in [End -> BOOLEAN]
      /\ pending \in [End -> SUBSET PcId] /\ tasks \in [End -> SUBSET Task]
  BY DEF SoloInv, SoloTypes
<1>5. PICK T \in SUBSET Task : T = tasks[e]
  BY <1>4
<1>6. PICK P \in SUBSET PcId : P = pending[e]
  BY <1>4
<1>7. pending' = [pending EXCEPT ![e] = P] /\ tasks' = [tasks EXCEPT ![e] = T]
  BY <1>4, <1>5, <1>6
<1>8. /\ refused' \in [End -> BOOLEAN] /\ refused'[e]
      /\ \A g \in End : (refused[g] => refused'[g]) /\ (g # e => refused'[g] = refused[g])
  BY <1>4
<1> QED BY <1>1, <1>5, <1>6, <1>7, <1>8, TakenKeeps

LEMMA EarlyOfferCreates ==
    ASSUME SoloInv, NEW e \in End, Arrives(e, "offer"), Taken(e), StartCreate(e),
           tasks' = [tasks EXCEPT ![e] =
              @ \cup {[kind |-> "offer", stage |-> "ice", pc |-> 0, sdp |-> Head(signals[e]).pc]}],
           UNCHANGED <<call, stream, refused, late, restarts>>
    PROVE  SoloInv'
<1> PICK f \in End : f = Far(e)
  BY Ends
<1>0. f # e /\ e = Far(f) /\ \A g \in End : g = e \/ g = f
  BY Ends
<1>a. /\ signals[e] # <<>> /\ Head(signals[e]).kind = "offer" /\ call[e] = "in"
      /\ signals' = [signals EXCEPT ![e] = Tail(@)]
  BY DEF Arrives, Taken
<1>b. /\ Tail(signals[e]) \in Seq(Signal) /\ Head(signals[e]).pc \in PcId
      /\ Head(signals[e]).pc <= Len(pcs[f])
  BY <1>a, HeadSignal
<1>c. PICK u \in Task :
        u = [kind |-> "offer", stage |-> "ice", pc |-> 0, sdp |-> Head(signals[e]).pc]
  BY <1>b, TaskMade
<1>d. u.stage = "ice" /\ u.pc = 0 /\ u.sdp <= Len(pcs[f])
  BY <1>b, <1>c
<1>1. tasks' = [tasks EXCEPT ![e] = @ \cup {u}]
  BY <1>c
<1>2. ClearSolo(e) /\ creates' = [creates EXCEPT ![e] = @ + 1]
  BY DEF StartCreate
<1>e. /\ pcs' \in [End -> Seq(Pc)] /\ pc' \in [End -> Nat] /\ ready' \in [End -> BOOLEAN]
      /\ pending' \in [End -> SUBSET PcId]
      /\ pcs'[f] = pcs[f] /\ pc'[f] = pc[f] /\ pending'[f] = pending[f] /\ ready'[f] = ready[f]
      /\ pc'[e] = 0 /\ ~ready'[e] /\ pending'[e] = {}
      /\ SamePcs(e)
  BY <1>0, <1>2, Cleared
<1>f. /\ signals \in [End -> Seq(Signal)] /\ tasks \in [End -> SUBSET Task]
      /\ creates \in [End -> Nat] /\ creates[e] \in Nat
  BY DEF SoloInv, SoloTypes
<1>g. /\ signals' \in [End -> Seq(Signal)] /\ signals'[f] = signals[f]
      /\ signals'[e] = Tail(signals[e])
      /\ tasks' \in [End -> SUBSET Task] /\ tasks'[e] = tasks[e] \cup {u} /\ tasks'[f] = tasks[f]
  BY <1>0, <1>1, <1>a, <1>b, <1>f
<1>h. creates' \in [End -> Nat] /\ creates'[e] = creates[e] + 1 /\ creates'[f] = creates[f]
  BY <1>0, <1>2, <1>f
<1>3. SoloTypes'
  BY <1>e, <1>g, <1>h DEF SoloInv, SoloTypes
<1>4. SoloEnd(e) /\ Listens(e) /\ creates'[e] # 0
  BY <1>a, <1>f, <1>g, <1>h DEF SoloInv, Listens
<1>5. \A v \in Creating(e)' : v = u \/ v \in Creating(e)
  BY <1>g DEF Creating
<1>6. OwnNumbers(e)' /\ OneRun(e)' /\ Gone(e)'
  <2>1. Len(pcs[e]) \in Nat /\ (pcs[e] = <<>> => Len(pcs[e]) = 0) /\ pcs'[e] \in Seq(Pc)
    <3>1. pcs[e] \in Seq(Pc)
      BY DEF SoloInv, SoloTypes
    <3>2. pcs'[e] \in Seq(Pc)
      BY <1>e
    <3>3. pcs[e] = <<>> => Len(pcs[e]) = 0
      OBVIOUS
    <3> QED BY <3>1, <3>2, <3>3
  <2>2. creates'[e] = 1 => creates[e] = 0
    BY <1>f, <1>h
  <2>3. creates[e] = 0 => pcs[e] = <<>> /\ Creating(e) = {}
    BY <1>4 DEF SoloEnd, OneRun
  <2>4. creates[e] = 0 => pcs'[e] = <<>> /\ \A v, w \in Creating(e)' : v = w
    <3>1. creates[e] = 0 => pcs'[e] = <<>>
      <4>1. Len(pcs'[e]) = Len(pcs[e])
        BY <1>e DEF SamePcs
      <4> QED BY <4>1, <2>1, <2>3
    <3>2. creates[e] = 0 => \A v, w \in Creating(e)' : v = w
      BY <2>3, <1>5
    <3> QED BY <3>1, <3>2
  <2>5. OwnNumbers(e)'
    BY <2>1, <1>d, <1>4, <1>e, <1>g DEF SoloEnd, OwnNumbers, SamePcs
  <2>6. OneRun(e)'
    BY <2>2, <2>4, <1>4, <1>e DEF OneRun
  <2> QED BY <2>5, <2>6, <1>a DEF Gone
<1>7. FarNumbers(e, Len(pcs[f]))'
  <2>2. \A v \in tasks'[e] : v \in tasks[e] \/ v.sdp <= Len(pcs[f])
    BY <1>d, <1>g
  <2> QED BY <2>2, <1>4, <1>e, FarStays DEF SamePcs
<1>8. OfferFirst(e)'
  BY <1>4 DEF OfferFirst
<1>9. Apart(f)
  BY <1>0, <1>e, <1>g, <1>h DEF Apart, SoloInv, SoloTypes
<1>10. Emitted(e, f)' => Followed(e, f)'
  <2>1. restarts \in Nat
    BY SoloBounds DEF SoloInv, SoloTypes
  <2>2. Hears(e, f)
    BY <2>1, <1>a, <1>4, <1>9, <1>f, <1>h DEF Hears
  <2> QED BY <2>2, <1>0, <1>3, FollowStays
<1>11. Leaves(e, f)
  <2>1. ~Emitted(f, e)'
    BY <1>e DEF Emitted
  <2>2. Gathers(e)' => Gathers(e)
    BY <1>e DEF Gathers, SamePcs
  <2>3. Len(pcs'[e]) >= Len(pcs[e])
    BY <1>e DEF SamePcs, SoloInv, SoloTypes
  <2> QED BY <2>1, <2>2, <2>3, <1>9, <1>g DEF Leaves, Sends
<1>12. SoloEnd(f)'
  BY <1>0, <1>3, <1>11, OtherEnd
<1> QED BY <1>0, <1>3, <1>6, <1>7, <1>8, <1>10, <1>12 DEF SoloInv, SoloEnd

LEMMA OnEarlyOfferKeeps == ASSUME SoloInv, NEW e \in End, OnEarlyOffer(e) PROVE SoloInv'
BY EarlyOfferRefused, EarlyOfferCreates DEF OnEarlyOffer

\* a candidate is kept until the description comes
LEMMA OnCandidateKeeps == ASSUME SoloInv, NEW e \in End, OnCandidate(e) PROVE SoloInv'
<1> PICK f \in End : f = Far(e)
  BY Ends
<1>0. f # e /\ e = Far(f) /\ \A g \in End : g = e \/ g = f
  BY Ends
<1>a. /\ signals[e] # <<>> /\ Head(signals[e]).kind = "candidate" /\ call[e] = "in"
      /\ signals' = [signals EXCEPT ![e] = Tail(@)]
      /\ UNCHANGED <<call, stream, tasks, pc, ready, creates, refused, late, restarts>>
  BY DEF OnCandidate, Arrives, Taken
<1>b. /\ Tail(signals[e]) \in Seq(Signal) /\ Head(signals[e]).pc \in PcId
      /\ Head(signals[e]).pc <= Len(pcs[f])
  BY <1>a, HeadSignal
<1>c. PICK c \in PcId : c = Head(signals[e]).pc
  BY <1>b
<1>d. /\ signals \in [End -> Seq(Signal)] /\ tasks \in [End -> SUBSET Task] /\ restarts \in Nat
      /\ creates[e] \in Nat /\ pending \in [End -> SUBSET PcId] /\ pending[e] \in SUBSET PcId
      /\ pcs \in [End -> Seq(Pc)] /\ pcs[e] \in Seq(Pc) /\ pcs[f] \in Seq(Pc) /\ SoloEnd(e)
      /\ Len(pcs[f]) \in Nat /\ Len(pcs[e]) \in Nat /\ pc[e] \in Nat /\ tasks[e] \in SUBSET Task
      /\ refused \in [End -> BOOLEAN]
  BY SoloBounds DEF SoloInv, SoloTypes
<1>1. CASE pc[e] = 0 \/ ~ready[e]
  <2>1. pending' = [pending EXCEPT ![e] = @ \cup {c}] /\ pcs' = pcs
    BY <1>1, <1>c DEF OnCandidate
  <2>2. PICK P \in SUBSET PcId : P = pending[e] \cup {c}
    BY <1>d
  <2>3. PICK T \in SUBSET Task : T = tasks[e]
    BY <1>d
  <2>4. pending' = [pending EXCEPT ![e] = P] /\ tasks' = [tasks EXCEPT ![e] = T]
    BY <2>1, <2>2, <2>3, <1>a, <1>d
  <2>5. /\ refused' \in [End -> BOOLEAN] /\ \A g \in End : refused'[g] = refused[g]
        /\ \A v \in T : v \in tasks[e]
        /\ pending[e] \subseteq P /\ \A j \in P : j \in pending[e] \/ j = Head(signals[e]).pc
        /\ Head(signals[e]).pc \in P
    BY <2>2, <2>3, <1>a, <1>c, <1>d
  <2>6. \A v \in T : v \in tasks[e] \/ ( /\ v.stage = "remote" /\ v.pc = pc[e]
                                       /\ v.sdp = Head(signals[e]).pc )
    BY <2>5
  <2> QED BY <2>1, <2>4, <2>5, <2>6, <1>a, TakenKeeps
<1>2. CASE pc[e] # 0 /\ ready[e]
  <2>1. PICK i \in DOMAIN pcs[e] : i = pc[e]
    BY <1>2, <1>d DEF SoloEnd, OwnNumbers
  <2>4. PICK cs \in SUBSET PcId : cs = {c}
    OBVIOUS
  <2>2. PICK r : r = Added(pcs[e], i, cs)
    OBVIOUS
  <2>3. pcs' = [pcs EXCEPT ![e] = r] /\ pending' = pending
    BY <1>2, <1>c, <2>1, <2>2, <2>4 DEF OnCandidate
  <2>a. pcs[e] \in Seq(Pc)
    BY <1>d
  <2>5. /\ r \in Seq(Pc) /\ Len(r) = Len(pcs[e]) /\ DOMAIN r = DOMAIN pcs[e]
        /\ \A k \in DOMAIN pcs[e] :
             /\ r[k].open = pcs[e][k].open /\ r[k].sig = pcs[e][k].sig
             /\ r[k].remote = pcs[e][k].remote /\ r[k].gather = pcs[e][k].gather
             /\ pcs[e][k].cands \subseteq r[k].cands
        /\ pcs[e][i].open /\ pcs[e][i].remote # 0
             => r[i].cands = pcs[e][i].cands \cup (cs \cap {pcs[e][i].remote})
    BY <2>a, <2>2, AddedIs
  <2>6. /\ pcs' \in [End -> Seq(Pc)] /\ pcs'[f] = pcs[f] /\ pcs'[e] = r
        /\ signals' \in [End -> Seq(Signal)] /\ signals'[f] = signals[f]
        /\ signals'[e] = Tail(signals[e])
    BY <1>0, <1>a, <1>b, <1>d, <2>3, <2>5
  <2>7. SoloTypes'
    BY <1>a, <2>3, <2>6 DEF SoloInv, SoloTypes
  <2>8. Listens(e)
    BY <1>a, <2>6 DEF Listens
  <2>9. Creating(e)' = Creating(e) /\ Matching(e)' = Matching(e)
    BY <1>a DEF Creating, Matching
  <2>10. OwnNumbers(e)'
    BY <1>a, <1>d, <2>1, <2>5, <2>6 DEF SoloEnd, OwnNumbers
  <2>11. creates[e] < 2 => i = 1 /\ creates[e] = 1 /\ Len(pcs[e]) = 1 /\ pcs[e] # <<>>
    BY OnlyOne
  <2>12. OneRun(e)'
    <3>1. creates[e] = 1 => r # <<>>
      BY <2>5, <2>11, <1>d
    <3> QED BY <3>1, <1>a, <1>d, <2>5, <2>6, <2>9, <2>11 DEF SoloEnd, OneRun
  <2>13. Gone(e)'
    BY <1>a, <1>d, <2>9 DEF SoloEnd, Gone
  <2>14. FarNumbers(e, Len(pcs[f]))'
    BY <1>a, <2>3, <2>5, <2>6, <2>8, FarStays
  <2>15. OfferFirst(e)'
    BY <1>a, <1>d, <2>6, <2>8, OfferStays DEF SoloInv, SoloEnd
  <2>16. Apart(f)
    BY <1>a, <2>3, <2>6 DEF Apart
  <2>17. Emitted(e, f)' => Followed(e, f)'
    <3>1. 1 \in pending[e] /\ creates[e] = 1 => Followed(e, f)'
      BY <1>a, <2>3 DEF Followed
    <3>2. creates[e] = 1 /\ Emitted(e, f)' => Followed(e, f)'
      <4> SUFFICES ASSUME creates[e] = 1, Emitted(e, f)' PROVE Followed(e, f)'
        OBVIOUS
      <4>1. Len(pcs[f]) <= 1
        BY <2>16, OnlyOne DEF Emitted, Apart
      <4>2. i = 1 /\ Len(pcs[e]) = 1 /\ pcs[e] # <<>>
        BY <2>11
      <4>3. PICK m \in Nat : m = pcs[e][i].remote
        <5>1. pcs[e][i] \in Pc
          BY <1>d
        <5> QED BY <5>1, SoloBounds DEF Pc
      <4>4. m <= Len(pcs[f]) /\ m # 0
        BY <4>2, <4>3, <1>2, <1>d, <2>1 DEF SoloEnd, FarNumbers, OneRun
      <4>5. m = 1
        BY <4>1, <4>4, <1>d
      <4>6. c = 1
        <5>1. c \in Nat /\ c >= 1 /\ c <= Len(pcs[f])
          BY <1>b, <1>c, SoloBounds DEF PcId
        <5> QED BY <5>1, <4>1, <1>d
      <4>7. pcs[e][i].open
        BY <1>d, <2>1, <1>2 DEF SoloEnd, OwnNumbers
      <4>8. 1 \in r[1].cands /\ r # <<>>
        BY <4>2, <4>3, <4>4, <4>5, <4>6, <4>7, <2>4, <2>5, <1>d
      <4> QED BY <4>8, <1>a, <2>6 DEF Followed
    <3>3. creates[e] = 1 => 1 \in DOMAIN pcs[e] /\ r # <<>>
      BY <2>11, <2>5, <1>d
    <3>4. Hears(e, f)
      BY <3>1, <3>2, <3>3, <1>a, <1>d, <2>5, <2>6, <2>8, <2>16 DEF Hears
    <3> QED BY <3>4, <1>0, <2>7, FollowStays
  <2>18. Leaves(e, f)
    <3>1. Gathers(e)' => Gathers(e)
      BY <2>5, <2>6 DEF Gathers
    <3>2. Emitted(f, e)' => Emitted(f, e) /\ pcs'[e][1].gather = pcs[e][1].gather
      <4> SUFFICES ASSUME Emitted(f, e)'
                   PROVE  Emitted(f, e) /\ pcs'[e][1].gather = pcs[e][1].gather
        OBVIOUS
      <4>1. 1 \in DOMAIN pcs[e]
        BY <1>a, <2>1, <2>11 DEF Emitted
      <4> QED BY <4>1, <1>a, <2>5, <2>6, <2>16 DEF Emitted, HasLocal, Apart
    <3> QED BY <3>1, <3>2, <1>a, <1>d, <2>5, <2>6, <2>16 DEF Leaves, Sends
  <2>19. SoloEnd(f)'
    BY <1>0, <2>7, <2>18, OtherEnd
  <2> QED BY <1>0, <2>7, <2>10, <2>12, <2>13, <2>14, <2>15, <2>17, <2>19 DEF SoloInv, SoloEnd
<1> QED BY <1>1, <1>2

\* The end of the call: the connection is closed and the half reset.
LEMMA LeaveKeeps ==
    ASSUME SoloInv, NEW e \in End, LeaveSolo(e),
           signals' \in [End -> Seq(Signal)], Sends(e, Far(e)),
           signals'[e] = signals[e] \/ (signals[e] # <<>> /\ signals'[e] = Tail(signals[e])),
           UNCHANGED <<stream, tasks, creates, refused, restarts>>
    PROVE  SoloInv'
<1> PICK f \in End : f = Far(e)
  BY Ends
<1>0. f # e /\ e = Far(f) /\ \A g \in End : g = e \/ g = f
  BY Ends
<1>1. ClearSolo(e) /\ call' = [call EXCEPT ![e] = "left"] /\ late' = [late EXCEPT ![e] = Matching(e) # {}]
  BY DEF LeaveSolo
<1>2. /\ pcs' \in [End -> Seq(Pc)] /\ pc' \in [End -> Nat] /\ ready' \in [End -> BOOLEAN]
      /\ pending' \in [End -> SUBSET PcId]
      /\ pcs'[f] = pcs[f] /\ pc'[f] = pc[f] /\ pending'[f] = pending[f] /\ ready'[f] = ready[f]
      /\ pc'[e] = 0 /\ ~ready'[e] /\ pending'[e] = {}
      /\ SamePcs(e)
      /\ \A i \in DOMAIN pcs[e] : pcs'[e][i].open => pcs[e][i].open /\ i # pc[e]
  BY <1>0, <1>1, Cleared
<1>3. /\ call' \in [End -> {"waiting", "in", "left"}] /\ call'[e] = "left" /\ call'[f] = call[f]
      /\ late' \in [End -> BOOLEAN] /\ (late'[e] <=> Matching(e) # {}) /\ late'[f] = late[f]
  BY <1>0, <1>1 DEF SoloInv, SoloTypes
<1>4. SoloTypes'
  BY <1>2, <1>3 DEF SoloInv, SoloTypes
<1>5. SoloEnd(e) /\ Listens(e) /\ Creating(e)' = Creating(e) /\ Matching(e)' = Matching(e)
  BY <1>3 DEF SoloInv, Listens, Creating, Matching
<1>6. OwnNumbers(e)' /\ OneRun(e)' /\ Gone(e)'
  <2>1. Len(pcs[e]) \in Nat /\ pcs[e] \in Seq(Pc) /\ pcs'[e] \in Seq(Pc)
    BY <1>2 DEF SoloInv, SoloTypes
  <2>2. pcs[e] = <<>> => pcs'[e] = <<>>
    BY <2>1, <1>2 DEF SamePcs
  <2>3. Len(pcs[e]) = 1 => 1 \in DOMAIN pcs[e]
    BY <2>1
  <2>4. OwnNumbers(e)'
    BY <2>1, <1>2, <1>5 DEF SoloEnd, OwnNumbers, SamePcs
  <2>5. OneRun(e)'
    BY <2>2, <2>3, <1>2, <1>3, <1>5 DEF SoloEnd, OneRun, SamePcs
  <2> QED BY <2>4, <2>5, <1>2, <1>3, <1>5 DEF Gone
<1>7. FarNumbers(e, Len(pcs[f]))'
  BY <1>2, <1>5, FarStays DEF SamePcs
<1>8. OfferFirst(e)' /\ ~Emitted(e, f)' /\ ~Emitted(f, e)'
  BY <1>3 DEF OfferFirst, Emitted
<1>9. Apart(f)
  BY <1>0, <1>2, <1>3 DEF Apart
<1>10. Leaves(e, f)
  <2>1. Len(pcs'[e]) >= Len(pcs[e])
    BY <1>2 DEF SamePcs, SoloInv, SoloTypes
  <2> QED BY <2>1, <1>3, <1>8, <1>9 DEF Leaves
<1>11. SoloEnd(f)'
  BY <1>0, <1>4, <1>10, OtherEnd
<1> QED BY <1>0, <1>4, <1>6, <1>7, <1>8, <1>11 DEF SoloInv, SoloEnd

LEMMA LeavingKeeps == ASSUME SoloInv, NEW e \in End, HangUp(e) \/ OnPeerLeft(e) PROVE SoloInv'
<1>0. Far(e) \in End /\ Far(e) # e /\ signals \in [End -> Seq(Signal)] /\ Len(pcs[e]) \in Nat
  BY Ends DEF SoloInv, SoloTypes
<1>1. CASE HangUp(e)
  <2>1. PICK s \in Signal : s = [kind |-> "left", pc |-> 0, of |-> 0]
    <3>1. 1 \in PcId
      BY SoloBounds DEF PcId
    <3> QED BY <3>1, SignalMade
  <2>2. Sending(e, s) /\ s.pc <= Len(pcs[e]) /\ s.kind # "candidate"
    BY <1>0, <1>1, <2>1 DEF HangUp
  <2>3. signals' \in [End -> Seq(Signal)] /\ signals'[e] = signals[e] /\ Sends(e, Far(e))
    BY <2>2, AppendsToFar
  <2> QED BY <2>3, <1>1, LeaveKeeps DEF HangUp
<1>2. CASE OnPeerLeft(e)
  <2>1. signals[e] # <<>> /\ signals' = [signals EXCEPT ![e] = Tail(@)]
    BY <1>2 DEF OnPeerLeft, Arrives, Taken
  <2>2. Tail(signals[e]) \in Seq(Signal)
    BY <2>1, HeadSignal
  <2>3. signals' \in [End -> Seq(Signal)] /\ signals'[e] = Tail(signals[e]) /\ Sends(e, Far(e))
    BY <2>1, <2>2, <1>0 DEF Sends
  <2> QED BY <2>1, <2>3, <1>2, LeaveKeeps DEF OnPeerLeft
<1> QED BY <1>1, <1>2

LEMMA SoloStarts == SoloInit => SoloInv
<1> SUFFICES ASSUME SoloInit PROVE SoloInv
  OBVIOUS
<1>1. PICK s \in Signal : s = [kind |-> "matched", pc |-> 0, of |-> 0]
  <2>1. 1 \in PcId
    BY SoloBounds DEF PcId
  <2> QED BY <2>1, SignalMade
<1>2. <<s>> \in Seq(Signal) /\ DOMAIN <<s>> = {1} /\ <<s>>[1] = s /\ s.pc = 0 /\ s.kind = "matched"
  BY <1>1
<1>3. signals = [e \in End |-> <<s>>]
  BY <1>1 DEF SoloInit
<1>4. SoloTypes
  BY <1>2, <1>3, SoloBounds DEF SoloInit, SoloTypes
<1>5. ASSUME NEW e \in End PROVE SoloEnd(e)
  <2>1. /\ Far(e) \in End /\ pcs[e] = <<>> /\ pcs[Far(e)] = <<>> /\ tasks[e] = {} /\ pc[e] = 0
        /\ pending[e] = {} /\ ~ready[e] /\ creates[e] = 0 /\ call[e] = "waiting"
        /\ signals[e] = <<s>> /\ creates[Far(e)] = 0
    BY <1>3, Ends DEF SoloInit
  <2>2. Len(<<>>) = 0 /\ DOMAIN <<>> = {}
    OBVIOUS
  <2>3. OwnNumbers(e) /\ OneRun(e) /\ Gone(e)
    BY <2>1, <2>2, SoloBounds DEF OwnNumbers, OneRun, Gone, Creating
  <2>4. FarNumbers(e, Len(pcs[Far(e)]))
    BY <2>1, <2>2, <1>2 DEF FarNumbers
  <2>5. OfferFirst(e)
    BY <2>1, <2>2, <1>2 DEF OfferFirst
  <2>6. ~Emitted(e, Far(e))
    BY <2>1 DEF Emitted
  <2> QED BY <2>3, <2>4, <2>5, <2>6 DEF SoloEnd
<1> QED BY <1>4, <1>5 DEF SoloInv

LEMMA SoloStep == SoloInv /\ [SoloNext]_soloVars => SoloInv'
<1> SUFFICES ASSUME SoloInv, [SoloNext]_soloVars PROVE SoloInv'
  OBVIOUS
<1>1. CASE UNCHANGED soloVars
  <2>1. UNCHANGED <<call, stream, tasks, pc, pcs, pending, ready, signals, creates, refused, late, restarts>>
    BY <1>1 DEF soloVars
  <2>2. SoloTypes'
    BY <2>1 DEF SoloInv, SoloTypes
  <2>3. ASSUME NEW e \in End PROVE SoloEnd(e)'
    <3>1. PICK f \in End : f = Far(e)
      BY Ends
    <3>2. SoloEnd(e)
      BY DEF SoloInv
    <3>3. Creating(e)' = Creating(e) /\ Matching(e)' = Matching(e)
      BY <2>1 DEF Creating, Matching
    <3>4. OwnNumbers(e)'
      BY <2>1, <3>2 DEF SoloEnd, OwnNumbers
    <3>5. FarNumbers(e, Len(pcs[f]))'
      BY <2>1, <3>1, <3>2 DEF SoloEnd, FarNumbers
    <3>6. OneRun(e)' /\ Gone(e)'
      BY <2>1, <3>2, <3>3 DEF SoloEnd, OneRun, Gone
    <3>7. OfferFirst(e)'
      BY <2>1, <3>2 DEF SoloEnd, OfferFirst, Waits
    <3>8. Emitted(e, f)' => Followed(e, f)'
      BY <2>1, <3>1, <3>2 DEF SoloEnd, Emitted, Followed, Waits
    <3> QED BY <3>1, <3>4, <3>5, <3>6, <3>7, <3>8 DEF SoloEnd
  <2> QED BY <2>2, <2>3 DEF SoloInv
<1>2. CASE SoloNext
  <2>1. PICK e \in End : Promises(e) \/ Events(e) \/ RestartIce(e) \/ HangUp(e)
    BY <1>2 DEF SoloNext
  <2>2. CASE Promises(e)
    BY <2>2, PreparedKeeps, RejectionsKeep, IceFetchedKeeps, OfferedKeeps, RemoteSetKeeps,
       AnsweredKeeps DEF Promises
  <2>3. CASE Events(e)
    BY <2>3, OnMatchedKeeps, OnOfferKeeps, OnEarlyOfferKeeps, OnAnswerKeeps, OnCandidateKeeps,
       OnIceCandidateKeeps, LeavingKeeps, OnStaleKeeps DEF Events
  <2> QED BY <2>1, <2>2, <2>3, RejectionsKeep, LeavingKeeps
<1> QED BY <1>1, <1>2

\* What the invariant says of the properties.
LEMMA SoloMeans ==
    ASSUME SoloInv
    PROVE  SoloTypeOK /\ OrphansOnlyAfterOverlap /\ CameraReleasedAfterCall /\ NoCandidateLost
<1>1. SoloTypeOK
  <2>1. \A e \in End : /\ pcs[e] \in Seq(Pc) /\ pc[e] \in Nat /\ Len(pcs[e]) <= MaxPcs
                       /\ Len(pcs[e]) \in Nat /\ pc[e] <= Len(pcs[e]) /\ signals[e] \in Seq(Signal)
    BY DEF SoloInv, SoloTypes, SoloEnd, OwnNumbers
  <2>2. pc \in [End -> 0 .. MaxPcs]
    BY <2>1, SoloBounds DEF SoloInv, SoloTypes
  <2>3. \A e \in End : Range(signals[e]) \subseteq Signal /\ \A i \in DOMAIN pcs[e] : pcs[e][i] \in Pc
    BY <2>1 DEF Range
  <2> QED BY <2>1, <2>2, <2>3 DEF SoloInv, SoloTypes, SoloTypeOK
<1>2. ASSUME NEW e \in End, NEW i \in DOMAIN pcs[e], pcs[e][i].open, i # pc[e]
      PROVE  creates[e] > 1
  <2>1. creates[e] \in Nat /\ OneRun(e)
    BY DEF SoloInv, SoloTypes, SoloEnd
  <2>2. creates[e] < 2 => i = 1 /\ creates[e] = 1 /\ pcs[e] # <<>>
    BY OnlyOne
  <2>3. ~(creates[e] < 2)
    BY <1>2, <2>1, <2>2 DEF OneRun
  <2> QED BY <2>1, <2>3
<1>3. OrphansOnlyAfterOverlap
  BY <1>2 DEF OrphansOnlyAfterOverlap
<1>4. CameraReleasedAfterCall
  <2> SUFFICES ASSUME NEW e \in End, call[e] = "left", creates[e] < 2, ~late[e],
                      NEW i \in DOMAIN pcs[e], pcs[e][i].open
               PROVE  FALSE
    BY DEF CameraReleasedAfterCall
  <2>1. pc[e] = 0 /\ creates[e] \in Nat
    BY DEF SoloInv, SoloTypes, SoloEnd, Gone
  <2>2. i # 0
    BY DEF SoloInv, SoloTypes
  <2> QED BY <2>1, <2>2, <1>2
<1>5. NoCandidateLost
  <2> SUFFICES ASSUME NEW e \in End, NEW f \in End, f = Far(e),
                      call[e] = "in", call[f] # "left", creates[e] = 1, creates[f] = 1,
                      restarts = 0, ~refused[e], pc[f] # 0, HasLocal(pcs[f][1])
               PROVE  \/ pcs[f][1].gather
                      \/ \E n \in DOMAIN signals[e] : signals[e][n].kind = "candidate"
                      \/ 1 \in pending[e]
                      \/ pc[e] # 0 /\ 1 \in pcs[e][1].cands
    BY Ends DEF NoCandidateLost
  <2>1. Followed(e, f) /\ OneRun(e)
    BY DEF SoloInv, SoloEnd, Emitted
  <2>2. pcs[e] # <<>> => pc[e] = 1
    BY <2>1 DEF OneRun
  <2> QED BY <2>1, <2>2 DEF Followed, Waits
<1> QED BY <1>1, <1>3, <1>4, <1>5

-----------------------------------------------------------------------------
(* The 1:1 call in the specification that composes the four scenes.        *)

LEMMA CallsStepOfSolo ==
    ASSUME [CallsNext]_callsVars
    PROVE  [SoloNext]_soloVars
BY DEF CallsNext, callsVars, Solo, Mesh, Session, Bridge

LEMMA SoloInvariant == CallsSpec => []SoloInv
<1>1. CallsInit => SoloInv
  BY SoloStarts DEF CallsInit
<1>2. SoloInv /\ [CallsNext]_callsVars => SoloInv'
  BY CallsStepOfSolo, SoloStep
<1> QED BY <1>1, <1>2, PTL DEF CallsSpec

\* Until an end creates a second connection or retries, a candidate its peer
\* emitted for it is under way, kept until the description comes, or added
\* (useWebRTC.ts's handleSignal and its candidate buffer), however candidates,
\* descriptions and the promises that set them interleave.
THEOREM NoCandidateIsLost == CallsSpec => []NoCandidateLost
<1>1. SoloInv => NoCandidateLost
  BY SoloMeans
<1> QED BY <1>1, SoloInvariant, PTL

-----------------------------------------------------------------------------
(* The group mesh.                                                         *)

Relayed == {s \in Note : s.kind \in {"offer", "answer", "candidate"}}

MeshTypes ==
  /\ group \subseteq Members
  /\ roomSeat \in [Members -> {"waiting", "in", "left"}]
  /\ work \in [Members -> SUBSET Work]
  /\ peers \in [Members -> [Members -> Nat]]
  /\ links \in [Members -> Seq(Link)]
  /\ parked \in [Members -> SUBSET Relayed]
  /\ relay \in [Members -> Seq(Note)]
  /\ rounds \in [Members -> Nat] /\ rematches \in 0 .. MaxRematches
  /\ hurried \in BOOLEAN
  /\ lost \in [Members -> BOOLEAN] /\ aborted \in [Members -> BOOLEAN]
  /\ overstay \in [Members -> BOOLEAN]

\* The connections kept for a peer exist, and every open one is kept.
KeptLinks(e) ==
  /\ \A p \in Members : peers[e][p] <= Len(links[e])
  /\ \A i \in DOMAIN links[e] : links[e][i].open => peers[e][links[e][i].peer] = i

\* A member that left with no mesh on its way has none on its way later.
LeftAlone(e) ==
  roomSeat[e] = "left" /\ ~overstay[e]
    => Building(e) = {} /\ \A p \in Members : peers[e][p] = 0

\* The matches a member has still to build its mesh for: announced to it, or
\* about to clear.
Announced(e) == {n \in 0 .. MaxRematches : \E k \in DOMAIN relay[e] : relay[e][k] = Summons(n)}
Preparing(e) == {n \in 0 .. MaxRematches : \E t \in work[e] : t.stage = "prepare" /\ t.sdp = n}
Due(e) == Announced(e) \cup Preparing(e)

\* A match is announced to a member once, and each lets createMeshPeers run once.
RoundsDue(e) ==
  /\ \A n \in Due(e) : n <= rematches
  /\ Announced(e) \cap Preparing(e) = {}
  /\ \A j, k \in DOMAIN relay[e] :
       relay[e][j].kind = "matched" /\ relay[e][j] = relay[e][k] => j = k
  /\ rounds[e] + Cardinality(Due(e)) <= rematches + 1

MeshInv ==
  MeshTypes /\ \A e \in Members : KeptLinks(e) /\ LeftAlone(e) /\ RoundsDue(e)

\* The places of the members of a set in its order are the numbers up to its size.
LEMMA Ranks ==
    ASSUME NEW T \in SUBSET Nat, IsFiniteSet(T)
    PROVE  /\ Cardinality(T) \in Nat
           /\ \A p \in T : Cardinality({q \in T : q <= p}) \in 1 .. Cardinality(T)
           /\ \A p, r \in T : Cardinality({q \in T : q <= p}) = Cardinality({q \in T : q <= r}) => p = r
           /\ \A i \in 1 .. Cardinality(T) : \E p \in T : Cardinality({q \in T : q <= p}) = i
<1> DEFINE Low(p) == {q \in T : q <= p}
           n == Cardinality(T)
           f == [p \in T |-> Cardinality(Low(p))]
<1>1. n \in Nat
  BY FS_CardinalityType
<1>2. \A p \in T : Low(p) \in SUBSET T /\ p \in Low(p) /\ IsFiniteSet(Low(p))
  <2> SUFFICES ASSUME NEW p \in T PROVE Low(p) \in SUBSET T /\ p \in Low(p) /\ IsFiniteSet(Low(p))
    OBVIOUS
  <2>1. Low(p) \in SUBSET T /\ p \in Low(p)
    OBVIOUS
  <2> HIDE DEF Low
  <2> QED BY <2>1, FS_Subset
<1>3. \A p \in T : Cardinality(Low(p)) \in 1 .. n
  <2> SUFFICES ASSUME NEW p \in T PROVE Cardinality(Low(p)) \in 1 .. n
    OBVIOUS
  <2>1. Low(p) \in SUBSET T /\ p \in Low(p) /\ IsFiniteSet(Low(p))
    BY <1>2
  <2> HIDE DEF Low
  <2>2. Cardinality(Low(p)) \in Nat /\ Cardinality(Low(p)) <= n
    BY <2>1, FS_Subset, FS_CardinalityType
  <2>3. Cardinality(Low(p)) # 0
    BY <2>1, FS_EmptySet
  <2> QED BY <2>2, <2>3, <1>1
<1>4. \A p, r \in T : p < r => Cardinality(Low(p)) < Cardinality(Low(r))
  <2> SUFFICES ASSUME NEW p \in T, NEW r \in T, p < r
               PROVE  Cardinality(Low(p)) < Cardinality(Low(r))
    OBVIOUS
  <2>1. Low(p) \subseteq Low(r) /\ r \in Low(r) /\ r \notin Low(p)
    <3>1. p \in Nat /\ r \in Nat /\ ~(r <= p) /\ r <= r /\ \A q \in T : q <= p => q <= r
      OBVIOUS
    <3> QED BY <3>1
  <2>2. IsFiniteSet(Low(r)) /\ IsFiniteSet(Low(p))
    BY <1>2
  <2> HIDE DEF Low
  <2>3. Cardinality(Low(p)) <= Cardinality(Low(r)) /\ Cardinality(Low(p)) # Cardinality(Low(r))
    BY <2>1, <2>2, FS_Subset
  <2>4. Cardinality(Low(p)) \in Nat /\ Cardinality(Low(r)) \in Nat
    BY <2>2, FS_CardinalityType
  <2> QED BY <2>3, <2>4
<1>5. \A p, r \in T : Cardinality(Low(p)) = Cardinality(Low(r)) => p = r
  <2> SUFFICES ASSUME NEW p \in T, NEW r \in T, Cardinality(Low(p)) = Cardinality(Low(r)) PROVE p = r
    OBVIOUS
  <2> HIDE DEF Low
  <2>1. Cardinality(Low(p)) \in Nat /\ ~(p < r) /\ ~(r < p)
    BY <1>3, <1>4
  <2> QED BY <2>1
<1>6. \A i \in 1 .. n : \E p \in T : Cardinality(Low(p)) = i
  <2> HIDE DEF Low
  <2>1. f \in Injection(T, 1 .. n)
    <3>1. f \in [T -> 1 .. n]
      BY <1>3
    <3>2. \A p, r \in T : f[p] = f[r] => p = r
      BY <1>5
    <3> QED BY <3>1, <3>2 DEF Injection, IsInjective
  <2>2. IsFiniteSet(1 .. n) /\ Cardinality(1 .. n) = n
    BY <1>1, FS_Interval
  <2>3. f \in Surjection(T, 1 .. n)
    <3> HIDE DEF f
    <3> QED BY <2>1, <2>2, FS_Injection
  <2>4. \A i \in 1 .. n : \E p \in T : f[p] = i
    BY <2>3 DEF Surjection
  <2> QED BY <2>4
<1> QED BY <1>1, <1>3, <1>5, <1>6

\* What createMeshPeers has made of the connections of e: those it had and one
\* for each member it had none for.
Grown(e, made, map) ==
  /\ made \in Seq(Link) /\ map \in [Members -> Nat]
  /\ \A p \in Members : map[p] <= Len(made)
  /\ \A i \in DOMAIN made : made[i].open => map[made[i].peer] = i

LEMMA StretchIs ==
    ASSUME MeshInv, NEW e \in Members
    PROVE  /\ Stretch(e) \in SUBSET Members /\ Stretch(e) \in SUBSET Nat /\ IsFiniteSet(Stretch(e))
           /\ \A p \in Stretch(e) : peers[e][p] = 0
<1>1. Stretch(e) \in SUBSET Members /\ \A p \in Stretch(e) : peers[e][p] = 0
  BY DEF MeshInv, MeshTypes, Stretch, Known
<1>2. IsFiniteSet(Members) /\ Members \subseteq Nat
  BY MeshBounds
<1> QED BY <1>1, <1>2, FS_Subset

LEMMA LoopIs ==
    ASSUME MeshInv, NEW e \in Members
    PROVE  /\ Cardinality(Stretch(e)) \in Nat
           /\ \A p \in Stretch(e) : Place(e, p) \in 1 .. Cardinality(Stretch(e))
           /\ \A i \in 1 .. Cardinality(Stretch(e)) : Loop(e, i) \in Stretch(e) /\ Place(e, Loop(e, i)) = i
<1>1. PICK T \in SUBSET Nat : T = Stretch(e) /\ IsFiniteSet(T)
  BY StretchIs
<1>2. \A p : Place(e, p) = Cardinality({q \in T : q <= p})
  BY <1>1 DEF Place
<1>a. /\ Cardinality(T) \in Nat
      /\ \A p \in T : Cardinality({q \in T : q <= p}) \in 1 .. Cardinality(T)
      /\ \A i \in 1 .. Cardinality(T) : \E p \in T : Cardinality({q \in T : q <= p}) = i
  BY <1>1, Ranks
<1>3. /\ Cardinality(T) \in Nat
      /\ \A p \in T : Place(e, p) \in 1 .. Cardinality(T)
      /\ \A i \in 1 .. Cardinality(T) : \E p \in T : Place(e, p) = i
  BY <1>a, <1>2
<1>4. ASSUME NEW i \in 1 .. Cardinality(T) PROVE Loop(e, i) \in T /\ Place(e, Loop(e, i)) = i
  <2>1. \E p \in T : Place(e, p) = i
    BY <1>3
  <2> QED BY <2>1, <1>1 DEF Loop
<1> QED BY <1>1, <1>3, <1>4

LEMMA JoinedAre ==
    ASSUME NEW V, NEW q \in Seq(V), NEW c \in Seq(V)
    PROVE  /\ q \o c \in Seq(V) /\ Len(q \o c) = Len(q) + Len(c) /\ Len(q) \in Nat
           /\ DOMAIN (q \o c) = 1 .. Len(q) + Len(c) /\ DOMAIN q = 1 .. Len(q)
           /\ \A i \in 1 .. Len(q) + Len(c) :
                \/ i \in 1 .. Len(q) /\ (q \o c)[i] = q[i]
                \/ i - Len(q) \in 1 .. Len(c) /\ (q \o c)[i] = c[i - Len(q)]
OBVIOUS

LEMMA NewLinkIs ==
    ASSUME NEW p \in Members, NEW n \in Nat
    PROVE  NewLink(p, n) \in Link /\ NewLink(p, n).peer = p
BY DEF NewLink, Link

LEMMA CreatedGrows ==
    ASSUME MeshInv, NEW e \in Members
    PROVE  Grown(e, Created(e).made, Created(e).map)
<1>1. PICK n \in Nat : n = Cardinality(Stretch(e))
  BY LoopIs
<1>2. PICK q \in Seq(Link) : q = links[e]
  BY DEF MeshInv, MeshTypes
<1>3. PICK c : c = [i \in 1 .. n |-> NewLink(Loop(e, i), rounds[e])]
  OBVIOUS
<1>4. rounds[e] \in Nat /\ peers[e] \in [Members -> Nat] /\ KeptLinks(e)
  BY DEF MeshInv, MeshTypes
<1>5. \A i \in 1 .. n : Loop(e, i) \in Stretch(e) /\ Place(e, Loop(e, i)) = i
  BY <1>1, LoopIs
<1>6. \A p \in Stretch(e) : p \in Members /\ peers[e][p] = 0 /\ Place(e, p) \in 1 .. n
  BY <1>1, LoopIs, StretchIs
<1>7. \A i \in 1 .. n : NewLink(Loop(e, i), rounds[e]) \in Link
                        /\ NewLink(Loop(e, i), rounds[e]).peer = Loop(e, i)
  BY <1>4, <1>5, <1>6, NewLinkIs
<1>8. c \in Seq(Link) /\ Len(c) = n /\ \A i \in 1 .. n : c[i].peer = Loop(e, i)
  BY <1>3, <1>7
<1>a. PICK d \in Seq(Link) : d = c
  BY <1>8
<1>b. q \o d \in Seq(Link)
  BY JoinedAre
<1>9. PICK made \in Seq(Link) : made = q \o d
  BY <1>b
<1>10. PICK map : map = [p \in Members |-> IF p \in Stretch(e) THEN Len(q) + Place(e, p) ELSE peers[e][p]]
  OBVIOUS
<1>11. Created(e) = [made |-> made, map |-> map]
  BY <1>1, <1>2, <1>3, <1>a, <1>9, <1>10 DEF Created
<1>12. /\ Len(made) = Len(q) + n /\ Len(q) \in Nat
       /\ \A i \in DOMAIN made : \/ i \in DOMAIN q /\ made[i] = q[i]
                                 \/ i - Len(q) \in 1 .. n /\ made[i] = c[i - Len(q)]
  <2>1. /\ Len(q \o d) = Len(q) + Len(d) /\ Len(q) \in Nat
        /\ DOMAIN (q \o d) = 1 .. Len(q) + Len(d) /\ DOMAIN q = 1 .. Len(q)
        /\ \A i \in 1 .. Len(q) + Len(d) :
             \/ i \in 1 .. Len(q) /\ (q \o d)[i] = q[i]
             \/ i - Len(q) \in 1 .. Len(d) /\ (q \o d)[i] = d[i - Len(q)]
    BY JoinedAre
  <2>2. d = c /\ Len(d) = n
    BY <1>8, <1>a
  <2> QED BY <2>1, <2>2, <1>9
<1>13. map \in [Members -> Nat]
  BY <1>4, <1>6, <1>10, <1>12
<1>14. \A p \in Members : map[p] <= Len(made)
  <2> SUFFICES ASSUME NEW p \in Members PROVE map[p] <= Len(made)
    OBVIOUS
  <2>1. CASE p \in Stretch(e)
    BY <2>1, <1>6, <1>10, <1>12
  <2>2. CASE p \notin Stretch(e)
    <3>1. map[p] = peers[e][p] /\ peers[e][p] \in Nat
      BY <2>2, <1>4, <1>10
    <3>2. peers[e][p] <= Len(q)
      BY <1>2, <1>4 DEF KeptLinks
    <3> QED BY <3>1, <3>2, <1>12
  <2> QED BY <2>1, <2>2
<1>15. ASSUME NEW i \in DOMAIN made, made[i].open PROVE map[made[i].peer] = i
  <2>1. CASE i \in DOMAIN q /\ made[i] = q[i]
    <3>1. PICK p \in Members : p = q[i].peer
      <4>1. q[i] \in Link
        BY <2>1
      <4> QED BY <4>1 DEF Link
    <3>2. peers[e][p] = i /\ i # 0
      BY <2>1, <3>1, <1>2, <1>4, <1>15 DEF KeptLinks
    <3>3. p \notin Stretch(e)
      BY <3>2, <1>6
    <3> QED BY <2>1, <3>1, <3>2, <3>3, <1>10
  <2>2. CASE i - Len(q) \in 1 .. n /\ made[i] = c[i - Len(q)]
    <3>1. PICK k \in 1 .. n : k = i - Len(q)
      BY <2>2
    <3>2. made[i].peer = Loop(e, k) /\ Loop(e, k) \in Stretch(e) /\ Place(e, Loop(e, k)) = k
      BY <2>2, <3>1, <1>5, <1>8
    <3>3. map[Loop(e, k)] = Len(q) + k
      BY <3>2, <1>6, <1>10
    <3>4. i \in Nat
      OBVIOUS
    <3> QED BY <3>1, <3>2, <3>3, <3>4, <1>12
  <2> QED BY <2>1, <2>2, <1>12
<1> QED BY <1>11, <1>13, <1>14, <1>15 DEF Grown

\* What notes and work items are made of.
LEMMA NoteShape ==
    ASSUME NEW s \in Note
    PROVE  /\ s.kind \in {"matched", "gone", "offer", "answer", "candidate"} /\ s.link \in Nat
           /\ s.kind = "matched" => s.link \in 0 .. MaxRematches /\ s = Summons(s.link)
           /\ s.kind # "matched" => s.from \in Members
           /\ s.kind \in {"offer", "answer", "candidate"} => s \in Relayed
<1>0. 0 .. MaxRematches \subseteq Nat
  BY MeshBounds
<1>1. CASE s \in [kind : {"matched"}, from : {0}, link : 0 .. MaxRematches]
  BY <1>0, <1>1 DEF Summons
<1>2. CASE s \in [kind : {"gone"}, from : Members, link : {0}]
  BY <1>2
<1>3. CASE s \in [kind : {"offer", "answer", "candidate"}, from : Members, link : Nat]
  BY <1>3 DEF Relayed, Note
<1> QED BY <1>1, <1>2, <1>3 DEF Note

LEMMA RelayedShape ==
    ASSUME NEW s \in Relayed
    PROVE  /\ s.kind = "offer" \/ s.kind = "answer" \/ s.kind = "candidate"
           /\ s.from \in Members /\ s.link \in Nat
<1>1. s \in Note /\ (s.kind = "offer" \/ s.kind = "answer" \/ s.kind = "candidate")
  BY DEF Relayed
<1> QED BY <1>1, NoteShape

LEMMA WorkShape ==
    ASSUME NEW t \in Work
    PROVE  /\ t.stage \in {"prepare", "ice", "offering", "remote", "answering"}
           /\ t.stage \in {"prepare", "ice"} =>
                /\ t.sdp \in 0 .. MaxRematches
                /\ t = [kind |-> "build", stage |-> t.stage, peer |-> 0, link |-> 0, sdp |-> t.sdp]
           /\ t.stage = "offering" => t.kind = "build" /\ t.peer \in Members /\ t.link \in Nat
           /\ t.stage \in {"remote", "answering"} =>
                (t.kind = "offer" \/ t.kind = "answer") /\ t.peer \in Members /\ t.link \in Nat /\ t.sdp \in Nat
<1>1. CASE t \in [kind : {"build"}, stage : {"prepare", "ice"}, peer : {0}, link : {0}, sdp : 0 .. MaxRematches]
  BY <1>1
<1>2. CASE t \in [kind : {"build"}, stage : {"offering"}, peer : Members, link : Nat, sdp : {0}]
  BY <1>2
<1>3. CASE t \in [kind : {"offer", "answer"}, stage : {"remote", "answering"}, peer : Members, link : Nat, sdp : Nat]
  BY <1>3
<1> QED BY <1>1, <1>2, <1>3 DEF Work

LEMMA WorkMade ==
    /\ \A n \in 0 .. MaxRematches :
         /\ [kind |-> "build", stage |-> "prepare", peer |-> 0, link |-> 0, sdp |-> n] \in Work
         /\ [kind |-> "build", stage |-> "ice", peer |-> 0, link |-> 0, sdp |-> n] \in Work
    /\ \A p \in Members, i \in Nat :
         [kind |-> "build", stage |-> "offering", peer |-> p, link |-> i, sdp |-> 0] \in Work
    /\ \A p \in Members, i \in Nat, j \in Nat :
         /\ [kind |-> "offer", stage |-> "remote", peer |-> p, link |-> i, sdp |-> j] \in Work
         /\ [kind |-> "answer", stage |-> "remote", peer |-> p, link |-> i, sdp |-> j] \in Work
         /\ [kind |-> "offer", stage |-> "answering", peer |-> p, link |-> i, sdp |-> j] \in Work
<1>1. \A n \in 0 .. MaxRematches :
        /\ [kind |-> "build", stage |-> "prepare", peer |-> 0, link |-> 0, sdp |-> n] \in Work
        /\ [kind |-> "build", stage |-> "ice", peer |-> 0, link |-> 0, sdp |-> n] \in Work
  BY DEF Work
<1>2. \A p \in Members, i \in Nat :
        [kind |-> "build", stage |-> "offering", peer |-> p, link |-> i, sdp |-> 0] \in Work
  BY DEF Work
<1>3. \A p \in Members, i \in Nat, j \in Nat :
        /\ [kind |-> "offer", stage |-> "remote", peer |-> p, link |-> i, sdp |-> j] \in Work
        /\ [kind |-> "answer", stage |-> "remote", peer |-> p, link |-> i, sdp |-> j] \in Work
        /\ [kind |-> "offer", stage |-> "answering", peer |-> p, link |-> i, sdp |-> j] \in Work
  BY DEF Work
<1> QED BY <1>1, <1>2, <1>3

\* Handling the parked signals changes neither which connections there are nor
\* which are open.
LEMMA DrainedKeeps ==
    ASSUME MeshInv, NEW e \in Members, NEW made, NEW map, Grown(e, made, map),
           NEW w \in SUBSET Work, Drained(e, made, map, w), peers' = [peers EXCEPT ![e] = map]
    PROVE  /\ links' \in [Members -> Seq(Link)] /\ parked' \in [Members -> SUBSET Relayed]
           /\ work' \in [Members -> SUBSET Work] /\ peers' \in [Members -> [Members -> Nat]]
           /\ KeptLinks(e)'
           /\ \A t \in work'[e] : t \in w \/ t.stage = "remote"
           /\ \A f \in Members : f # e => links'[f] = links[f] /\ work'[f] = work[f] /\ peers'[f] = peers[f]
<1>0. /\ links \in [Members -> Seq(Link)] /\ parked \in [Members -> SUBSET Relayed]
      /\ work \in [Members -> SUBSET Work] /\ peers \in [Members -> [Members -> Nat]]
      /\ made \in Seq(Link) /\ map \in [Members -> Nat] /\ parked[e] \in SUBSET Relayed
  BY DEF MeshInv, MeshTypes, Grown
<1>1. PICK taken \in SUBSET Relayed : taken = {s \in parked[e] : map[s.from] # 0}
  BY <1>0
<1>2. PICK held : held = [i \in DOMAIN made |->
                            {s.link : s \in {x \in taken : x.kind = "candidate" /\ map[x.from] = i}}]
  OBVIOUS
<1>3. \A i \in DOMAIN made : held[i] \in SUBSET Nat
  BY <1>2, RelayedShape
<1>4. PICK r : r = [i \in DOMAIN made |-> [made[i] EXCEPT !.held = @ \cup held[i]]]
  OBVIOUS
<1>5. links' = [links EXCEPT ![e] = r]
  BY <1>1, <1>2, <1>4 DEF Drained
<1>6. PICK h : h = {Handling(e, s, map) : s \in {x \in taken : x.kind # "candidate"}}
  OBVIOUS
<1>7. work' = [work EXCEPT ![e] = w \cup h] /\ parked' = [parked EXCEPT ![e] = @ \ taken]
  BY <1>1, <1>6 DEF Drained
<1>8. \A t \in h : t \in Work /\ t.stage = "remote"
  <2> SUFFICES ASSUME NEW s \in taken, s.kind # "candidate"
               PROVE  Handling(e, s, map) \in Work /\ Handling(e, s, map).stage = "remote"
    BY <1>6
  <2>1. /\ s.kind = "offer" \/ s.kind = "answer"
        /\ s.from \in Members /\ s.link \in Nat /\ map[s.from] \in Nat
    BY RelayedShape, <1>0
  <2> QED BY <2>1, WorkMade DEF Handling
<1>9. \A i \in DOMAIN made : /\ [made[i] EXCEPT !.held = @ \cup held[i]] \in Link
                             /\ [made[i] EXCEPT !.held = @ \cup held[i]].open = made[i].open
                             /\ [made[i] EXCEPT !.held = @ \cup held[i]].peer = made[i].peer
  <2> SUFFICES ASSUME NEW i \in DOMAIN made
               PROVE  /\ [made[i] EXCEPT !.held = @ \cup held[i]] \in Link
                      /\ [made[i] EXCEPT !.held = @ \cup held[i]].open = made[i].open
                      /\ [made[i] EXCEPT !.held = @ \cup held[i]].peer = made[i].peer
    OBVIOUS
  <2>1. PICK l \in Link : l = made[i]
    BY <1>0
  <2>2. PICK d \in SUBSET Nat : d = held[i]
    BY <1>3
  <2>3. [l EXCEPT !.held = @ \cup d] \in Link
    BY DEF Link
  <2>4. [l EXCEPT !.held = @ \cup d].open = l.open /\ [l EXCEPT !.held = @ \cup d].peer = l.peer
    BY DEF Link
  <2> QED BY <2>1, <2>2, <2>3, <2>4
<1>10. /\ r \in Seq(Link) /\ Len(r) = Len(made) /\ DOMAIN r = DOMAIN made
       /\ \A i \in DOMAIN made : r[i].open = made[i].open /\ r[i].peer = made[i].peer
  <2>1. DOMAIN r = DOMAIN made /\ DOMAIN made = 1 .. Len(made) /\ Len(made) \in Nat
    BY <1>0, <1>4
  <2>2. \A i \in DOMAIN made : r[i] \in Link
    BY <1>4, <1>9
  <2>3. r \in Seq(Link)
    BY <1>4, <2>1, <2>2
  <2>4. Len(r) = Len(made)
    BY <2>1, <2>3
  <2>5. \A i \in DOMAIN made : r[i].open = made[i].open /\ r[i].peer = made[i].peer
    BY <1>4, <1>9
  <2> QED BY <2>1, <2>3, <2>4, <2>5
<1>11. links'[e] = r /\ peers'[e] = map /\ work'[e] = w \cup h
  BY <1>0, <1>5, <1>7
<1>12. KeptLinks(e)'
  BY <1>10, <1>11 DEF KeptLinks, Grown
<1>13. /\ links' \in [Members -> Seq(Link)] /\ parked' \in [Members -> SUBSET Relayed]
       /\ work' \in [Members -> SUBSET Work] /\ peers' \in [Members -> [Members -> Nat]]
  BY <1>0, <1>5, <1>7, <1>8, <1>10
<1>14. \A f \in Members : f # e => links'[f] = links[f] /\ work'[f] = work[f] /\ peers'[f] = peers[f]
  BY <1>0, <1>5, <1>7
<1> QED BY <1>8, <1>11, <1>12, <1>13, <1>14

\* What a step of another member leaves of a member, and what it may do to the
\* matches announced to it: taking notes from the front and adding others.
SameRow(f) ==
  /\ roomSeat'[f] = roomSeat[f] /\ overstay'[f] = overstay[f] /\ work'[f] = work[f]
  /\ peers'[f] = peers[f] /\ links'[f] = links[f] /\ rounds'[f] = rounds[f]

Shifted(f, d) ==
  \A k \in DOMAIN relay'[f] : relay'[f][k].kind = "matched" =>
    k + d \in DOMAIN relay[f] /\ relay'[f][k] = relay[f][k + d]

NoNewMatch(f) == Shifted(f, 0) \/ Shifted(f, 1)

LEMMA DueFinite ==
    ASSUME NEW e \in Members
    PROVE  IsFiniteSet(Due(e)) /\ Cardinality(Due(e)) \in Nat
<1>1. IsFiniteSet(0 .. MaxRematches)
  BY FS_Interval, MeshBounds
<1>2. Due(e) \in SUBSET (0 .. MaxRematches)
  BY DEF Due, Announced, Preparing
<1> QED BY <1>1, <1>2, FS_Subset, FS_CardinalityType

LEMMA RoundsStay ==
    ASSUME MeshInv, MeshTypes', NEW f \in Members, NoNewMatch(f),
           rounds'[f] = rounds[f], rematches' = rematches, Preparing(f)' \subseteq Preparing(f)
    PROVE  RoundsDue(f)'
<1>1. /\ relay[f] \in Seq(Note) /\ relay'[f] \in Seq(Note) /\ RoundsDue(f)
      /\ rounds[f] \in Nat /\ rematches \in Nat
  BY MeshBounds DEF MeshInv, MeshTypes
<1>2. PICK d \in Nat : Shifted(f, d)
  BY DEF NoNewMatch
<1>3. Announced(f)' \subseteq Announced(f)
  <2> SUFFICES ASSUME NEW n \in 0 .. MaxRematches, NEW k \in DOMAIN relay'[f], relay'[f][k] = Summons(n)
               PROVE  \E j \in DOMAIN relay[f] : relay[f][j] = Summons(n)
    BY DEF Announced
  <2>1. relay'[f][k].kind = "matched"
    BY DEF Summons
  <2> QED BY <2>1, <1>2 DEF Shifted
<1>4. Due(f)' \in SUBSET Due(f) /\ Due(f)' \subseteq Due(f)
  BY <1>3 DEF Due
<1>5. PICK D : D = Due(f)
  OBVIOUS
<1>6. PICK E : E = Due(f)'
  OBVIOUS
<1>7. IsFiniteSet(D) /\ Cardinality(D) \in Nat /\ E \in SUBSET D
  BY <1>4, <1>5, <1>6, DueFinite
<1>8. Cardinality(E) \in Nat /\ Cardinality(E) <= Cardinality(D)
  BY <1>7, FS_Subset, FS_CardinalityType
<1>9. rounds[f] + Cardinality(D) <= rematches + 1
  BY <1>1, <1>5 DEF RoundsDue
<1>10. rounds'[f] + Cardinality(E) <= rematches' + 1
  BY <1>1, <1>7, <1>8, <1>9
<1>11. \A j, k \in DOMAIN relay'[f] :
         relay'[f][j].kind = "matched" /\ relay'[f][j] = relay'[f][k] => j = k
  <2> SUFFICES ASSUME NEW j \in DOMAIN relay'[f], NEW k \in DOMAIN relay'[f],
                      relay'[f][j].kind = "matched", relay'[f][j] = relay'[f][k]
               PROVE  j = k
    OBVIOUS
  <2>1. /\ j + d \in DOMAIN relay[f] /\ k + d \in DOMAIN relay[f]
        /\ relay'[f][j] = relay[f][j + d] /\ relay'[f][k] = relay[f][k + d]
    BY <1>2 DEF Shifted
  <2>2. j + d = k + d
    BY <2>1, <1>1 DEF RoundsDue
  <2>3. j \in Nat /\ k \in Nat
    BY <1>1
  <2> QED BY <2>2, <2>3
<1>12. /\ \A n \in Due(f)' : n <= rematches'
       /\ Announced(f)' \cap Preparing(f)' = {}
  BY <1>1, <1>3, <1>4 DEF RoundsDue
<1> QED BY <1>6, <1>10, <1>11, <1>12 DEF RoundsDue

\* A step of a member keeps the invariant when it keeps that member's part.
LEMMA MemberKeeps ==
    ASSUME MeshInv, NEW e \in Members, MeshTypes',
           KeptLinks(e)', LeftAlone(e)', RoundsDue(e)', rematches' = rematches,
           \A f \in Members : f # e => SameRow(f) /\ NoNewMatch(f)
    PROVE  MeshInv'
<1> SUFFICES ASSUME NEW f \in Members, f # e
             PROVE  KeptLinks(f)' /\ LeftAlone(f)' /\ RoundsDue(f)'
  BY DEF MeshInv
<1>1. SameRow(f) /\ NoNewMatch(f) /\ KeptLinks(f) /\ LeftAlone(f)
  BY DEF MeshInv
<1>2. KeptLinks(f)'
  BY <1>1 DEF SameRow, KeptLinks
<1>3. LeftAlone(f)'
  <2>1. Building(f)' = Building(f)
    BY <1>1 DEF SameRow, Building
  <2> QED BY <2>1, <1>1 DEF SameRow, LeftAlone
<1>4. Preparing(f)' \subseteq Preparing(f)
  BY <1>1 DEF SameRow, Preparing
<1>5. RoundsDue(f)'
  BY <1>1, <1>4, RoundsStay DEF SameRow
<1> QED BY <1>2, <1>3, <1>5

\* Signals that are handled, and connections that get a description or a candidate.
LEMMA MemberWorks ==
    ASSUME MeshInv, NEW e \in Members, MeshTypes',
           UNCHANGED <<roomSeat, overstay, rounds, rematches, peers>>,
           \A f \in Members : f # e => work'[f] = work[f] /\ links'[f] = links[f],
           \A t \in work'[e] : t \in work[e] \/ t.stage = "remote" \/ t.stage = "answering",
           Len(links'[e]) = Len(links[e]),
           \A i \in DOMAIN links[e] : links'[e][i].peer = links[e][i].peer
                                      /\ (links'[e][i].open => links[e][i].open),
           \A f \in Members : NoNewMatch(f)
    PROVE  MeshInv'
<1>1. links[e] \in Seq(Link) /\ links'[e] \in Seq(Link) /\ KeptLinks(e) /\ LeftAlone(e)
  BY DEF MeshInv, MeshTypes
<1>2. DOMAIN links'[e] = DOMAIN links[e]
  BY <1>1
<1>3. KeptLinks(e)'
  BY <1>1, <1>2 DEF KeptLinks
<1>4. Building(e)' \subseteq Building(e) /\ Preparing(e)' \subseteq Preparing(e)
  <2>1. \A t \in work'[e] : t.stage = "remote" \/ t.stage = "answering"
                            => t.kind # "build" /\ t.stage # "prepare"
    <3>1. work'[e] \subseteq Work
      BY DEF MeshTypes
    <3> QED BY <3>1, WorkShape
  <2> QED BY <2>1 DEF Building, Preparing
<1>5. LeftAlone(e)'
  BY <1>1, <1>4 DEF LeftAlone
<1>6. RoundsDue(e)'
  BY <1>4, RoundsStay
<1>7. \A f \in Members : f # e => SameRow(f)
  BY DEF SameRow
<1> QED BY <1>3, <1>5, <1>6, <1>7, MemberKeeps

\* The notes of the others stay when one member takes one of its own.
LEMMA NoteTaken ==
    ASSUME MeshInv, NEW e \in Members, relay[e] # <<>>, relay' = [relay EXCEPT ![e] = Tail(@)]
    PROVE  /\ relay' \in [Members -> Seq(Note)] /\ Head(relay[e]) \in Note
           /\ \A f \in Members : NoNewMatch(f)
           /\ relay'[e] = Tail(relay[e]) /\ relay[e] \in Seq(Note)
<1>1. relay \in [Members -> Seq(Note)] /\ relay[e] \in Seq(Note)
  BY DEF MeshInv, MeshTypes
<1>2. PICK q \in Seq(Note) : q = relay[e]
  BY <1>1
<1>3. /\ Head(q) \in Note /\ Tail(q) \in Seq(Note)
      /\ \A k \in DOMAIN Tail(q) : k + 1 \in DOMAIN q /\ Tail(q)[k] = q[k + 1]
  BY <1>2, HeadGone
<1>4. relay' \in [Members -> Seq(Note)] /\ relay'[e] = Tail(q)
      /\ \A f \in Members : f # e => relay'[f] = relay[f]
  BY <1>1, <1>2, <1>3
<1>5. Shifted(e, 1)
  BY <1>2, <1>3, <1>4 DEF Shifted
<1>6. \A f \in Members : f # e => Shifted(f, 0)
  <2> SUFFICES ASSUME NEW f \in Members, f # e PROVE Shifted(f, 0)
    OBVIOUS
  <2>1. relay'[f] = relay[f] /\ \A k \in DOMAIN relay[f] : k + 0 = k
    BY <1>1, <1>4
  <2> QED BY <2>1 DEF Shifted
<1> QED BY <1>1, <1>2, <1>3, <1>4, <1>5, <1>6 DEF NoNewMatch

LEMMA RelayStays == ASSUME MeshInv, relay' = relay PROVE \A f \in Members : NoNewMatch(f)
<1> SUFFICES ASSUME NEW f \in Members PROVE Shifted(f, 0)
  BY DEF NoNewMatch
<1>1. relay[f] \in Seq(Note)
  BY DEF MeshInv, MeshTypes
<1>2. \A k \in DOMAIN relay[f] : k + 0 = k
  BY <1>1
<1> QED BY <1>2 DEF Shifted

\* The notes a member sends tell of no match.
LEMMA NotesSent ==
    ASSUME MeshInv, NEW p \in Members, NEW w \in Seq(Note),
           \A k \in DOMAIN w : w[k].kind # "matched", relay' = [relay EXCEPT ![p] = @ \o w]
    PROVE  relay' \in [Members -> Seq(Note)] /\ \A f \in Members : NoNewMatch(f)
<1>1. relay \in [Members -> Seq(Note)] /\ relay[p] \in Seq(Note)
  BY DEF MeshInv, MeshTypes
<1>2. PICK q \in Seq(Note) : q = relay[p]
  BY <1>1
<1>3. /\ q \o w \in Seq(Note) /\ DOMAIN (q \o w) = 1 .. Len(q) + Len(w) /\ Len(q) \in Nat
      /\ \A i \in 1 .. Len(q) + Len(w) :
           \/ i \in 1 .. Len(q) /\ (q \o w)[i] = q[i]
           \/ i - Len(q) \in 1 .. Len(w) /\ (q \o w)[i] = w[i - Len(q)]
      /\ DOMAIN q = 1 .. Len(q)
  BY JoinedAre
<1>4. /\ relay' \in [Members -> Seq(Note)] /\ relay'[p] = q \o w
      /\ \A f \in Members : f # p => relay'[f] = relay[f]
  BY <1>1, <1>2, <1>3
<1>5. Shifted(p, 0)
  <2> SUFFICES ASSUME NEW k \in 1 .. Len(q) + Len(w), (q \o w)[k].kind = "matched"
               PROVE  k + 0 \in DOMAIN q /\ (q \o w)[k] = q[k + 0]
    BY <1>2, <1>3, <1>4 DEF Shifted
  <2>1. k \in 1 .. Len(q) /\ (q \o w)[k] = q[k]
    BY <1>3
  <2>2. k + 0 = k
    OBVIOUS
  <2> QED BY <2>1, <2>2, <1>3
<1>6. \A f \in Members : f # p => Shifted(f, 0)
  <2> SUFFICES ASSUME NEW f \in Members, f # p PROVE Shifted(f, 0)
    OBVIOUS
  <2>1. relay'[f] = relay[f] /\ \A k \in DOMAIN relay[f] : k + 0 = k
    BY <1>1, <1>4
  <2> QED BY <2>1 DEF Shifted
<1> QED BY <1>4, <1>5, <1>6 DEF NoNewMatch

LEMMA ToldSends ==
    ASSUME MeshInv, NEW e \in Members, NEW p \in Members, NEW i \in Nat,
           NEW kind, kind = "offer" \/ kind = "answer", relay' = Told(relay, e, p, kind, i)
    PROVE  relay' \in [Members -> Seq(Note)] /\ \A f \in Members : NoNewMatch(f)
<1>1. PICK w : w = <<[kind |-> kind, from |-> e, link |-> i], [kind |-> "candidate", from |-> e, link |-> i]>>
  OBVIOUS
<1>2. /\ [kind |-> kind, from |-> e, link |-> i] \in Note
      /\ [kind |-> "candidate", from |-> e, link |-> i] \in Note
  BY DEF Note
<1>3. w \in Seq(Note) /\ \A k \in DOMAIN w : w[k].kind # "matched"
  BY <1>1, <1>2
<1>4. relay' = relay \/ relay' = [relay EXCEPT ![p] = @ \o w]
  BY <1>1 DEF Told
<1>5. CASE relay' = relay
  BY <1>5, RelayStays DEF MeshInv, MeshTypes
<1>6. CASE relay' = [relay EXCEPT ![p] = @ \o w]
  BY <1>3, <1>6, NotesSent
<1> QED BY <1>4, <1>5, <1>6

\* Connections closed by number.
LEMMA ShutAre ==
    ASSUME NEW q \in Seq(Link), NEW is
    PROVE  /\ Shut(q, is) \in Seq(Link) /\ Len(Shut(q, is)) = Len(q) /\ DOMAIN Shut(q, is) = DOMAIN q
           /\ \A i \in DOMAIN q : /\ Shut(q, is)[i].peer = q[i].peer
                                  /\ Shut(q, is)[i].open => q[i].open /\ i \notin is
<1>1. DOMAIN Shut(q, is) = DOMAIN q /\ DOMAIN q = 1 .. Len(q) /\ Len(q) \in Nat
  BY DEF Shut
<1>2. \A i \in DOMAIN q : /\ Shut(q, is)[i] \in Link /\ Shut(q, is)[i].peer = q[i].peer
                          /\ Shut(q, is)[i].open => q[i].open /\ i \notin is
  <2> SUFFICES ASSUME NEW i \in DOMAIN q
               PROVE  /\ Shut(q, is)[i] \in Link /\ Shut(q, is)[i].peer = q[i].peer
                      /\ Shut(q, is)[i].open => q[i].open /\ i \notin is
    OBVIOUS
  <2>1. PICK l \in Link : l = q[i]
    OBVIOUS
  <2>2. /\ [l EXCEPT !.open = FALSE] \in Link /\ [l EXCEPT !.open = FALSE].peer = l.peer
        /\ ~[l EXCEPT !.open = FALSE].open
    BY DEF Link
  <2>3. CASE i \in is
    BY <2>1, <2>2, <2>3 DEF Shut
  <2>4. CASE i \notin is
    BY <2>1, <2>4 DEF Shut
  <2> QED BY <2>3, <2>4
<1>3. Shut(q, is) \in Seq(Link)
  BY <1>1, <1>2 DEF Shut
<1>4. Len(Shut(q, is)) = Len(q)
  BY <1>1, <1>3
<1> QED BY <1>1, <1>2, <1>3, <1>4

LEMMA MeshCleared ==
    ASSUME MeshInv, NEW e \in Members, ClearMesh(e)
    PROVE  /\ links' \in [Members -> Seq(Link)] /\ parked' \in [Members -> SUBSET Relayed]
           /\ peers' \in [Members -> [Members -> Nat]]
           /\ KeptLinks(e)' /\ \A p \in Members : peers'[e][p] = 0
           /\ \A f \in Members : f # e => links'[f] = links[f] /\ peers'[f] = peers[f]
<1>1. /\ links \in [Members -> Seq(Link)] /\ parked \in [Members -> SUBSET Relayed]
      /\ peers \in [Members -> [Members -> Nat]] /\ KeptLinks(e)
  BY DEF MeshInv, MeshTypes
<1>2. PICK q \in Seq(Link) : q = links[e]
  BY <1>1
<1>3. PICK r : r = Shut(q, Kept(e))
  OBVIOUS
<1>4. /\ r \in Seq(Link) /\ Len(r) = Len(q) /\ DOMAIN r = DOMAIN q
      /\ \A i \in DOMAIN q : r[i].peer = q[i].peer /\ (r[i].open => q[i].open /\ i \notin Kept(e))
  BY <1>3, ShutAre
<1>5. links' = [links EXCEPT ![e] = r]
  BY <1>2, <1>3 DEF ClearMesh
<1>6. peers' = [peers EXCEPT ![e] = [p \in Members |-> 0]] /\ parked' = [parked EXCEPT ![e] = {}]
  BY DEF ClearMesh
<1>7. /\ links' \in [Members -> Seq(Link)] /\ links'[e] = r
      /\ \A f \in Members : f # e => links'[f] = links[f] /\ peers'[f] = peers[f]
  BY <1>1, <1>4, <1>5, <1>6
<1>8. /\ peers' \in [Members -> [Members -> Nat]] /\ parked' \in [Members -> SUBSET Relayed]
      /\ \A p \in Members : peers'[e][p] = 0
  BY <1>1, <1>6
<1>9. \A i \in DOMAIN q : ~r[i].open
  <2> SUFFICES ASSUME NEW i \in DOMAIN q, r[i].open PROVE FALSE
    OBVIOUS
  <2>1. q[i].open /\ i \notin Kept(e) /\ i # 0
    BY <1>4
  <2>2. PICK p \in Members : p = q[i].peer
    <3>1. q[i] \in Link
      OBVIOUS
    <3> QED BY <3>1 DEF Link
  <2>3. peers[e][p] = i
    BY <2>1, <2>2, <1>1, <1>2 DEF KeptLinks
  <2> QED BY <2>1, <2>3 DEF Kept
<1>10. KeptLinks(e)'
  <2>1. Len(r) \in Nat /\ 0 <= Len(r)
    BY <1>4
  <2> QED BY <2>1, <1>4, <1>7, <1>8, <1>9 DEF KeptLinks
<1> QED BY <1>7, <1>8, <1>10

-----------------------------------------------------------------------------
(* The actions of the mesh, one lemma each.                                *)

\* a match is announced: createMeshPeers will run
LEMMA OnGroupMatchedKeeps == ASSUME MeshInv, NEW e \in Members, OnGroupMatched(e) PROVE MeshInv'
<1>1. /\ relay[e] # <<>> /\ Head(relay[e]).kind = "matched"
      /\ relay' = [relay EXCEPT ![e] = Tail(@)]
      /\ roomSeat' = [roomSeat EXCEPT ![e] = "in"]
      /\ work' = [work EXCEPT ![e] = @ \cup
           {[kind |-> "build", stage |-> "prepare", peer |-> 0, link |-> 0, sdp |-> Head(relay[e]).link]}]
      /\ UNCHANGED <<group, peers, links, parked, rounds, rematches, lost, aborted, overstay, hurried>>
  BY DEF OnGroupMatched
<1>2. /\ relay' \in [Members -> Seq(Note)] /\ Head(relay[e]) \in Note
      /\ \A f \in Members : NoNewMatch(f)
      /\ relay'[e] = Tail(relay[e]) /\ relay[e] \in Seq(Note)
  BY <1>1, NoteTaken
<1>3. PICK n \in 0 .. MaxRematches : n = Head(relay[e]).link /\ Head(relay[e]) = Summons(n)
  BY <1>1, <1>2, NoteShape
<1>4. PICK u \in Work : u = [kind |-> "build", stage |-> "prepare", peer |-> 0, link |-> 0, sdp |-> n]
  BY WorkMade
<1>5. work' = [work EXCEPT ![e] = @ \cup {u}] /\ u.stage = "prepare" /\ u.sdp = n
  BY <1>1, <1>3, <1>4
<1>6. /\ work \in [Members -> SUBSET Work] /\ roomSeat \in [Members -> {"waiting", "in", "left"}]
      /\ RoundsDue(e) /\ KeptLinks(e) /\ rounds[e] \in Nat /\ rematches \in Nat
  <2>1. rematches \in Nat
    BY MeshBounds DEF MeshInv, MeshTypes
  <2> QED BY <2>1 DEF MeshInv, MeshTypes
<1>7. /\ work' \in [Members -> SUBSET Work] /\ work'[e] = work[e] \cup {u}
      /\ roomSeat' \in [Members -> {"waiting", "in", "left"}] /\ roomSeat'[e] = "in"
      /\ \A f \in Members : f # e => work'[f] = work[f] /\ roomSeat'[f] = roomSeat[f]
  BY <1>1, <1>5, <1>6
<1>8. MeshTypes'
  BY <1>1, <1>2, <1>7 DEF MeshInv, MeshTypes
<1>9. KeptLinks(e)' /\ LeftAlone(e)'
  BY <1>1, <1>6, <1>7 DEF KeptLinks, LeftAlone
<1>10. PICK q \in Seq(Note) : q = relay[e]
  BY <1>2
<1>11. /\ 1 \in DOMAIN q /\ q[1] = Summons(n)
       /\ \A k \in DOMAIN Tail(q) : k + 1 \in DOMAIN q /\ Tail(q)[k] = q[k + 1] /\ k + 1 # 1
       /\ Tail(q) \in Seq(Note)
  <2>1. \A k \in DOMAIN Tail(q) : k \in Nat /\ k # 0
    BY <1>1, <1>10, HeadGone
  <2>2. \A k \in DOMAIN Tail(q) : k + 1 # 1
    BY <2>1
  <2> QED BY <2>2, <1>1, <1>3, <1>10, HeadGone
<1>12. \A m : Summons(m).kind = "matched" /\ Summons(m).link = m
  BY DEF Summons
<1>13. Announced(e)' \subseteq Announced(e) \ {n} /\ n \in Announced(e)
  <2>1. n \in Announced(e)
    BY <1>10, <1>11 DEF Announced
  <2>2. ASSUME NEW m \in 0 .. MaxRematches, NEW k \in DOMAIN Tail(q), Tail(q)[k] = Summons(m)
        PROVE  m # n /\ \E j \in DOMAIN q : q[j] = Summons(m)
    <3>1. k + 1 \in DOMAIN q /\ q[k + 1] = Summons(m) /\ k + 1 # 1
      BY <2>2, <1>11
    <3>2. m # n
      BY <3>1, <1>6, <1>10, <1>11, <1>12 DEF RoundsDue
    <3> QED BY <3>1, <3>2
  <2> QED BY <2>1, <2>2, <1>2, <1>10 DEF Announced
<1>14. Preparing(e)' \subseteq Preparing(e) \cup {n}
  BY <1>5, <1>7 DEF Preparing
<1>15. Due(e)' \subseteq Due(e)
  BY <1>13, <1>14 DEF Due
<1>16. RoundsDue(e)'
  <2>1. \A j, k \in DOMAIN Tail(q) : Tail(q)[j].kind = "matched" /\ Tail(q)[j] = Tail(q)[k] => j = k
    <3> SUFFICES ASSUME NEW j \in DOMAIN Tail(q), NEW k \in DOMAIN Tail(q),
                        Tail(q)[j].kind = "matched", Tail(q)[j] = Tail(q)[k]
                 PROVE  j = k
      OBVIOUS
    <3>1. j + 1 \in DOMAIN q /\ k + 1 \in DOMAIN q /\ q[j + 1].kind = "matched" /\ q[j + 1] = q[k + 1]
      BY <1>11
    <3>2. j + 1 = k + 1
      BY <3>1, <1>6, <1>10 DEF RoundsDue
    <3>3. j \in Nat /\ k \in Nat
      BY <1>11
    <3> QED BY <3>2, <3>3
  <2>2. PICK D : D = Due(e)
    OBVIOUS
  <2>3. PICK E : E = Due(e)'
    OBVIOUS
  <2>4. IsFiniteSet(D) /\ Cardinality(D) \in Nat /\ E \in SUBSET D
    BY <1>15, <2>2, <2>3, DueFinite
  <2>5. Cardinality(E) \in Nat /\ Cardinality(E) <= Cardinality(D)
    BY <2>4, FS_Subset, FS_CardinalityType
  <2>6. rounds[e] + Cardinality(D) <= rematches + 1
    BY <1>6, <2>2 DEF RoundsDue
  <2>7. rounds[e] + Cardinality(E) <= rematches + 1
    BY <2>4, <2>5, <2>6, <1>6
  <2>8. Announced(e)' \cap Preparing(e)' = {}
    BY <1>13, <1>14, <1>6 DEF RoundsDue
  <2>9. \A m \in Due(e)' : m <= rematches
    BY <1>15, <1>6 DEF RoundsDue
  <2>10. relay'[e] = Tail(q)
    BY <1>2, <1>10
  <2> QED BY <2>1, <2>3, <2>7, <2>8, <2>9, <2>10, <1>1 DEF RoundsDue
<1>17. \A f \in Members : f # e => SameRow(f)
  BY <1>1, <1>7 DEF SameRow
<1> QED BY <1>1, <1>2, <1>8, <1>9, <1>16, <1>17, MemberKeeps

\* clear() at the start of createMeshPeers
LEMMA MeshPreparedKeeps == ASSUME MeshInv, NEW e \in Members, MeshPrepared(e) PROVE MeshInv'
<1>1. PICK t \in work[e] :
        /\ t.stage = "prepare"
        /\ work' = [work EXCEPT ![e] = (@ \ {t}) \cup {[t EXCEPT !.stage = "ice"]}]
  BY DEF MeshPrepared
<1>2. /\ ClearMesh(e) /\ rounds' = [rounds EXCEPT ![e] = @ + 1]
      /\ lost' \in [Members -> BOOLEAN]
      /\ UNCHANGED <<group, roomSeat, relay, rematches, aborted, overstay, hurried>>
  <2>1. /\ ClearMesh(e) /\ rounds' = [rounds EXCEPT ![e] = @ + 1]
        /\ lost' = [lost EXCEPT ![e] = @ \/ parked[e] # {} \/ Early(e)]
        /\ UNCHANGED <<group, roomSeat, relay, rematches, aborted, overstay, hurried>>
    BY DEF MeshPrepared
  <2>2. lost \in [Members -> BOOLEAN]
    BY DEF MeshInv, MeshTypes
  <2>3. \A b : (b \/ parked[e] # {} \/ Early(e)) \in BOOLEAN
    OBVIOUS
  <2> QED BY <2>1, <2>2, <2>3
<1>3. /\ work \in [Members -> SUBSET Work] /\ work[e] \in SUBSET Work /\ t \in Work
      /\ rounds \in [Members -> Nat] /\ RoundsDue(e) /\ LeftAlone(e)
      /\ rounds[e] \in Nat /\ rematches \in Nat
  <2>1. rematches \in Nat
    BY MeshBounds DEF MeshInv, MeshTypes
  <2> QED BY <2>1 DEF MeshInv, MeshTypes
<1>4. PICK n \in 0 .. MaxRematches :
        t = [kind |-> "build", stage |-> "prepare", peer |-> 0, link |-> 0, sdp |-> n]
  BY <1>1, <1>3, WorkShape
<1>5. PICK u \in Work : u = [kind |-> "build", stage |-> "ice", peer |-> 0, link |-> 0, sdp |-> n]
  BY WorkMade
<1>6. [t EXCEPT !.stage = "ice"] = u
  BY <1>4, <1>5
<1>7. /\ work' \in [Members -> SUBSET Work] /\ work'[e] = (work[e] \ {t}) \cup {u}
      /\ rounds' \in [Members -> Nat] /\ rounds'[e] = rounds[e] + 1
      /\ \A f \in Members : f # e => work'[f] = work[f] /\ rounds'[f] = rounds[f]
  BY <1>1, <1>2, <1>3, <1>6
<1>8. /\ links' \in [Members -> Seq(Link)] /\ parked' \in [Members -> SUBSET Relayed]
      /\ peers' \in [Members -> [Members -> Nat]]
      /\ KeptLinks(e)' /\ \A p \in Members : peers'[e][p] = 0
      /\ \A f \in Members : f # e => links'[f] = links[f] /\ peers'[f] = peers[f]
  BY <1>2, MeshCleared
<1>9. MeshTypes'
  BY <1>2, <1>7, <1>8 DEF MeshInv, MeshTypes
<1>10. LeftAlone(e)'
  <2>1. t \in Building(e)
    BY <1>1, <1>4 DEF Building
  <2> QED BY <2>1, <1>2, <1>3 DEF LeftAlone
<1>11. n \in Preparing(e) /\ Preparing(e)' \subseteq Preparing(e) \ {n}
  <2>1. t.stage = "prepare" /\ t.sdp = n /\ u.stage = "ice"
    BY <1>4, <1>5
  <2>2. n \in Preparing(e)
    BY <2>1 DEF Preparing
  <2>3. ASSUME NEW m \in 0 .. MaxRematches, NEW v \in work'[e], v.stage = "prepare", v.sdp = m
        PROVE  m # n /\ v \in work[e]
    <3>1. v \in work[e] /\ v # t
      BY <2>1, <2>3, <1>7
    <3>2. v = [kind |-> "build", stage |-> "prepare", peer |-> 0, link |-> 0, sdp |-> m]
      BY <3>1, <2>3, <1>3, WorkShape
    <3> QED BY <3>1, <3>2, <1>4
  <2> QED BY <2>2, <2>3 DEF Preparing
<1>12. Announced(e)' = Announced(e)
  BY <1>2 DEF Announced
<1>13. RoundsDue(e)'
  <2>1. Due(e)' \subseteq Due(e) \ {n} /\ n \in Due(e)
    BY <1>3, <1>11, <1>12 DEF Due, RoundsDue
  <2>2. PICK D : D = Due(e)
    OBVIOUS
  <2>3. PICK E : E = Due(e)'
    OBVIOUS
  <2>4. IsFiniteSet(D) /\ Cardinality(D) \in Nat /\ E \in SUBSET (D \ {n}) /\ n \in D
    BY <2>1, <2>2, <2>3, DueFinite
  <2>5. IsFiniteSet(D \ {n}) /\ Cardinality(D \ {n}) = Cardinality(D) - 1
    BY <2>4, FS_RemoveElement
  <2>6. Cardinality(E) \in Nat /\ Cardinality(E) <= Cardinality(D \ {n})
    BY <2>4, <2>5, FS_Subset, FS_CardinalityType
  <2>7. rounds[e] + Cardinality(D) <= rematches + 1
    BY <1>3, <2>2 DEF RoundsDue
  <2>8. rounds[e] + 1 + Cardinality(E) <= rematches + 1
    BY <2>4, <2>5, <2>6, <2>7, <1>3
  <2>9. \A m \in Due(e)' : m <= rematches
    BY <2>1, <1>3 DEF RoundsDue
  <2>10. Announced(e)' \cap Preparing(e)' = {}
    BY <1>3, <1>11, <1>12 DEF RoundsDue
  <2>11. \A j, k \in DOMAIN relay'[e] : relay'[e][j].kind = "matched" /\ relay'[e][j] = relay'[e][k] => j = k
    BY <1>2, <1>3 DEF RoundsDue
  <2> QED BY <2>3, <2>8, <2>9, <2>10, <2>11, <1>2, <1>7 DEF RoundsDue
<1>14. \A f \in Members : f # e => SameRow(f)
  BY <1>2, <1>7, <1>8 DEF SameRow
<1>15. \A f \in Members : NoNewMatch(f)
  BY <1>2, RelayStays
<1> QED BY <1>2, <1>8, <1>9, <1>10, <1>13, <1>14, <1>15, MemberKeeps

\* One stretch of createMeshPeers, after the ice servers or a sent offer.
LEMMA StretchKeeps ==
    ASSUME MeshInv, NEW e \in Members, NEW t \in work[e], t.stage = "ice" \/ t.stage = "offering",
           NEW made, NEW map, Grown(e, made, map), map = Created(e).map,
           Drained(e, made, map, (work[e] \ {t}) \cup
             {[kind |-> "build", stage |-> "offering", peer |-> p, link |-> map[p], sdp |-> 0]
                : p \in {q \in Stretch(e) : q > e}}),
           peers' = [peers EXCEPT ![e] = map],
           relay' \in [Members -> Seq(Note)], \A f \in Members : NoNewMatch(f),
           UNCHANGED <<group, roomSeat, rounds, rematches, lost, aborted, overstay, hurried>>
    PROVE  MeshInv'
<1>1. work[e] \in SUBSET Work /\ t \in Work /\ LeftAlone(e)
  BY DEF MeshInv, MeshTypes
<1>2. PICK h : h = {[kind |-> "build", stage |-> "offering", peer |-> p, link |-> map[p], sdp |-> 0]
                      : p \in {q \in Stretch(e) : q > e}}
  OBVIOUS
<1>3. \A v \in h : v \in Work /\ v.stage = "offering"
  <2> SUFFICES ASSUME NEW p \in Stretch(e)
               PROVE  [kind |-> "build", stage |-> "offering", peer |-> p, link |-> map[p], sdp |-> 0] \in Work
    BY <1>2
  <2>1. p \in Members /\ map[p] \in Nat
    BY StretchIs DEF Grown
  <2> QED BY <2>1, WorkMade
<1>4. PICK w \in SUBSET Work : w = (work[e] \ {t}) \cup h
  BY <1>1, <1>3
<1>5. Drained(e, made, map, w)
  BY <1>2, <1>4
<1>6. /\ links' \in [Members -> Seq(Link)] /\ parked' \in [Members -> SUBSET Relayed]
      /\ work' \in [Members -> SUBSET Work] /\ peers' \in [Members -> [Members -> Nat]]
      /\ KeptLinks(e)'
      /\ \A v \in work'[e] : v \in w \/ v.stage = "remote"
      /\ \A f \in Members : f # e => links'[f] = links[f] /\ work'[f] = work[f] /\ peers'[f] = peers[f]
  BY <1>5, DrainedKeeps
<1>7. MeshTypes'
  BY <1>6 DEF MeshInv, MeshTypes
<1>8. LeftAlone(e)'
  <2>1. t \in Building(e)
    <3>1. t.kind = "build"
      BY <1>1, WorkShape
    <3> QED BY <3>1 DEF Building
  <2> QED BY <2>1, <1>1 DEF LeftAlone
<1>9. Preparing(e)' \subseteq Preparing(e)
  BY <1>3, <1>4, <1>6 DEF Preparing
<1>10. RoundsDue(e)'
  BY <1>7, <1>9, RoundsStay
<1>11. \A f \in Members : f # e => SameRow(f)
  BY <1>6 DEF SameRow
<1> QED BY <1>6, <1>7, <1>8, <1>10, <1>11, MemberKeeps

LEMMA MeshIceFetchedKeeps == ASSUME MeshInv, NEW e \in Members, MeshIceFetched(e) PROVE MeshInv'
<1>1. PICK t \in work[e] : t.stage = "ice" /\ Build(e, t)
  BY DEF MeshIceFetched
<1>2. UNCHANGED <<group, roomSeat, relay, rounds, rematches, lost, aborted, overstay, hurried>>
  BY DEF MeshIceFetched
<1>3. PICK made, map : made = Created(e).made /\ map = Created(e).map
  OBVIOUS
<1>4. Grown(e, made, map)
  BY <1>3, CreatedGrows
<1>5. /\ Drained(e, made, map, (work[e] \ {t}) \cup
           {[kind |-> "build", stage |-> "offering", peer |-> p, link |-> map[p], sdp |-> 0]
              : p \in {q \in Stretch(e) : q > e}})
      /\ peers' = [peers EXCEPT ![e] = map]
  BY <1>1, <1>3 DEF Build
<1>6. relay' \in [Members -> Seq(Note)] /\ \A f \in Members : NoNewMatch(f)
  BY <1>2, RelayStays DEF MeshInv, MeshTypes
<1> QED BY <1>1, <1>2, <1>3, <1>4, <1>5, <1>6, StretchKeeps

LEMMA MeshOfferedKeeps == ASSUME MeshInv, NEW e \in Members, MeshOffered(e) PROVE MeshInv'
<1>1. PICK t \in work[e] :
        /\ t.stage = "offering" /\ links[e][t.link].open
        /\ relay' = Told(relay, e, t.peer, "offer", t.link)
        /\ peers' = [peers EXCEPT ![e] = Created(e).map]
        /\ Drained(e, [Created(e).made EXCEPT ![t.link].state = "local"], Created(e).map,
             (work[e] \ {t}) \cup
             {[kind |-> "build", stage |-> "offering", peer |-> p, link |-> Created(e).map[p], sdp |-> 0]
                : p \in {q \in Stretch(e) : q > e}})
  BY DEF MeshOffered
<1>2. UNCHANGED <<group, roomSeat, rounds, rematches, lost, aborted, overstay, hurried>>
  BY DEF MeshOffered
<1>3. PICK map : map = Created(e).map
  OBVIOUS
<1>4. PICK q : q = Created(e).made
  OBVIOUS
<1>5. PICK made : made = [q EXCEPT ![t.link].state = "local"]
  OBVIOUS
<1>6. Grown(e, q, map)
  BY <1>3, <1>4, CreatedGrows
<1>7. Grown(e, made, map)
  <2>1. q \in Seq(Link)
    BY <1>6 DEF Grown
  <2>2. CASE t.link \in DOMAIN q
    <3>1. PICK l \in Link : l = q[t.link]
      BY <2>1, <2>2
    <3>2. PICK m \in Link : m = [l EXCEPT !.state = "local"]
      BY DEF Link
    <3>3. m.open = l.open /\ m.peer = l.peer
      BY <3>2 DEF Link
    <3>4. made = [q EXCEPT ![t.link] = m]
      BY <3>1, <3>2, <1>5
    <3>5. PICK i \in DOMAIN q : i = t.link
      BY <2>2
    <3>6. /\ made \in Seq(Link) /\ Len(made) = Len(q) /\ DOMAIN made = DOMAIN q
          /\ made[i] = m /\ \A k \in DOMAIN q : k # i => made[k] = q[k]
      BY <2>1, <3>4, <3>5
    <3>7. \A k \in DOMAIN q : made[k].open = q[k].open /\ made[k].peer = q[k].peer
      BY <3>1, <3>3, <3>5, <3>6
    <3> QED BY <3>6, <3>7, <1>6 DEF Grown
  <2>3. CASE t.link \notin DOMAIN q
    <3>1. made = q
      BY <2>1, <2>3, <1>5
    <3> QED BY <3>1, <1>6
  <2> QED BY <2>2, <2>3
<1>8. Drained(e, made, map, (work[e] \ {t}) \cup
           {[kind |-> "build", stage |-> "offering", peer |-> p, link |-> map[p], sdp |-> 0]
              : p \in {r \in Stretch(e) : r > e}})
  BY <1>1, <1>3, <1>4, <1>5
<1>9. peers' = [peers EXCEPT ![e] = map]
  BY <1>1, <1>3
<1>10. t.peer \in Members /\ t.link \in Nat
  <2>1. t \in Work
    BY DEF MeshInv, MeshTypes
  <2> QED BY <2>1, <1>1, WorkShape
<1>11. relay' \in [Members -> Seq(Note)] /\ \A f \in Members : NoNewMatch(f)
  BY <1>1, <1>10, ToldSends
<1>12. t.stage = "ice" \/ t.stage = "offering"
  BY <1>1
<1> QED BY <1>2, <1>3, <1>7, <1>8, <1>9, <1>11, <1>12, StretchKeeps

\* a loop that gives up, a signal that is dropped or parked, a promise that rejects
LEMMA WorkGone ==
    ASSUME MeshInv, NEW e \in Members, NEW t \in work[e], work' = [work EXCEPT ![e] = @ \ {t}]
    PROVE  /\ work' \in [Members -> SUBSET Work]
           /\ \A f \in Members : f # e => work'[f] = work[f]
           /\ work'[e] = work[e] \ {t}
BY DEF MeshInv, MeshTypes

LEMMA MeshAbortsKeeps == ASSUME MeshInv, NEW e \in Members, MeshAborts(e) PROVE MeshInv'
<1>1. PICK t \in work[e] : work' = [work EXCEPT ![e] = @ \ {t}]
  BY DEF MeshAborts
<1>2. /\ aborted' = [aborted EXCEPT ![e] = TRUE]
      /\ UNCHANGED <<group, roomSeat, peers, links, parked, relay, rounds, rematches, lost, overstay, hurried>>
  BY DEF MeshAborts
<1>3. /\ work' \in [Members -> SUBSET Work]
      /\ \A f \in Members : f # e => work'[f] = work[f]
      /\ work'[e] = work[e] \ {t}
  BY <1>1, WorkGone
<1>4. aborted' \in [Members -> BOOLEAN]
  BY <1>2 DEF MeshInv, MeshTypes
<1>5. MeshTypes'
  BY <1>2, <1>3, <1>4 DEF MeshInv, MeshTypes
<1>6. \A f \in Members : NoNewMatch(f)
  BY <1>2, RelayStays
<1> QED BY <1>2, <1>3, <1>5, <1>6, MemberWorks

LEMMA MeshRejectedKeeps == ASSUME MeshInv, NEW e \in Members, MeshRejected(e) PROVE MeshInv'
<1>1. PICK t \in work[e] : work' = [work EXCEPT ![e] = @ \ {t}]
  BY DEF MeshRejected
<1>2. UNCHANGED <<group, roomSeat, peers, links, parked, relay, rounds, rematches, lost, aborted, overstay, hurried>>
  BY DEF MeshRejected
<1>3. /\ work' \in [Members -> SUBSET Work]
      /\ \A f \in Members : f # e => work'[f] = work[f]
      /\ work'[e] = work[e] \ {t}
  BY <1>1, WorkGone
<1>5. MeshTypes'
  BY <1>2, <1>3 DEF MeshInv, MeshTypes
<1>6. \A f \in Members : NoNewMatch(f)
  BY <1>2, RelayStays
<1> QED BY <1>2, <1>3, <1>5, <1>6, MemberWorks

LEMMA OnUnknownKeeps == ASSUME MeshInv, NEW e \in Members, OnUnknown(e) PROVE MeshInv'
<1>1. /\ relay[e] # <<>> /\ Head(relay[e]).kind \in {"offer", "answer", "candidate"}
      /\ relay' = [relay EXCEPT ![e] = Tail(@)]
      /\ parked' = [parked EXCEPT ![e] = @ \cup {Head(relay[e])}]
      /\ UNCHANGED <<group, roomSeat, work, peers, links, rounds, rematches, lost, aborted, overstay, hurried>>
  BY DEF OnUnknown, Incoming
<1>2. relay' \in [Members -> Seq(Note)] /\ Head(relay[e]) \in Note /\ \A f \in Members : NoNewMatch(f)
  BY <1>1, NoteTaken
<1>3. Head(relay[e]) \in Relayed
  BY <1>1, <1>2 DEF Relayed
<1>4. parked' \in [Members -> SUBSET Relayed]
  BY <1>1, <1>3 DEF MeshInv, MeshTypes
<1>5. MeshTypes'
  BY <1>1, <1>2, <1>4 DEF MeshInv, MeshTypes
<1> QED BY <1>1, <1>2, <1>5, MemberWorks

LEMMA OnStaleNoteKeeps == ASSUME MeshInv, NEW e \in Members, OnStaleNote(e) PROVE MeshInv'
<1>1. /\ relay[e] # <<>> /\ relay' = [relay EXCEPT ![e] = Tail(@)]
      /\ UNCHANGED <<group, roomSeat, work, peers, links, parked, rounds, rematches, lost, aborted, overstay, hurried>>
  BY DEF OnStaleNote
<1>2. relay' \in [Members -> Seq(Note)] /\ \A f \in Members : NoNewMatch(f)
  BY <1>1, NoteTaken
<1>3. MeshTypes'
  BY <1>1, <1>2 DEF MeshInv, MeshTypes
<1> QED BY <1>1, <1>2, <1>3, MemberWorks

\* an offer or an answer for a connection there is
LEMMA OnDescriptionKeeps == ASSUME MeshInv, NEW e \in Members, OnDescription(e) PROVE MeshInv'
<1>1. /\ relay[e] # <<>> /\ Head(relay[e]).kind \in {"offer", "answer"}
      /\ relay' = [relay EXCEPT ![e] = Tail(@)]
      /\ work' = work \/ work' = [work EXCEPT ![e] = @ \cup {Handling(e, Head(relay[e]), peers[e])}]
      /\ UNCHANGED <<group, roomSeat, peers, links, parked, rounds, rematches, lost, aborted, overstay, hurried>>
  BY DEF OnDescription, Incoming
<1>2. relay' \in [Members -> Seq(Note)] /\ Head(relay[e]) \in Note /\ \A f \in Members : NoNewMatch(f)
  BY <1>1, NoteTaken
<1>3. PICK s \in Note : s = Head(relay[e])
  BY <1>2
<1>4. /\ s.kind = "offer" \/ s.kind = "answer"
      /\ s.from \in Members /\ s.link \in Nat
  BY <1>1, <1>3, NoteShape
<1>5. PICK u \in Work : u = Handling(e, s, peers[e]) /\ u.stage = "remote"
  <2>1. peers[e][s.from] \in Nat
    BY <1>4 DEF MeshInv, MeshTypes
  <2> QED BY <2>1, <1>4, WorkMade DEF Handling
<1>6. work' = work \/ work' = [work EXCEPT ![e] = @ \cup {u}]
  BY <1>1, <1>3, <1>5
<1>7. work \in [Members -> SUBSET Work]
  BY DEF MeshInv, MeshTypes
<1>8. /\ work' \in [Members -> SUBSET Work]
      /\ \A f \in Members : f # e => work'[f] = work[f]
      /\ \A t \in work'[e] : t \in work[e] \/ t.stage = "remote"
  BY <1>5, <1>6, <1>7
<1>9. MeshTypes'
  BY <1>1, <1>2, <1>8 DEF MeshInv, MeshTypes
<1> QED BY <1>1, <1>2, <1>8, <1>9, MemberWorks

\* A connection that is written without being opened or given to another peer.
LEMMA LinkWritten ==
    ASSUME MeshInv, NEW e \in Members, NEW i \in DOMAIN links[e], NEW l \in Link,
           l.open = links[e][i].open, l.peer = links[e][i].peer,
           NEW q, q = [links[e] EXCEPT ![i] = l], links' = [links EXCEPT ![e] = q]
    PROVE  /\ links' \in [Members -> Seq(Link)] /\ Len(links'[e]) = Len(links[e])
           /\ \A f \in Members : f # e => links'[f] = links[f]
           /\ \A k \in DOMAIN links[e] : links'[e][k].peer = links[e][k].peer
                                         /\ (links'[e][k].open => links[e][k].open)
<1>1. links \in [Members -> Seq(Link)] /\ links[e] \in Seq(Link)
  BY DEF MeshInv, MeshTypes
<1>2. PICK r \in Seq(Link) : r = links[e]
  BY <1>1
<1>3. /\ q \in Seq(Link) /\ Len(q) = Len(r)
      /\ q[i] = l /\ \A k \in DOMAIN r : k # i => q[k] = r[k]
  BY <1>2
<1>4. /\ links' \in [Members -> Seq(Link)] /\ links'[e] = q
      /\ \A f \in Members : f # e => links'[f] = links[f]
  BY <1>1, <1>3
<1>5. \A k \in DOMAIN r : q[k].peer = r[k].peer /\ (q[k].open => r[k].open)
  <2> SUFFICES ASSUME NEW k \in DOMAIN r PROVE q[k].peer = r[k].peer /\ (q[k].open => r[k].open)
    OBVIOUS
  <2>1. CASE k = i
    BY <2>1, <1>2, <1>3
  <2>2. CASE k # i
    BY <2>2, <1>3
  <2> QED BY <2>1, <2>2
<1> QED BY <1>2, <1>3, <1>4, <1>5

LEMMA LinksStay ==
    ASSUME MeshInv, NEW e \in Members, links' = links
    PROVE  /\ links' \in [Members -> Seq(Link)] /\ Len(links'[e]) = Len(links[e])
           /\ \A f \in Members : f # e => links'[f] = links[f]
           /\ \A k \in DOMAIN links[e] : links'[e][k].peer = links[e][k].peer
                                         /\ (links'[e][k].open => links[e][k].open)
<1>1. links \in [Members -> Seq(Link)]
  BY SMTT(30) DEF MeshInv, MeshTypes
<1> QED BY ONLY <1>1, links' = links

LEMMA OnMeshCandidateKeeps == ASSUME MeshInv, NEW e \in Members, OnMeshCandidate(e) PROVE MeshInv'
<1>1. /\ relay[e] # <<>> /\ Head(relay[e]).kind = "candidate"
      /\ relay' = [relay EXCEPT ![e] = Tail(@)]
      /\ Known(e, Head(relay[e]).from)
      /\ links' = [links EXCEPT ![e] = WithCandidate(@, peers[e][Head(relay[e]).from], Head(relay[e]).link)]
      /\ UNCHANGED <<group, roomSeat, work, peers, parked, rounds, rematches, lost, aborted, overstay, hurried>>
  BY DEF OnMeshCandidate, Incoming
<1>2. relay' \in [Members -> Seq(Note)] /\ Head(relay[e]) \in Note /\ \A f \in Members : NoNewMatch(f)
  BY <1>1, NoteTaken
<1>3. PICK s \in Note : s = Head(relay[e])
  BY <1>2
<1>4. s.from \in Members /\ s.link \in Nat /\ peers[e][s.from] # 0
  BY <1>1, <1>3, NoteShape DEF Known
<1>5. PICK i \in DOMAIN links[e] : i = peers[e][s.from]
  <2>1. /\ links[e] \in Seq(Link) /\ peers[e][s.from] \in Nat /\ peers[e][s.from] <= Len(links[e])
    BY <1>4 DEF MeshInv, MeshTypes, KeptLinks
  <2> QED BY <2>1, <1>4
<1>6. PICK c \in Nat : c = s.link
  BY <1>4
<1>7. PICK k \in Link : k = links[e][i]
  BY DEF MeshInv, MeshTypes
<1>8. PICK l : l = Candidate(k, c)
  OBVIOUS
<1>9. l \in Link /\ l.open = k.open /\ l.peer = k.peer
  <2>1. /\ [k EXCEPT !.held = @ \cup {c}] \in Link /\ [k EXCEPT !.held = @ \cup {c}].open = k.open
        /\ [k EXCEPT !.held = @ \cup {c}].peer = k.peer
    BY DEF Link
  <2>2. /\ [k EXCEPT !.cands = @ \cup {c}] \in Link /\ [k EXCEPT !.cands = @ \cup {c}].open = k.open
        /\ [k EXCEPT !.cands = @ \cup {c}].peer = k.peer
    BY DEF Link
  <2> QED BY <2>1, <2>2, <1>8 DEF Candidate
<1>10. PICK q : q = [links[e] EXCEPT ![i] = l]
  OBVIOUS
<1>11. links' = [links EXCEPT ![e] = q]
  BY <1>1, <1>3, <1>5, <1>6, <1>7, <1>8, <1>10 DEF WithCandidate
<1>12. /\ links' \in [Members -> Seq(Link)] /\ Len(links'[e]) = Len(links[e])
       /\ \A f \in Members : f # e => links'[f] = links[f]
       /\ \A j \in DOMAIN links[e] : links'[e][j].peer = links[e][j].peer
                                     /\ (links'[e][j].open => links[e][j].open)
  BY <1>7, <1>9, <1>10, <1>11, LinkWritten
<1>13. MeshTypes'
  BY <1>1, <1>2, <1>12 DEF MeshInv, MeshTypes
<1> QED BY <1>1, <1>2, <1>12, <1>13, MemberWorks

\* setRemoteDescription and setLocalDescription are through
LEMMA MeshRemoteSetKeeps == ASSUME MeshInv, NEW e \in Members, MeshRemoteSet(e) PROVE MeshInv'
<1>1. PICK t \in work[e] :
        /\ t.stage = "remote" /\ links[e][t.link].open
        /\ links' = [links EXCEPT ![e][t.link] = [links[e][t.link] EXCEPT
              !.state = IF t.kind = "offer" THEN "remote" ELSE "stable",
              !.far = t.sdp, !.ready = TRUE, !.held = {},
              !.cands = @ \cup (links[e][t.link].held \cap {t.sdp})]]
        /\ work' = [work EXCEPT ![e] = (@ \ {t}) \cup
              (IF t.kind = "offer" THEN {[t EXCEPT !.stage = "answering"]} ELSE {})]
  BY DEF MeshRemoteSet
<1>2. UNCHANGED <<group, roomSeat, peers, parked, relay, rounds, rematches, lost, aborted, overstay, hurried>>
  BY DEF MeshRemoteSet
<1>3. /\ work \in [Members -> SUBSET Work] /\ t \in Work /\ links \in [Members -> Seq(Link)]
      /\ links[e] \in Seq(Link)
  BY DEF MeshInv, MeshTypes
<1>4. (t.kind = "offer" \/ t.kind = "answer") /\ t.peer \in Members /\ t.link \in Nat /\ t.sdp \in Nat
  BY <1>1, <1>3, WorkShape
<1>5. /\ work' \in [Members -> SUBSET Work]
      /\ \A f \in Members : f # e => work'[f] = work[f]
      /\ \A v \in work'[e] : v \in work[e] \/ v.stage = "remote" \/ v.stage = "answering"
  <2>1. CASE t.kind = "offer"
    <3>1. PICK u : u = [t EXCEPT !.stage = "answering"]
      OBVIOUS
    <3>2. t \in [kind : {"offer", "answer"}, stage : {"remote", "answering"}, peer : Members, link : Nat, sdp : Nat]
      BY <1>1, <1>3 DEF Work
    <3>3. u \in Work /\ u.stage = "answering"
      BY <3>1, <3>2 DEF Work
    <3>4. work' = [work EXCEPT ![e] = (@ \ {t}) \cup {u}]
      BY <2>1, <3>1, <1>1
    <3> QED BY <3>3, <3>4, <1>3
  <2>2. CASE t.kind # "offer"
    <3>1. work' = [work EXCEPT ![e] = @ \ {t}]
      BY <2>2, <1>1
    <3> QED BY <3>1, WorkGone
  <2> QED BY <2>1, <2>2
<1>6. /\ links' \in [Members -> Seq(Link)] /\ Len(links'[e]) = Len(links[e])
      /\ \A f \in Members : f # e => links'[f] = links[f]
      /\ \A j \in DOMAIN links[e] : links'[e][j].peer = links[e][j].peer
                                    /\ (links'[e][j].open => links[e][j].open)
  <2>1. CASE t.link \notin DOMAIN links[e]
    <3>1. links' = links
      BY <2>1, <1>1, <1>3
    <3> QED BY <3>1, LinksStay
  <2>2. CASE t.link \in DOMAIN links[e]
    <3>1. PICK i \in DOMAIN links[e] : i = t.link
      BY <2>2
    <3>2. PICK k \in Link : k = links[e][i]
      BY <1>3
    <3>3. PICK d \in SUBSET Nat : d = links[e][t.link].held \cap {t.sdp}
      BY <1>4
    <3>4. PICK st \in {"stable", "local", "remote"} : st = IF t.kind = "offer" THEN "remote" ELSE "stable"
      OBVIOUS
    <3>5. PICK n \in Nat : n = t.sdp
      BY <1>4
    <3>6. PICK l : l = [k EXCEPT !.state = st, !.far = n, !.ready = TRUE, !.held = {}, !.cands = @ \cup d]
      OBVIOUS
    <3>7. l \in Link /\ l.open = k.open /\ l.peer = k.peer
      BY <3>6 DEF Link
    <3>8. PICK q : q = [links[e] EXCEPT ![i] = l]
      OBVIOUS
    <3>9. links' = [links EXCEPT ![e] = q]
      <4>1. links' = [links EXCEPT ![e][i] = [k EXCEPT
              !.state = st, !.far = n, !.ready = TRUE, !.held = {}, !.cands = @ \cup d]]
        BY <1>1, <3>1, <3>2, <3>3, <3>4, <3>5
      <4>2. links' = [links EXCEPT ![e][i] = l]
        BY <4>1, <3>6
      <4> QED BY <4>2, <3>8
    <3> QED BY <3>2, <3>7, <3>8, <3>9, LinkWritten
  <2> QED BY <2>1, <2>2
<1>7. MeshTypes'
  BY <1>2, <1>5, <1>6 DEF MeshInv, MeshTypes
<1>8. \A f \in Members : NoNewMatch(f)
  BY <1>2, RelayStays
<1> QED BY <1>2, <1>5, <1>6, <1>7, <1>8, MemberWorks

LEMMA MeshAnsweredKeeps == ASSUME MeshInv, NEW e \in Members, MeshAnswered(e) PROVE MeshInv'
<1>1. PICK t \in work[e] :
        /\ t.stage = "answering"
        /\ links' = [links EXCEPT ![e][t.link].state = "stable"]
        /\ relay' = Told(relay, e, t.peer, "answer", t.link)
        /\ work' = [work EXCEPT ![e] = @ \ {t}]
  BY DEF MeshAnswered
<1>2. UNCHANGED <<group, roomSeat, peers, parked, rounds, rematches, lost, aborted, overstay, hurried>>
  BY DEF MeshAnswered
<1>3. t \in Work /\ links \in [Members -> Seq(Link)] /\ links[e] \in Seq(Link)
  BY DEF MeshInv, MeshTypes
<1>4. t.peer \in Members /\ t.link \in Nat
  BY <1>1, <1>3, WorkShape
<1>5. relay' \in [Members -> Seq(Note)] /\ \A f \in Members : NoNewMatch(f)
  BY <1>1, <1>4, ToldSends
<1>6. /\ work' \in [Members -> SUBSET Work]
      /\ \A f \in Members : f # e => work'[f] = work[f]
      /\ work'[e] = work[e] \ {t}
  BY <1>1, WorkGone
<1>7. /\ links' \in [Members -> Seq(Link)] /\ Len(links'[e]) = Len(links[e])
      /\ \A f \in Members : f # e => links'[f] = links[f]
      /\ \A j \in DOMAIN links[e] : links'[e][j].peer = links[e][j].peer
                                    /\ (links'[e][j].open => links[e][j].open)
  <2>1. CASE t.link \notin DOMAIN links[e]
    <3>1. links' = links
      BY <2>1, <1>1, <1>3
    <3> QED BY <3>1, LinksStay
  <2>2. CASE t.link \in DOMAIN links[e]
    <3>1. PICK i \in DOMAIN links[e] : i = t.link
      BY <2>2
    <3>2. PICK k \in Link : k = links[e][i]
      BY <1>3
    <3>3. PICK l : l = [k EXCEPT !.state = "stable"]
      OBVIOUS
    <3>4. l \in Link /\ l.open = k.open /\ l.peer = k.peer
      BY <3>3 DEF Link
    <3>5. PICK q : q = [links[e] EXCEPT ![i] = l]
      OBVIOUS
    <3>6. links' = [links EXCEPT ![e] = q]
      BY <1>1, <1>3, <3>1, <3>2, <3>3, <3>5
    <3> QED BY <3>2, <3>4, <3>5, <3>6, LinkWritten
  <2> QED BY <2>1, <2>2
<1>8. MeshTypes'
  BY <1>2, <1>5, <1>6, <1>7 DEF MeshInv, MeshTypes
<1> QED BY <1>2, <1>5, <1>6, <1>7, <1>8, MemberWorks

\* A member leaves: clear() closes whatever it keeps.
LEMMA LeaveMeshKeeps ==
    ASSUME MeshInv, NEW e \in Members, LeaveMesh(e),
           relay' \in [Members -> Seq(Note)], \A f \in Members : NoNewMatch(f),
           UNCHANGED <<group, work, rounds, rematches, lost, aborted, hurried>>
    PROVE  MeshInv'
<1>1. /\ links' \in [Members -> Seq(Link)] /\ parked' \in [Members -> SUBSET Relayed]
      /\ peers' \in [Members -> [Members -> Nat]]
      /\ KeptLinks(e)' /\ \A p \in Members : peers'[e][p] = 0
      /\ \A f \in Members : f # e => links'[f] = links[f] /\ peers'[f] = peers[f]
  BY MeshCleared DEF LeaveMesh
<1>2. PICK b \in BOOLEAN : b = (Building(e) # {})
  OBVIOUS
<1>3. /\ roomSeat' = [roomSeat EXCEPT ![e] = "left"] /\ overstay' = [overstay EXCEPT ![e] = b]
      /\ roomSeat \in [Members -> {"waiting", "in", "left"}] /\ overstay \in [Members -> BOOLEAN]
  BY <1>2 DEF LeaveMesh, MeshInv, MeshTypes
<1>4. /\ roomSeat' \in [Members -> {"waiting", "in", "left"}] /\ overstay' \in [Members -> BOOLEAN]
      /\ overstay'[e] = b
      /\ \A f \in Members : f # e => roomSeat'[f] = roomSeat[f] /\ overstay'[f] = overstay[f]
  BY <1>3
<1>5. MeshTypes'
  BY <1>1, <1>4 DEF MeshInv, MeshTypes
<1>6. LeftAlone(e)'
  <2>1. Building(e)' = Building(e)
    BY DEF Building
  <2>2. ~b => Building(e) = {}
    BY <1>2
  <2> QED BY <2>1, <2>2, <1>1, <1>4 DEF LeftAlone
<1>7. RoundsDue(e)'
  <2>1. Preparing(e)' \subseteq Preparing(e)
    BY DEF Preparing
  <2> QED BY <2>1, <1>5, RoundsStay
<1>8. \A f \in Members : f # e => SameRow(f)
  BY <1>1, <1>4 DEF SameRow
<1> QED BY <1>1, <1>5, <1>6, <1>7, <1>8, MemberKeeps

LEMMA StopMeshKeeps == ASSUME MeshInv, NEW e \in Members, StopMesh(e) PROVE MeshInv'
<1>1. PICK s \in Note : s = [kind |-> "gone", from |-> e, link |-> 0]
  <2>1. [kind |-> "gone", from |-> e, link |-> 0] \in [kind : {"gone"}, from : Members, link : {0}]
    OBVIOUS
  <2> QED BY <2>1 DEF Note
<1>2. /\ LeaveMesh(e)
      /\ UNCHANGED <<group, work, rounds, rematches, lost, aborted, hurried>>
      /\ relay' = [p \in Members |-> IF p # e /\ p \in group /\ roomSeat[p] # "left"
                                     THEN Append(relay[p], s) ELSE relay[p]]
  BY <1>1 DEF StopMesh
<1>3. relay \in [Members -> Seq(Note)]
  BY DEF MeshInv, MeshTypes
<1>4. \A p \in Members : relay'[p] = relay[p] \/ relay'[p] = Append(relay[p], s)
  BY <1>2
<1>5. relay' \in [Members -> Seq(Note)]
  BY <1>1, <1>2, <1>3
<1>6. ASSUME NEW f \in Members PROVE NoNewMatch(f)
  <2>1. PICK q \in Seq(Note) : q = relay[f]
    BY <1>3
  <2>2. s.kind # "matched"
    BY <1>1
  <2>3. \A k \in DOMAIN q : k + 0 = k
    OBVIOUS
  <2>4. /\ DOMAIN Append(q, s) = DOMAIN q \cup {Len(q) + 1} /\ Append(q, s)[Len(q) + 1] = s
        /\ \A k \in DOMAIN q : Append(q, s)[k] = q[k]
    OBVIOUS
  <2>5. relay'[f] = q \/ relay'[f] = Append(q, s)
    BY <1>4, <2>1
  <2>6. Shifted(f, 0)
    <3> SUFFICES ASSUME NEW k \in DOMAIN relay'[f], relay'[f][k].kind = "matched"
                 PROVE  k \in DOMAIN q /\ relay'[f][k] = q[k]
      BY <2>1, <2>3 DEF Shifted
    <3> QED BY <2>2, <2>4, <2>5
  <2> QED BY <2>6 DEF NoNewMatch
<1> QED BY <1>2, <1>5, <1>6, LeaveMeshKeeps

LEMMA OnGoneKeeps == ASSUME MeshInv, NEW e \in Members, OnGone(e) PROVE MeshInv'
<1>1. /\ relay[e] # <<>> /\ Head(relay[e]).kind = "gone" /\ roomSeat[e] = "in"
      /\ relay' = [relay EXCEPT ![e] = Tail(@)]
      /\ UNCHANGED <<group, work, rounds, rematches, lost, aborted, hurried>>
      /\ \/ LeaveMesh(e)
         \/ /\ links' = [links EXCEPT ![e] = Shut(@, {peers[e][Head(relay[e]).from]})]
            /\ peers' = [peers EXCEPT ![e][Head(relay[e]).from] = 0]
            /\ UNCHANGED <<roomSeat, overstay, parked>>
  BY DEF OnGone, Incoming
<1>2. relay' \in [Members -> Seq(Note)] /\ Head(relay[e]) \in Note /\ \A f \in Members : NoNewMatch(f)
  BY <1>1, NoteTaken
<1>3. CASE LeaveMesh(e)
  BY <1>1, <1>2, <1>3, LeaveMeshKeeps
<1>4. CASE /\ links' = [links EXCEPT ![e] = Shut(@, {peers[e][Head(relay[e]).from]})]
           /\ peers' = [peers EXCEPT ![e][Head(relay[e]).from] = 0]
           /\ UNCHANGED <<roomSeat, overstay, parked>>
  <2>1. PICK p \in Members : p = Head(relay[e]).from
    BY <1>1, <1>2, NoteShape
  <2>2. PICK q \in Seq(Link) : q = links[e]
    BY DEF MeshInv, MeshTypes
  <2>3. PICK r : r = Shut(q, {peers[e][p]})
    OBVIOUS
  <2>4. /\ r \in Seq(Link) /\ Len(r) = Len(q) /\ DOMAIN r = DOMAIN q
        /\ \A i \in DOMAIN q : r[i].peer = q[i].peer /\ (r[i].open => q[i].open /\ i \notin {peers[e][p]})
    BY <2>3, ShutAre
  <2>5. links' = [links EXCEPT ![e] = r] /\ peers' = [peers EXCEPT ![e][p] = 0]
    BY <1>4, <2>1, <2>2, <2>3
  <2>6. links \in [Members -> Seq(Link)] /\ peers \in [Members -> [Members -> Nat]] /\ KeptLinks(e)
    BY DEF MeshInv, MeshTypes
  <2>7. /\ links' \in [Members -> Seq(Link)] /\ links'[e] = r
        /\ peers' \in [Members -> [Members -> Nat]] /\ peers'[e][p] = 0
        /\ \A x \in Members : x # p => peers'[e][x] = peers[e][x]
        /\ \A f \in Members : f # e => links'[f] = links[f] /\ peers'[f] = peers[f]
    BY <2>4, <2>5, <2>6
  <2>8. MeshTypes'
    BY <1>1, <1>2, <1>4, <2>7 DEF MeshInv, MeshTypes
  <2>9. KeptLinks(e)'
    <3>1. \A x \in Members : peers'[e][x] <= Len(r)
      <4>1. Len(r) \in Nat
        BY <2>4
      <4>2. ASSUME NEW x \in Members PROVE peers'[e][x] <= Len(r)
        <5>1. CASE x = p
          BY <5>1, <4>1, <2>7
        <5>2. CASE x # p
          <6>1. peers[e][x] <= Len(q)
            BY <2>2, <2>6 DEF KeptLinks
          <6>2. peers'[e][x] = peers[e][x] /\ Len(r) = Len(q)
            BY <5>2, <2>4, <2>7
          <6> QED BY <6>1, <6>2
        <5> QED BY <5>1, <5>2
      <4> QED BY <4>2
    <3>2. ASSUME NEW i \in DOMAIN q, r[i].open PROVE peers'[e][r[i].peer] = i
      <4>1. q[i].open /\ i # peers[e][p] /\ r[i].peer = q[i].peer
        BY <3>2, <2>4
      <4>2. PICK x \in Members : x = q[i].peer
        <5>1. q[i] \in Link
          OBVIOUS
        <5> QED BY <5>1 DEF Link
      <4>3. peers[e][x] = i
        BY <4>1, <4>2, <2>2, <2>6 DEF KeptLinks
      <4> QED BY <4>1, <4>2, <4>3, <2>7
    <3> QED BY <3>1, <3>2, <2>4, <2>7 DEF KeptLinks
  <2>10. LeftAlone(e)'
    BY <1>1, <1>4 DEF LeftAlone
  <2>11. RoundsDue(e)'
    <3>1. Preparing(e)' \subseteq Preparing(e)
      BY <1>1 DEF Preparing
    <3> QED BY <3>1, <1>1, <1>2, <2>8, RoundsStay
  <2>12. \A f \in Members : f # e => SameRow(f)
    BY <1>1, <1>4, <2>7 DEF SameRow
  <2> QED BY <1>1, <1>2, <2>8, <2>9, <2>10, <2>11, <2>12, MemberKeeps
<1> QED BY <1>1, <1>3, <1>4

\* the server matches the group again
LEMMA RematchKeeps == ASSUME MeshInv, Rematch PROVE MeshInv'
<1>1. /\ rematches < MaxRematches /\ rematches' = rematches + 1
      /\ relay' = [e \in Members |-> IF e \in group THEN Append(relay[e], Summons(rematches')) ELSE relay[e]]
      /\ UNCHANGED <<group, roomSeat, work, peers, links, parked, rounds, lost, aborted, overstay>>
      /\ hurried' \in BOOLEAN
  <2>1. hurried' = (hurried \/ \E e \in group : work[e] # {} \/ relay[e] # <<>>)
    BY DEF Rematch
  <2>2. hurried' \in BOOLEAN
    BY <2>1
  <2> QED BY <2>2 DEF Rematch
<1>2. rematches \in Nat /\ rematches + 1 \in 0 .. MaxRematches /\ MaxRematches \in Nat
  BY <1>1, MeshBounds DEF MeshInv, MeshTypes
<1>3. PICK n \in 0 .. MaxRematches : n = rematches + 1
  BY <1>2
<1>4. PICK s \in Note : s = Summons(n)
  <2>1. Summons(n) \in [kind : {"matched"}, from : {0}, link : 0 .. MaxRematches]
    BY DEF Summons
  <2> QED BY <2>1 DEF Note
<1>5. relay' = [e \in Members |-> IF e \in group THEN Append(relay[e], s) ELSE relay[e]]
  BY <1>1, <1>3, <1>4
<1>6. relay \in [Members -> Seq(Note)] /\ relay' \in [Members -> Seq(Note)]
  BY <1>5 DEF MeshInv, MeshTypes
<1>7. MeshTypes'
  BY <1>1, <1>2, <1>6 DEF MeshInv, MeshTypes
<1>8. ASSUME NEW e \in Members PROVE KeptLinks(e)' /\ LeftAlone(e)'
  <2>1. KeptLinks(e) /\ LeftAlone(e) /\ Building(e)' = Building(e)
    BY <1>1 DEF MeshInv, Building
  <2> QED BY <2>1, <1>1 DEF KeptLinks, LeftAlone
<1>9. ASSUME NEW e \in Members PROVE RoundsDue(e)'
  <2>1. PICK q \in Seq(Note) : q = relay[e]
    BY <1>6
  <2>2. /\ DOMAIN Append(q, s) = DOMAIN q \cup {Len(q) + 1} /\ Append(q, s)[Len(q) + 1] = s
        /\ \A k \in DOMAIN q : Append(q, s)[k] = q[k]
    OBVIOUS
  <2>3. relay'[e] = q \/ relay'[e] = Append(q, s)
    BY <1>5, <2>1
  <2>4. RoundsDue(e) /\ rounds[e] \in Nat
    BY DEF MeshInv, MeshTypes
  <2>5. Preparing(e)' = Preparing(e)
    BY <1>1 DEF Preparing
  <2>6. n \notin Due(e)
    BY <1>2, <1>3, <2>4 DEF RoundsDue
  <2>7. \A m : Summons(m).link = m /\ Summons(m).kind = "matched"
    BY DEF Summons
  <2>8. Announced(e)' \subseteq Announced(e) \cup {n}
    <3> SUFFICES ASSUME NEW m \in 0 .. MaxRematches, NEW k \in DOMAIN relay'[e], relay'[e][k] = Summons(m)
                 PROVE  m = n \/ \E j \in DOMAIN q : q[j] = Summons(m)
      BY <2>1 DEF Announced
    <3>1. (k \in DOMAIN q /\ relay'[e][k] = q[k]) \/ relay'[e][k] = s
      BY <2>2, <2>3
    <3> QED BY <3>1, <2>7, <1>4
  <2>9. Due(e)' \subseteq Due(e) \cup {n}
    BY <2>5, <2>8 DEF Due
  <2>10. PICK D : D = Due(e)
    OBVIOUS
  <2>11. PICK E : E = Due(e)'
    OBVIOUS
  <2>12. IsFiniteSet(D) /\ Cardinality(D) \in Nat /\ n \notin D /\ E \in SUBSET (D \cup {n})
    BY <2>6, <2>9, <2>10, <2>11, DueFinite
  <2>13. IsFiniteSet(D \cup {n}) /\ Cardinality(D \cup {n}) = Cardinality(D) + 1
    BY <2>12, FS_AddElement
  <2>14. Cardinality(E) \in Nat /\ Cardinality(E) <= Cardinality(D \cup {n})
    BY <2>12, <2>13, FS_Subset, FS_CardinalityType
  <2>15. rounds[e] + Cardinality(D) <= rematches + 1
    BY <2>4, <2>10 DEF RoundsDue
  <2>16. rounds[e] + Cardinality(E) <= (rematches + 1) + 1
    BY <2>4, <2>12, <2>13, <2>14, <2>15, <1>2
  <2>17. \A m \in Due(e)' : m <= rematches + 1
    <3> SUFFICES ASSUME NEW m \in Due(e)' PROVE m <= rematches + 1
      OBVIOUS
    <3>1. CASE m = n
      BY <3>1, <1>2, <1>3
    <3>2. CASE m \in Due(e)
      <4>1. m <= rematches /\ m \in Nat
        BY <3>2, <2>4 DEF RoundsDue, Due, Announced, Preparing
      <4> QED BY <4>1, <1>2
    <3> QED BY <3>1, <3>2, <2>9
  <2>18. Announced(e)' \cap Preparing(e)' = {}
    BY <2>4, <2>5, <2>6, <2>8 DEF RoundsDue, Due
  <2>19. \A k \in DOMAIN q : q[k] # s
    BY <2>1, <2>6, <1>4 DEF Due, Announced
  <2>20. \A j, k \in DOMAIN relay'[e] :
           relay'[e][j].kind = "matched" /\ relay'[e][j] = relay'[e][k] => j = k
    <3> SUFFICES ASSUME NEW j \in DOMAIN relay'[e], NEW k \in DOMAIN relay'[e],
                        relay'[e][j].kind = "matched", relay'[e][j] = relay'[e][k]
                 PROVE  j = k
      OBVIOUS
    <3>1. (j \in DOMAIN q /\ relay'[e][j] = q[j]) \/ (j = Len(q) + 1 /\ relay'[e][j] = s)
      BY <2>2, <2>3
    <3>2. (k \in DOMAIN q /\ relay'[e][k] = q[k]) \/ (k = Len(q) + 1 /\ relay'[e][k] = s)
      BY <2>2, <2>3
    <3>3. j \in DOMAIN q /\ k \in DOMAIN q /\ q[j].kind = "matched" /\ q[j] = q[k] => j = k
      BY <2>1, <2>4 DEF RoundsDue
    <3> QED BY <3>1, <3>2, <3>3, <2>19
  <2> QED BY <2>11, <2>16, <2>17, <2>18, <2>20, <1>1 DEF RoundsDue
<1> QED BY <1>7, <1>8, <1>9 DEF MeshInv

LEMMA MeshStarts == MeshInit => MeshInv
<1> SUFFICES ASSUME NEW ms \in SUBSET Members, NEW n \in 0 .. MaxRematches, MeshInitOf(ms, n) PROVE MeshInv
  BY MeshBounds DEF MeshInit
<1>1. PICK s \in Note : s = Summons(0)
  <2>1. 0 \in 0 .. MaxRematches
    BY MeshBounds
  <2>2. Summons(0) \in [kind : {"matched"}, from : {0}, link : 0 .. MaxRematches]
    BY <2>1 DEF Summons
  <2> QED BY <2>2 DEF Note
<1>2. /\ <<s>> \in Seq(Note) /\ DOMAIN <<s>> = {1} /\ <<s>>[1] = s
      /\ <<>> \in Seq(Note) /\ <<>> \in Seq(Link) /\ DOMAIN <<>> = {} /\ Len(<<>>) = 0
  OBVIOUS
<1>3. relay = [e \in Members |-> IF e \in ms THEN <<s>> ELSE <<>>]
  BY <1>1 DEF MeshInitOf
<1>4. relay \in [Members -> Seq(Note)]
  BY <1>2, <1>3
<1>5. MeshTypes
  BY <1>2, <1>4 DEF MeshInitOf, MeshTypes
<1>6. ASSUME NEW e \in Members PROVE KeptLinks(e) /\ LeftAlone(e)
  BY <1>2 DEF MeshInitOf, KeptLinks, LeftAlone, Building
<1>7. ASSUME NEW e \in Members PROVE RoundsDue(e)
  <2>1. work[e] = {} /\ rounds[e] = 0 /\ rematches = n /\ (relay[e] = <<s>> \/ relay[e] = <<>>)
    BY <1>3 DEF MeshInitOf
  <2>2. Preparing(e) = {}
    BY <2>1 DEF Preparing
  <2>3. \A m : Summons(m).link = m
    BY DEF Summons
  <2>4. Announced(e) \subseteq {0}
    BY <2>1, <2>3, <1>1, <1>2 DEF Announced
  <2>5. Due(e) \in SUBSET {0}
    BY <2>2, <2>4 DEF Due
  <2>6. IsFiniteSet({0}) /\ Cardinality({0}) = 1
    BY FS_Singleton
  <2>7. PICK D : D = Due(e)
    OBVIOUS
  <2>8. Cardinality(D) <= 1 /\ Cardinality(D) \in Nat
    BY <2>5, <2>6, <2>7, FS_Subset, DueFinite
  <2>9. n \in Nat
    BY MeshBounds
  <2>10. 0 + Cardinality(D) <= n + 1
    BY <2>8, <2>9
  <2>11. \A m \in Due(e) : m <= n
    BY <2>5, <2>9
  <2>12. \A j, k \in DOMAIN relay[e] : j = k
    BY <2>1, <1>2
  <2> QED BY <2>1, <2>2, <2>7, <2>10, <2>11, <2>12 DEF RoundsDue
<1> QED BY <1>5, <1>6, <1>7 DEF MeshInv

LEMMA MeshStep == MeshInv /\ [MeshNext]_meshVars => MeshInv'
<1> SUFFICES ASSUME MeshInv, [MeshNext]_meshVars PROVE MeshInv'
  OBVIOUS
<1>1. CASE Rematch
  BY <1>1, RematchKeeps
<1>2. ASSUME NEW e \in group, MeshPromises(e) \/ MeshEvents(e) \/ StopMesh(e) PROVE MeshInv'
  <2>1. e \in Members
    BY DEF MeshInv, MeshTypes
  <2>2. CASE MeshPromises(e)
    BY <2>1, <2>2, MeshPreparedKeeps, MeshIceFetchedKeeps, MeshOfferedKeeps, MeshAbortsKeeps,
       MeshRemoteSetKeeps, MeshAnsweredKeeps, MeshRejectedKeeps DEF MeshPromises
  <2>3. CASE MeshEvents(e)
    BY <2>1, <2>3, OnGroupMatchedKeeps, OnUnknownKeeps, OnDescriptionKeeps, OnMeshCandidateKeeps,
       OnGoneKeeps, OnStaleNoteKeeps DEF MeshEvents
  <2> QED BY <1>2, <2>1, <2>2, <2>3, StopMeshKeeps
<1>3. CASE UNCHANGED meshVars
  <2>1. UNCHANGED <<group, roomSeat, work, peers, links, parked, relay, rounds, rematches,
                    hurried, lost, aborted, overstay>>
    BY <1>3 DEF meshVars
  <2>2. MeshTypes'
    BY <2>1 DEF MeshInv, MeshTypes
  <2>3. ASSUME NEW e \in Members PROVE KeptLinks(e)' /\ LeftAlone(e)' /\ RoundsDue(e)'
    <3>1. KeptLinks(e) /\ LeftAlone(e) /\ RoundsDue(e)
      BY DEF MeshInv
    <3>2. /\ Building(e)' = Building(e) /\ Announced(e)' = Announced(e) /\ Preparing(e)' = Preparing(e)
          /\ Due(e)' = Due(e)
      BY <2>1 DEF Building, Announced, Preparing, Due
    <3> QED BY <2>1, <3>1, <3>2 DEF KeptLinks, LeftAlone, RoundsDue
  <2> QED BY <2>2, <2>3 DEF MeshInv
<1> QED BY <1>1, <1>2, <1>3 DEF MeshNext

LEMMA MeshMeans == ASSUME MeshInv PROVE MeshTypeOK /\ NoMeshOrphans /\ MeshReleasedAfterStop
<1>1. NoMeshOrphans
  BY DEF MeshInv, KeptLinks, NoMeshOrphans
<1>2. MeshReleasedAfterStop
  BY DEF MeshInv, LeftAlone, MeshReleasedAfterStop, Kept
<1>3. \A e \in Members :
        /\ work[e] \subseteq Work /\ parked[e] \subseteq Note /\ Range(relay[e]) \subseteq Note
        /\ \A i \in DOMAIN links[e] : links[e][i] \in Link
        /\ \A p \in Members : peers[e][p] \in 0 .. Len(links[e])
  <2> SUFFICES ASSUME NEW e \in Members
               PROVE  /\ work[e] \subseteq Work /\ parked[e] \subseteq Note /\ Range(relay[e]) \subseteq Note
                      /\ \A i \in DOMAIN links[e] : links[e][i] \in Link
                      /\ \A p \in Members : peers[e][p] \in 0 .. Len(links[e])
    OBVIOUS
  <2>1. /\ work[e] \in SUBSET Work /\ parked[e] \in SUBSET Relayed /\ relay[e] \in Seq(Note)
        /\ links[e] \in Seq(Link) /\ peers[e] \in [Members -> Nat] /\ KeptLinks(e)
    BY DEF MeshInv, MeshTypes
  <2>2. \A p \in Members : peers[e][p] \in 0 .. Len(links[e])
    BY <2>1 DEF KeptLinks
  <2> QED BY <2>1, <2>2 DEF Range, Relayed
<1>4. rounds \in [Members -> 0 .. MaxRematches + 1]
  <2>1. ASSUME NEW e \in Members PROVE rounds[e] \in 0 .. MaxRematches + 1
    <3>1. PICK c \in Nat : c = Cardinality(Due(e))
      BY DueFinite
    <3>2. rounds[e] + c <= rematches + 1
      BY <3>1 DEF MeshInv, RoundsDue
    <3>3. rounds[e] \in Nat /\ rematches \in 0 .. MaxRematches /\ MaxRematches \in Nat
      BY MeshBounds DEF MeshInv, MeshTypes
    <3> QED BY <3>2, <3>3
  <2> QED BY <2>1 DEF MeshInv, MeshTypes
<1>5. MeshTypeOK
  BY <1>3, <1>4 DEF MeshInv, MeshTypes, MeshTypeOK
<1> QED BY <1>1, <1>2, <1>5

-----------------------------------------------------------------------------
(* The bridge to an embedded game.  Codes are numbered as they are minted, *)
(* and every answer posted ends with the roster of the host.               *)

Post == [what : {"init", "presence"}, of : Nat]

BridgeTypes ==
  /\ doc \in 1 .. MaxFrames + 1
  /\ booted \in BOOLEAN /\ hosting \in BOOLEAN /\ hostInited \in BOOLEAN
  /\ gotInit \in BOOLEAN /\ rosterLost \in BOOLEAN
  /\ gameRoster \in Nat /\ hostRoster \in Roster /\ seating \in Roster
  /\ toGame \in Seq(Post) /\ exchanged \in Seq(Nat) /\ pushed \in Seq(Roster)
  /\ joining \in Nat /\ codes \in Nat /\ codes >= 1
  /\ show \in [at : {"none", "asked", "read", "done"}, roster : Roster]

\* the rosters the game is told of are rosters
Rostered ==
  /\ gameRoster \in Roster
  /\ \A n \in DOMAIN toGame : toGame[n].what = "presence" => toGame[n].of \in Roster

\* A code is minted before it is posted, posted once, and not posted again once
\* the game has handed it to the server.
CodesFresh ==
  /\ \A i \in DOMAIN exchanged : exchanged[i] <= codes
  /\ \A n \in DOMAIN toGame : toGame[n].what = "init" =>
       /\ toGame[n].of <= codes
       /\ \A i \in DOMAIN exchanged : exchanged[i] # toGame[n].of
       /\ \A m \in DOMAIN toGame :
            toGame[m].what = "init" /\ toGame[m].of = toGame[n].of => m = n
  /\ ~hostInited => /\ exchanged = <<>> /\ joining = 0
                    /\ \A n \in DOMAIN toGame : toGame[n].what # "init"

\* The last thing on its way to the game is the roster of the host.
LastIsRoster ==
  /\ (gotInit => booted) /\ (~booted => toGame = <<>>)
  /\ toGame # <<>> => /\ toGame[Len(toGame)].what = "presence"
                      /\ toGame[Len(toGame)].of = hostRoster
  /\ gotInit /\ toGame = <<>> => gameRoster = hostRoster

\* The last roster pushed is the server's, and so is the host's unless one was lost.
LastIsSeating ==
  /\ ~hosting => show.at = "none" /\ pushed = <<>>
  /\ hosting => show.at # "none"
  /\ pushed # <<>> => pushed[Len(pushed)] = seating
  /\ show.at = "read" => /\ show.roster <= seating
                         /\ pushed # <<>> \/ show.roster = seating \/ hostRoster = seating
  /\ show.at = "done" => pushed # <<>> \/ hostRoster = seating \/ rosterLost

BridgeInv == BridgeTypes /\ Rostered /\ CodesFresh /\ CodesSpentOnce /\ LastIsRoster /\ LastIsSeating

\* What is posted comes last.
LEMMA PostedOne ==
    ASSUME NEW q \in Seq(Post), NEW p \in Post
    PROVE  /\ q \o <<p>> \in Seq(Post) /\ Len(q \o <<p>>) = Len(q) + 1 /\ q \o <<p>> # <<>>
           /\ (q \o <<p>>)[Len(q) + 1] = p
           /\ \A n \in DOMAIN (q \o <<p>>) : n = Len(q) + 1 \/ (n \in DOMAIN q /\ (q \o <<p>>)[n] = q[n])
OBVIOUS

LEMMA PostedTwo ==
    ASSUME NEW q \in Seq(Post), NEW a \in Post, NEW p \in Post
    PROVE  /\ q \o <<a, p>> \in Seq(Post) /\ Len(q \o <<a, p>>) = Len(q) + 2 /\ q \o <<a, p>> # <<>>
           /\ (q \o <<a, p>>)[Len(q) + 1] = a /\ (q \o <<a, p>>)[Len(q) + 2] = p
           /\ \A n \in DOMAIN (q \o <<a, p>>) :
                n = Len(q) + 1 \/ n = Len(q) + 2 \/ (n \in DOMAIN q /\ (q \o <<a, p>>)[n] = q[n])
OBVIOUS

\* The host tells the game its roster.
LEMMA RosterTold ==
    ASSUME BridgeInv, NEW v \in Roster, HostRosterIs(v),
           UNCHANGED <<doc, booted, gotInit, gameRoster, exchanged, hosting, hostInited, joining, codes>>
    PROVE  /\ hostRoster' = v /\ toGame' \in Seq(Post)
           /\ Rostered' /\ CodesFresh' /\ CodesSpentOnce' /\ LastIsRoster'
<1>1. v \in Nat /\ toGame \in Seq(Post) /\ hostRoster' = v
  BY BridgeBounds DEF BridgeInv, BridgeTypes, Roster, HostRosterIs
<1>2. PICK p \in Post : p = [what |-> "presence", of |-> v]
  BY <1>1 DEF Post
<1>3. p.what = "presence" /\ p.of = v
  BY <1>2
<1>4. CodesSpentOnce'
  BY DEF BridgeInv, CodesSpentOnce
<1>5. CASE ~booted
  <2>1. toGame' = toGame /\ ~gotInit /\ toGame = <<>>
    BY <1>5 DEF HostRosterIs, Posts, BridgeInv, LastIsRoster
  <2> QED BY <2>1, <1>1, <1>4 DEF BridgeInv, Rostered, CodesFresh, LastIsRoster
<1>6. CASE booted
  <2>1. toGame' = toGame \o <<p>>
    BY <1>2, <1>6 DEF HostRosterIs, Posts
  <2>2. PICK q \in Seq(Post) : q = toGame'
    BY <2>1, <1>1, PostedOne
  <2>3. /\ Len(q) = Len(toGame) + 1 /\ q # <<>> /\ q[Len(toGame) + 1] = p
        /\ \A n \in DOMAIN q : n = Len(toGame) + 1 \/ (n \in DOMAIN toGame /\ q[n] = toGame[n])
    BY <2>1, <2>2, <1>1, PostedOne
  <2>4. Rostered'
    BY <2>2, <2>3, <1>3 DEF BridgeInv, Rostered
  <2>5. CodesFresh'
    BY <2>2, <2>3, <1>3 DEF BridgeInv, CodesFresh
  <2>6. LastIsRoster'
    BY <2>2, <2>3, <1>1, <1>3, <1>6 DEF BridgeInv, LastIsRoster
  <2> QED BY <2>2, <2>4, <2>5, <2>6, <1>1, <1>4
<1> QED BY <1>5, <1>6 DEF BridgeInv, BridgeTypes

\* The host answers with a code that was not there before.
LEMMA CodePosted ==
    ASSUME BridgeInv, NEW c \in Nat, c <= codes', codes' \in Nat, codes <= codes',
           \A n \in DOMAIN toGame : toGame[n].what = "init" => toGame[n].of # c,
           \A i \in DOMAIN exchanged : exchanged[i] # c,
           Posts(Answer(c)), hostInited',
           UNCHANGED <<doc, booted, gotInit, gameRoster, exchanged, hosting, hostRoster>>
    PROVE  /\ toGame' \in Seq(Post)
           /\ Rostered' /\ CodesFresh' /\ CodesSpentOnce' /\ LastIsRoster'
<1>1. /\ hostRoster \in Nat /\ hostRoster \in Roster /\ toGame \in Seq(Post)
      /\ exchanged \in Seq(Nat) /\ codes \in Nat
  BY BridgeBounds DEF BridgeInv, BridgeTypes, Roster
<1>2. PICK a \in Post : a = [what |-> "init", of |-> c]
  BY DEF Post
<1>3. PICK p \in Post : p = [what |-> "presence", of |-> hostRoster]
  BY <1>1 DEF Post
<1>4. /\ a.what = "init" /\ a.of = c /\ p.what = "presence" /\ p.of = hostRoster
      /\ a.what # "presence" /\ p.what # "init"
  BY <1>2, <1>3
<1>5. CodesSpentOnce' /\ \A i \in DOMAIN exchanged : exchanged[i] <= codes'
  BY <1>1 DEF BridgeInv, CodesSpentOnce, CodesFresh
<1>6. \A n \in DOMAIN toGame : toGame[n].what = "init" => toGame[n].of <= codes'
  <2> SUFFICES ASSUME NEW n \in DOMAIN toGame, toGame[n].what = "init" PROVE toGame[n].of <= codes'
    OBVIOUS
  <2>1. toGame[n].of <= codes
    BY DEF BridgeInv, CodesFresh
  <2>2. toGame[n].of \in Nat
    <3>1. toGame[n] \in Post
      BY <1>1
    <3> QED BY <3>1 DEF Post
  <2> QED BY <2>1, <2>2, <1>1
<1>7. CASE ~booted
  <2>1. toGame' = toGame /\ ~gotInit /\ toGame = <<>>
    BY <1>7 DEF Posts, BridgeInv, LastIsRoster
  <2> QED BY <2>1, <1>1, <1>5, <1>6 DEF BridgeInv, Rostered, CodesFresh, LastIsRoster
<1>8. CASE booted
  <2>1. toGame' = toGame \o <<a, p>>
    BY <1>2, <1>3, <1>8 DEF Posts, Answer
  <2>2. PICK q \in Seq(Post) : q = toGame'
    BY <2>1, <1>1, PostedTwo
  <2>3. /\ Len(q) = Len(toGame) + 2 /\ q # <<>>
        /\ q[Len(toGame) + 1] = a /\ q[Len(toGame) + 2] = p
        /\ \A n \in DOMAIN q : n = Len(toGame) + 1 \/ n = Len(toGame) + 2
                               \/ (n \in DOMAIN toGame /\ q[n] = toGame[n])
    BY <2>1, <2>2, <1>1, PostedTwo
  <2>4. Rostered'
    BY <2>2, <2>3, <1>1, <1>4 DEF BridgeInv, Rostered
  <2>5. CodesFresh'
    <3>1. \A n \in DOMAIN q : q[n].what = "init" => q[n].of <= codes'
      BY <2>3, <1>4, <1>6
    <3>2. \A n \in DOMAIN q : q[n].what = "init" => \A i \in DOMAIN exchanged : exchanged[i] # q[n].of
      BY <2>3, <1>4 DEF BridgeInv, CodesFresh
    <3>3. \A n, m \in DOMAIN q : q[n].what = "init" /\ q[m].what = "init" /\ q[m].of = q[n].of => m = n
      BY <2>3, <1>4 DEF BridgeInv, CodesFresh
    <3> QED BY <3>1, <3>2, <3>3, <2>2, <1>5 DEF CodesFresh
  <2>6. LastIsRoster'
    BY <2>2, <2>3, <1>1, <1>4, <1>8 DEF BridgeInv, LastIsRoster
  <2> QED BY <2>2, <2>4, <2>5, <2>6, <1>5
<1> QED BY <1>7, <1>8 DEF BridgeInv, BridgeTypes

\* Whatever is taken from the front of a sequence, its last element stays the last.
LEMMA LastStays ==
    ASSUME NEW V, NEW q \in Seq(V), q # <<>>
    PROVE  /\ Tail(q) \in Seq(V)
           /\ Tail(q) # <<>> => Tail(q)[Len(Tail(q))] = q[Len(q)]
           /\ Tail(q) = <<>> => q[Len(q)] = Head(q)
<1>1. Tail(q) \in Seq(V) /\ Len(Tail(q)) = Len(q) - 1 /\ Len(q) \in Nat /\ Len(q) >= 1
  OBVIOUS
<1>2. ASSUME Tail(q) # <<>> PROVE Tail(q)[Len(Tail(q))] = q[Len(q)]
  <2>1. Len(Tail(q)) >= 1
    BY <1>1, <1>2
  <2>2. \A k \in 1 .. Len(Tail(q)) : Tail(q)[k] = q[k + 1]
    BY <1>1
  <2> QED BY <2>1, <2>2, <1>1
<1>3. ASSUME Tail(q) = <<>> PROVE q[Len(q)] = Head(q)
  <2>1. Len(q) = 1
    BY <1>1, <1>3
  <2> QED BY <2>1
<1> QED BY <1>1, <1>2, <1>3

\* A seat taken or left, and the roster of the server that is shown or pushed.
LEMMA RosterArrivesKeeps ==
    ASSUME BridgeInv, Shown \/ ShowFails \/ OnPresence \/ ShowRead \/ Seats
    PROVE  BridgeInv'
<1>0. /\ UNCHANGED <<doc, booted, gotInit, gameRoster, exchanged, hosting, hostInited, joining, codes>>
      /\ Roster \subseteq Nat
  BY BridgeBounds DEF Shown, ShowFails, OnPresence, ShowRead, Seats, gameSide, hostSide, Roster
<1>1. /\ toGame \in Seq(Post) /\ pushed \in Seq(Roster) /\ hostRoster \in Roster /\ seating \in Roster
      /\ show.roster \in Roster /\ rosterLost \in BOOLEAN /\ hosting \in BOOLEAN
  BY DEF BridgeInv, BridgeTypes
<1>2. CASE Shown
  <2>1. /\ show.at = "read" /\ show' = [show EXCEPT !.at = "done"] /\ HostRosterIs(show.roster)
        /\ rosterLost' = (rosterLost \/ hostRoster > show.roster)
        /\ UNCHANGED <<seating, pushed>>
    BY <1>2 DEF Shown
  <2>2. /\ hostRoster' = show.roster /\ toGame' \in Seq(Post)
        /\ Rostered' /\ CodesFresh' /\ CodesSpentOnce' /\ LastIsRoster'
    BY <2>1, <1>0, <1>1, RosterTold
  <2>3. show'.at = "done" /\ show' \in [at : {"none", "asked", "read", "done"}, roster : Roster]
    BY <2>1 DEF BridgeInv, BridgeTypes
  <2>4. BridgeTypes'
    <3>1. rosterLost' \in BOOLEAN
      BY <2>1
    <3> QED BY <3>1, <2>1, <2>2, <2>3, <1>0, <1>1 DEF BridgeInv, BridgeTypes
  <2>5. pushed # <<>> \/ hostRoster' = seating \/ rosterLost'
    <3>1. pushed # <<>> \/ show.roster = seating \/ hostRoster = seating
      BY <2>1 DEF BridgeInv, LastIsSeating
    <3>2. show.roster <= seating
      BY <2>1 DEF BridgeInv, LastIsSeating
    <3>3. show.roster \in Nat /\ seating \in Nat /\ hostRoster \in Nat
      BY <1>0, <1>1
    <3>4. hostRoster = seating => show.roster = seating \/ hostRoster > show.roster
      BY <3>2, <3>3
    <3> QED BY <3>1, <3>4, <2>1, <2>2
  <2>6. hosting
    BY <2>1, <1>1 DEF BridgeInv, LastIsSeating
  <2>7. LastIsSeating'
    BY <2>1, <2>3, <2>5, <2>6, <1>0 DEF BridgeInv, LastIsSeating
  <2> QED BY <2>2, <2>4, <2>7 DEF BridgeInv
<1>3. CASE ShowFails
  <2>1. /\ show.at = "asked" /\ show' = [show EXCEPT !.at = "done"] /\ rosterLost'
        /\ rosterLost' \in BOOLEAN /\ UNCHANGED <<seating, pushed, toGame, hostRoster>>
    BY <1>3 DEF ShowFails, hostSide
  <2>3. show'.at = "done" /\ show' \in [at : {"none", "asked", "read", "done"}, roster : Roster]
    BY <2>1 DEF BridgeInv, BridgeTypes
  <2>4. BridgeTypes'
    BY <2>1, <2>3, <1>0 DEF BridgeInv, BridgeTypes
  <2>5. Rostered' /\ CodesFresh' /\ CodesSpentOnce' /\ LastIsRoster'
    BY <2>1, <1>0 DEF BridgeInv, Rostered, CodesFresh, CodesSpentOnce, LastIsRoster
  <2>6. LastIsSeating'
    BY <2>1, <2>3, <1>0, <1>1 DEF BridgeInv, LastIsSeating
  <2> QED BY <2>4, <2>5, <2>6 DEF BridgeInv
<1>4. CASE OnPresence
  <2>1. /\ pushed # <<>> /\ pushed' = Tail(pushed) /\ HostRosterIs(Head(pushed))
        /\ UNCHANGED <<seating, show, rosterLost>>
    BY <1>4 DEF OnPresence
  <2>2. PICK v \in Roster : v = Head(pushed)
    BY <2>1, <1>1
  <2>3. /\ Tail(pushed) \in Seq(Roster)
        /\ Tail(pushed) # <<>> => Tail(pushed)[Len(Tail(pushed))] = pushed[Len(pushed)]
        /\ Tail(pushed) = <<>> => pushed[Len(pushed)] = Head(pushed)
    BY <2>1, <1>1, LastStays
  <2>4. /\ hostRoster' = v /\ toGame' \in Seq(Post)
        /\ Rostered' /\ CodesFresh' /\ CodesSpentOnce' /\ LastIsRoster'
    BY <2>1, <2>2, <1>0, RosterTold
  <2>5. BridgeTypes'
    BY <2>1, <2>3, <2>4, <1>0, <1>1 DEF BridgeInv, BridgeTypes
  <2>6. LastIsSeating'
    BY <2>1, <2>2, <2>3, <2>4, <1>0 DEF BridgeInv, LastIsSeating
  <2> QED BY <2>4, <2>5, <2>6 DEF BridgeInv
<1>5. CASE ShowRead
  <2>1. /\ show.at = "asked" /\ show' = [at |-> "read", roster |-> seating]
        /\ UNCHANGED <<seating, pushed, rosterLost, toGame, hostRoster>>
    BY <1>5 DEF ShowRead, hostSide
  <2>2. /\ show'.at = "read" /\ show'.roster = seating
        /\ show' \in [at : {"none", "asked", "read", "done"}, roster : Roster]
    BY <2>1, <1>1
  <2>3. BridgeTypes'
    BY <2>1, <2>2, <1>0 DEF BridgeInv, BridgeTypes
  <2>4. Rostered' /\ CodesFresh' /\ CodesSpentOnce' /\ LastIsRoster'
    BY <2>1, <1>0 DEF BridgeInv, Rostered, CodesFresh, CodesSpentOnce, LastIsRoster
  <2>5. seating <= seating /\ (hosting \/ show.at = "none")
    BY <1>0, <1>1 DEF BridgeInv, LastIsSeating
  <2>6. LastIsSeating'
    BY <2>1, <2>2, <2>5, <1>0, <1>1 DEF BridgeInv, LastIsSeating
  <2> QED BY <2>3, <2>4, <2>6 DEF BridgeInv
<1>6. CASE Seats
  <2>1. /\ seating < MaxSeatings /\ seating' = seating + 1
        /\ pushed' = IF hosting THEN Append(pushed, seating + 1) ELSE pushed
        /\ UNCHANGED <<show, rosterLost, toGame, hostRoster>>
    BY <1>6 DEF Seats, hostSide
  <2>2. seating' \in Roster /\ seating <= seating' /\ seating \in Nat /\ seating + 1 \in Roster
    BY <2>1, <1>0, <1>1, BridgeBounds DEF Roster
  <2>3. /\ Append(pushed, seating + 1) \in Seq(Roster) /\ Append(pushed, seating + 1) # <<>>
        /\ Append(pushed, seating + 1)[Len(Append(pushed, seating + 1))] = seating + 1
    BY <2>2, <1>1
  <2>4. BridgeTypes'
    BY <2>1, <2>2, <2>3, <1>0 DEF BridgeInv, BridgeTypes
  <2>5. Rostered' /\ CodesFresh' /\ CodesSpentOnce' /\ LastIsRoster'
    BY <2>1, <1>0 DEF BridgeInv, Rostered, CodesFresh, CodesSpentOnce, LastIsRoster
  <2>6. LastIsSeating'
    <3>1. show.at = "read" => show.roster <= seating'
      <4>1. show.roster \in Nat
        BY <1>0, <1>1
      <4> QED BY <4>1, <2>2, <2>1 DEF BridgeInv, LastIsSeating
    <3>2. CASE hosting
      BY <3>1, <3>2, <2>1, <2>3, <1>0 DEF BridgeInv, LastIsSeating
    <3>3. CASE ~hosting
      BY <3>3, <2>1, <1>0 DEF BridgeInv, LastIsSeating
    <3> QED BY <3>2, <3>3
  <2> QED BY <2>4, <2>5, <2>6 DEF BridgeInv
<1> QED BY <1>2, <1>3, <1>4, <1>5, <1>6

\* The game announces itself, is loaded again and reads what was posted to it.
LEMMA GameKeeps == ASSUME BridgeInv, Announce \/ GameReceives \/ ReloadFrame PROVE BridgeInv'
<1>0. UNCHANGED <<hosting, hostInited, hostRoster, joining, codes, seating, show, pushed, rosterLost>>
  BY DEF Announce, GameReceives, ReloadFrame, hostSide
<1>1. LastIsSeating'
  BY <1>0 DEF BridgeInv, LastIsSeating
<1>2. /\ toGame \in Seq(Post) /\ exchanged \in Seq(Nat) /\ codes \in Nat /\ hostRoster \in Roster
      /\ gotInit \in BOOLEAN /\ booted \in BOOLEAN
  BY DEF BridgeInv, BridgeTypes
<1>3. CASE Announce
  <2>1. ~gotInit /\ booted' = TRUE /\ UNCHANGED <<doc, gotInit, gameRoster, exchanged, toGame>>
    BY <1>3 DEF Announce
  <2>2. BridgeTypes'
    BY <2>1, <1>0 DEF BridgeInv, BridgeTypes
  <2>3. Rostered' /\ CodesFresh' /\ CodesSpentOnce' /\ LastIsRoster'
    BY <2>1, <1>0 DEF BridgeInv, Rostered, CodesFresh, CodesSpentOnce, LastIsRoster
  <2> QED BY <2>2, <2>3, <1>1 DEF BridgeInv
<1>4. CASE ReloadFrame
  <2>1. /\ doc <= MaxFrames /\ doc' = doc + 1 /\ booted' = FALSE /\ gotInit' = FALSE
        /\ gameRoster' = 0 /\ toGame' = <<>> /\ exchanged' = exchanged
    BY <1>4 DEF ReloadFrame
  <2>2. <<>> \in Seq(Post) /\ DOMAIN <<>> = {} /\ 0 \in Roster /\ doc' \in 1 .. MaxFrames + 1
    BY <2>1, BridgeBounds DEF BridgeInv, BridgeTypes, Roster
  <2>3. BridgeTypes'
    BY <2>1, <2>2, <1>0 DEF BridgeInv, BridgeTypes
  <2>4. Rostered'
    BY <2>1, <2>2 DEF Rostered
  <2>5. CodesFresh'
    BY <2>1, <2>2, <1>0 DEF BridgeInv, CodesFresh
  <2>6. CodesSpentOnce' /\ LastIsRoster'
    BY <2>1 DEF BridgeInv, CodesSpentOnce, LastIsRoster
  <2> QED BY <2>3, <2>4, <2>5, <2>6, <1>1 DEF BridgeInv
<1>5. CASE GameReceives
  <2>1. PICK q \in Seq(Post) : q = toGame
    BY <1>2
  <2>2. PICK m \in Post : m = Head(q)
    BY <1>5, <2>1 DEF GameReceives
  <2>3. /\ q # <<>> /\ toGame' = Tail(q) /\ UNCHANGED <<doc, booted>>
        /\ \/ m.what = "init" /\ ~gotInit /\ gotInit' = TRUE
              /\ exchanged' = Append(exchanged, m.of) /\ UNCHANGED gameRoster
           \/ m.what = "init" /\ gotInit /\ UNCHANGED <<gotInit, exchanged, gameRoster>>
           \/ m.what = "presence" /\ gameRoster' = m.of /\ UNCHANGED <<gotInit, exchanged>>
    BY <1>5, <2>1, <2>2 DEF GameReceives
  <2>4. /\ Tail(q) \in Seq(Post) /\ 1 \in DOMAIN q /\ q[1] = m
        /\ \A k \in DOMAIN Tail(q) : k + 1 \in DOMAIN q /\ Tail(q)[k] = q[k + 1]
        /\ Tail(q) # <<>> => Tail(q)[Len(Tail(q))] = q[Len(q)]
        /\ Tail(q) = <<>> => q[Len(q)] = m
    BY <2>2, <2>3, LastStays
  <2>5. m.of \in Nat
    BY DEF Post
  <2>6. booted /\ (m.what = "presence" => m.of \in Roster)
    <3>1. booted
      BY <2>1, <2>3 DEF BridgeInv, LastIsRoster
    <3> QED BY <3>1, <2>1, <2>4 DEF BridgeInv, Rostered
  <2>7. BridgeTypes'
    <3>1. exchanged' \in Seq(Nat)
      <4>1. Append(exchanged, m.of) \in Seq(Nat)
        BY <2>5, <1>2
      <4>2. exchanged' = exchanged \/ exchanged' = Append(exchanged, m.of)
        BY <2>3
      <4> QED BY <4>1, <4>2, <1>2
    <3>2. gotInit' \in BOOLEAN
      BY <2>3, <1>2
    <3>3. gameRoster' \in Nat
      BY <2>3, <2>5 DEF BridgeInv, BridgeTypes
    <3> QED BY <3>1, <3>2, <3>3, <2>3, <2>4, <1>0 DEF BridgeInv, BridgeTypes
  <2>8. Rostered'
    <3>1. gameRoster' \in Roster
      BY <2>3, <2>6 DEF BridgeInv, Rostered
    <3> QED BY <3>1, <2>1, <2>3, <2>4 DEF BridgeInv, Rostered
  <2>9. ASSUME exchanged' = exchanged PROVE CodesFresh' /\ CodesSpentOnce'
    <3>1. CodesFresh'
      <4>1. \A k \in DOMAIN Tail(q) : Tail(q)[k].what = "init" =>
              /\ Tail(q)[k].of <= codes
              /\ \A i \in DOMAIN exchanged : exchanged[i] # Tail(q)[k].of
              /\ \A j \in DOMAIN Tail(q) :
                   Tail(q)[j].what = "init" /\ Tail(q)[j].of = Tail(q)[k].of => j = k
        BY <2>1, <2>4 DEF BridgeInv, CodesFresh
      <4>2. ~hostInited => \A k \in DOMAIN Tail(q) : Tail(q)[k].what # "init"
        BY <2>1, <2>4 DEF BridgeInv, CodesFresh
      <4> QED BY <4>1, <4>2, <2>3, <2>9, <1>0 DEF BridgeInv, CodesFresh
    <3> QED BY <3>1, <2>9 DEF BridgeInv, CodesSpentOnce
  <2>10. ASSUME m.what = "init", exchanged' = Append(exchanged, m.of)
         PROVE  CodesFresh' /\ CodesSpentOnce'
    <3>1. /\ DOMAIN exchanged' = DOMAIN exchanged \cup {Len(exchanged) + 1}
          /\ exchanged'[Len(exchanged) + 1] = m.of
          /\ \A i \in DOMAIN exchanged : exchanged'[i] = exchanged[i]
      BY <2>5, <2>10, <1>2
    <3>2. m.of <= codes /\ hostInited /\ \A i \in DOMAIN exchanged : exchanged[i] # m.of
      BY <2>1, <2>4, <2>10 DEF BridgeInv, CodesFresh
    <3>3. \A k \in DOMAIN q : k # 1 /\ q[k].what = "init" => q[k].of # m.of
      BY <2>1, <2>4, <2>10 DEF BridgeInv, CodesFresh
    <3>4. \A k \in DOMAIN Tail(q) : Tail(q)[k].what = "init" =>
            /\ Tail(q)[k].of <= codes
            /\ \A i \in DOMAIN exchanged : exchanged[i] # Tail(q)[k].of
            /\ Tail(q)[k].of # m.of
            /\ \A j \in DOMAIN Tail(q) :
                 Tail(q)[j].what = "init" /\ Tail(q)[j].of = Tail(q)[k].of => j = k
      BY <2>1, <2>4, <3>3 DEF BridgeInv, CodesFresh
    <3>5. \A i \in DOMAIN exchanged' :
            (i \in DOMAIN exchanged /\ exchanged'[i] = exchanged[i]) \/ (i = Len(exchanged) + 1 /\ exchanged'[i] = m.of)
      BY <3>1
    <3>6. \A i \in DOMAIN exchanged' : exchanged'[i] <= codes
      BY <3>2, <3>5 DEF BridgeInv, CodesFresh
    <3>7. CodesFresh'
      BY <3>2, <3>4, <3>5, <3>6, <2>3, <1>0 DEF CodesFresh
    <3>8. CodesSpentOnce'
      BY <3>2, <3>5 DEF BridgeInv, CodesSpentOnce
    <3> QED BY <3>7, <3>8
  <2>11. LastIsRoster'
    <3>1. Tail(q) # <<>> => /\ Tail(q)[Len(Tail(q))].what = "presence"
                            /\ Tail(q)[Len(Tail(q))].of = hostRoster
      BY <2>1, <2>3, <2>4 DEF BridgeInv, LastIsRoster
    <3>2. Tail(q) = <<>> => m.what = "presence" /\ m.of = hostRoster
      BY <2>1, <2>3, <2>4 DEF BridgeInv, LastIsRoster
    <3>3. Tail(q) = <<>> => gameRoster' = hostRoster
      BY <3>2, <2>3
    <3> QED BY <3>1, <3>3, <2>3, <2>6, <1>0 DEF LastIsRoster
  <2> QED BY <2>3, <2>7, <2>8, <2>9, <2>10, <2>11, <1>1 DEF BridgeInv
<1> QED BY <1>3, <1>4, <1>5

\* The host starts to listen, and answers an announcement.
LEMMA HostKeeps == ASSUME BridgeInv, Attach \/ OnReady \/ JoinedAgain \/ JoinRefused PROVE BridgeInv'
<1>0. UNCHANGED <<doc, booted, gotInit, gameRoster, exchanged, hostRoster, seating, pushed, rosterLost>>
  BY DEF Attach, OnReady, JoinedAgain, JoinRefused, gameSide, hostSide
<1>1. /\ toGame \in Seq(Post) /\ codes \in Nat /\ codes >= 1 /\ joining \in Nat
      /\ hostInited \in BOOLEAN /\ hosting \in BOOLEAN
  BY DEF BridgeInv, BridgeTypes
<1>2. CASE Attach
  <2>1. /\ ~hosting /\ hosting' = TRUE /\ show' = [show EXCEPT !.at = "asked"]
        /\ UNCHANGED <<hostInited, toGame, joining, codes>>
    BY <1>2 DEF Attach
  <2>2. show'.at = "asked" /\ show' \in [at : {"none", "asked", "read", "done"}, roster : Roster]
    BY <2>1 DEF BridgeInv, BridgeTypes
  <2>3. BridgeTypes'
    BY <2>1, <2>2, <1>0 DEF BridgeInv, BridgeTypes
  <2>4. Rostered' /\ CodesFresh' /\ CodesSpentOnce' /\ LastIsRoster'
    BY <2>1, <1>0 DEF BridgeInv, Rostered, CodesFresh, CodesSpentOnce, LastIsRoster
  <2>5. LastIsSeating'
    BY <2>1, <2>2, <1>0 DEF BridgeInv, LastIsSeating
  <2> QED BY <2>3, <2>4, <2>5 DEF BridgeInv
<1>3. CASE OnReady /\ ~hostInited
  <2>1. hostInited' = TRUE /\ Posts(Answer(1)) /\ UNCHANGED <<hosting, joining, codes, show>>
    BY <1>3 DEF OnReady
  <2>2. /\ \A n \in DOMAIN toGame : toGame[n].what = "init" => toGame[n].of # 1
        /\ \A i \in DOMAIN exchanged : exchanged[i] # 1
    BY <1>3 DEF BridgeInv, CodesFresh
  <2>3. 1 \in Nat /\ 1 <= codes' /\ codes' \in Nat /\ codes <= codes'
    BY <2>1, <1>1
  <2>4. /\ toGame' \in Seq(Post)
        /\ Rostered' /\ CodesFresh' /\ CodesSpentOnce' /\ LastIsRoster'
    BY <2>1, <2>2, <2>3, <1>0, CodePosted
  <2>5. BridgeTypes'
    BY <2>1, <2>4, <1>0 DEF BridgeInv, BridgeTypes
  <2>6. LastIsSeating'
    BY <2>1, <1>0 DEF BridgeInv, LastIsSeating
  <2> QED BY <2>4, <2>5, <2>6 DEF BridgeInv
<1>4. CASE (OnReady /\ hostInited) \/ JoinRefused
  <2>1. /\ UNCHANGED <<hosting, hostInited, toGame, codes, show>> /\ joining' \in Nat
        /\ hostInited \/ joining > 0
    BY <1>4, <1>1 DEF OnReady, JoinRefused, hostSide
  <2>2. hostInited
    BY <2>1, <1>1 DEF BridgeInv, CodesFresh
  <2>3. BridgeTypes'
    BY <2>1, <1>0 DEF BridgeInv, BridgeTypes
  <2>4. Rostered' /\ CodesFresh' /\ CodesSpentOnce' /\ LastIsRoster'
    BY <2>1, <2>2, <1>0 DEF BridgeInv, Rostered, CodesFresh, CodesSpentOnce, LastIsRoster
  <2>5. LastIsSeating'
    BY <2>1, <1>0 DEF BridgeInv, LastIsSeating
  <2> QED BY <2>3, <2>4, <2>5 DEF BridgeInv
<1>5. CASE JoinedAgain
  <2>1. /\ joining > 0 /\ joining' = joining - 1 /\ codes' = codes + 1 /\ Posts(Answer(codes + 1))
        /\ UNCHANGED <<hosting, hostInited, show>>
    BY <1>5 DEF JoinedAgain, hostSide
  <2>2. PICK c \in Nat : c = codes + 1
    BY <1>1
  <2>3. /\ \A n \in DOMAIN toGame : toGame[n].what = "init" => toGame[n].of # c
        /\ \A i \in DOMAIN exchanged : exchanged[i] # c
    BY <2>2, <1>1 DEF BridgeInv, CodesFresh
  <2>4. hostInited' /\ joining' \in Nat
    BY <2>1, <1>1 DEF BridgeInv, CodesFresh
  <2>5. c <= codes' /\ codes' \in Nat /\ codes <= codes' /\ Posts(Answer(c)) /\ codes' >= 1
    BY <2>1, <2>2, <1>1
  <2>6. /\ toGame' \in Seq(Post)
        /\ Rostered' /\ CodesFresh' /\ CodesSpentOnce' /\ LastIsRoster'
    BY <2>1, <2>3, <2>4, <2>5, <1>0, CodePosted
  <2>7. BridgeTypes'
    BY <2>1, <2>4, <2>5, <2>6, <1>0 DEF BridgeInv, BridgeTypes
  <2>8. LastIsSeating'
    BY <2>1, <1>0 DEF BridgeInv, LastIsSeating
  <2> QED BY <2>6, <2>7, <2>8 DEF BridgeInv
<1> QED BY <1>2, <1>3, <1>4, <1>5

LEMMA BridgeStarts == BridgeInit => BridgeInv
<1> SUFFICES ASSUME BridgeInit PROVE BridgeInv
  OBVIOUS
<1>1. /\ <<>> \in Seq(Post) /\ <<>> \in Seq(Nat) /\ <<>> \in Seq(Roster) /\ DOMAIN <<>> = {}
      /\ 0 \in Roster /\ 1 \in Roster /\ 1 \in 1 .. MaxFrames + 1 /\ 0 \in Nat
  BY BridgeBounds DEF Roster
<1>2. /\ show.at = "none" /\ show \in [at : {"none", "asked", "read", "done"}, roster : Roster]
  BY <1>1 DEF BridgeInit
<1>3. BridgeTypes
  <2>1. /\ booted \in BOOLEAN /\ hosting \in BOOLEAN /\ hostInited \in BOOLEAN
        /\ gotInit \in BOOLEAN /\ rosterLost \in BOOLEAN
    BY DEF BridgeInit
  <2>2. /\ doc \in 1 .. MaxFrames + 1 /\ gameRoster \in Nat /\ hostRoster \in Roster
        /\ seating \in Roster /\ joining \in Nat /\ codes \in Nat /\ codes >= 1
    BY <1>1 DEF BridgeInit
  <2>3. toGame \in Seq(Post) /\ exchanged \in Seq(Nat) /\ pushed \in Seq(Roster)
    BY <1>1 DEF BridgeInit
  <2> QED BY <2>1, <2>2, <2>3, <1>2 DEF BridgeTypes
<1> QED BY <1>1, <1>2, <1>3 DEF BridgeInit, BridgeInv, Rostered, CodesFresh, CodesSpentOnce,
                               LastIsRoster, LastIsSeating

LEMMA BridgeStep == BridgeInv /\ [BridgeNext]_bridgeVars => BridgeInv'
<1> SUFFICES ASSUME BridgeInv, [BridgeNext]_bridgeVars PROVE BridgeInv'
  OBVIOUS
<1>1. CASE BridgeNext
  BY <1>1, RosterArrivesKeeps, GameKeeps, HostKeeps DEF BridgeNext, BridgeSteps
<1>2. CASE UNCHANGED bridgeVars
  <2>1. UNCHANGED <<doc, booted, gotInit, gameRoster, exchanged, hosting, hostInited, hostRoster,
                    toGame, joining, codes, seating, show, pushed, rosterLost>>
    BY <1>2 DEF bridgeVars, gameSide, hostSide
  <2>2. BridgeTypes'
    BY <2>1 DEF BridgeInv, BridgeTypes
  <2> QED BY <2>1, <2>2 DEF BridgeInv, Rostered, CodesFresh, CodesSpentOnce, LastIsRoster, LastIsSeating
<1> QED BY <1>1, <1>2

LEMMA BridgeMeans == BridgeInv => BridgeTypeOK /\ CodesSpentOnce /\ RosterArrives
<1> SUFFICES ASSUME BridgeInv PROVE BridgeTypeOK /\ RosterArrives
  BY DEF BridgeInv
<1>1. BridgeTypeOK
  <2>1. \A n \in DOMAIN toGame : toGame[n].what \in {"init", "presence"}
    <3>1. \A n \in DOMAIN toGame : toGame[n] \in Post
      BY DEF BridgeInv, BridgeTypes
    <3> QED BY <3>1 DEF Post
  <2>2. show.at \in {"none", "asked", "read", "done"} /\ show.roster \in Roster
    BY DEF BridgeInv, BridgeTypes
  <2> QED BY <2>1, <2>2 DEF BridgeInv, BridgeTypes, Rostered, BridgeTypeOK
<1>2. RosterArrives
  BY DEF BridgeInv, LastIsRoster, LastIsSeating, RosterArrives
<1> QED BY <1>1, <1>2

-----------------------------------------------------------------------------
(* The mesh and the bridge in the specification that composes the four     *)
(* scenes, and what the four invariants say together.                      *)

LEMMA CallsStepOfMesh ==
    ASSUME [CallsNext]_callsVars
    PROVE  [MeshNext]_meshVars
BY DEF CallsNext, callsVars, Solo, Mesh, Session, Bridge

LEMMA MeshInvariant == CallsSpec => []MeshInv
<1>1. CallsInit => MeshInv
  BY MeshStarts DEF CallsInit
<1>2. MeshInv /\ [CallsNext]_callsVars => MeshInv'
  BY CallsStepOfMesh, MeshStep
<1> QED BY <1>1, <1>2, PTL DEF CallsSpec

LEMMA CallsStepOfBridge ==
    ASSUME [CallsNext]_callsVars
    PROVE  [BridgeNext]_bridgeVars
BY DEF CallsNext, callsVars, Solo, Mesh, Session, Bridge

LEMMA BridgeInvariant == CallsSpec => []BridgeInv
<1>1. CallsInit => BridgeInv
  BY BridgeStarts DEF CallsInit
<1>2. BridgeInv /\ [CallsNext]_callsVars => BridgeInv'
  BY CallsStepOfBridge, BridgeStep
<1> QED BY <1>1, <1>2, PTL DEF CallsSpec

\* Every variable of the four parts keeps its type: no queue holds what its reader
\* does not know, no connection is referred to that was not created.
THEOREM CallsTypesHold == CallsSpec => []CallsTypeOK
<1>1. SessionInv /\ SoloInv /\ MeshInv /\ BridgeInv => CallsTypeOK
  BY SessionMeans, SoloMeans, MeshMeans, BridgeMeans DEF CallsTypeOK
<1> QED BY <1>1, SessionInvariant, SoloInvariant, MeshInvariant, BridgeInvariant, PTL

\* A connection the page no longer refers to is closed and an end that has left
\* publishes its camera to nobody, in a 1:1 call and in a mesh of any size
\* (useWebRTC.ts's createPeer, createMeshPeers and clear), but for the overlaps
\* that the parts name.
THEOREM NoConnectionEverLeaks == CallsSpec => []NoConnectionLeaks
<1>1. SoloInv /\ MeshInv => NoConnectionLeaks
  BY SoloMeans, MeshMeans DEF NoConnectionLeaks
<1> QED BY <1>1, SoloInvariant, MeshInvariant, PTL

\* No launch code reaches the server twice, and the roster an embedded game shows
\* settles on the one the server holds once nothing is on its way, however often the
\* frame reloads and whatever the pushes overtake (ActivitySession.tsx).
THEOREM CodesAndRostersHold == CallsSpec => [](CodesSpentOnce /\ RosterArrives)
<1>1. BridgeInv => CodesSpentOnce /\ RosterArrives
  BY BridgeMeans
<1> QED BY <1>1, BridgeInvariant, PTL
=============================================================================
