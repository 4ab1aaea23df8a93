------------------------------ MODULE Presence ------------------------------
(***************************************************************************)
(* Who is online: the registry of connections (sockets.rs), the task of    *)
(* each connection (route.rs) with its announcements to friends            *)
(* (presence.rs), and the set of friends every page shows.  The task       *)
(* awaits the database before it announces; other connections come, go     *)
(* and announce in between.  A page that reconnects has a new connection,  *)
(* and the server may not have noticed the end of the old one.             *)
(***************************************************************************)
EXTENDS Naturals, Sequences, FiniteSets

CONSTANTS Pages, People,
          AccountOf,   \* page -> the user it is signed in as
          Befriended,  \* user -> accepted_friend_ids
          MaxConns,    \* connections in all
          Capacity     \* SOCKET_OUTGOING_CAPACITY

ASSUME PresenceBounds ==
  /\ AccountOf \in [Pages -> People] /\ Befriended \in [People -> SUBSET People]
  /\ \A u, v \in People : u \in Befriended[v] <=> v \in Befriended[u]
  /\ MaxConns \in Nat \ {0} /\ Capacity \in Nat \ {0}

VARIABLES
  conns,      \* the tasks of the connections so far, in order
  linked,      \* sockets: the registry holds their sender
  registered, \* user_of
  outbox,     \* per connection: frames queued and not read
  attached,   \* per page: socket.current, 0 for null
  shownOn,    \* per page: socialStore.onlineFriends
  doubted,    \* users somebody came or went about whom an announcement was under way (history)
  dropped     \* users one of whose outboxes overflowed (history)

presenceVars == <<conns, linked, registered, outbox, attached, shownOn, doubted, dropped>>

Conn == DOMAIN conns
UserOfConn(i) == AccountOf[conns[i].page]
IsOnline(u) == \E i \in registered : UserOfConn(i) = u

(* at: what the task awaits or does next: "greet" and "part" the query for *)
(* the friends, "list" and "tell" its announcement, "read" the next frame, *)
(* "remove" full_remove after it read user_of (known), "check" is_online.  *)
PresenceStages == {"greet", "list", "tell", "read", "remove", "check", "part", "bye", "gone"}

Frame == [kind : {"list"}, ids : SUBSET People] \cup [kind : {"online", "offline"}, id : People]

PresenceTypeOK ==
  /\ Len(conns) <= MaxConns
  /\ \A i \in Conn : /\ conns[i].page \in Pages /\ conns[i].at \in PresenceStages
                     /\ conns[i].known \in BOOLEAN
                     /\ conns[i].ids \subseteq People /\ conns[i].rest \subseteq People
  /\ linked \subseteq Conn /\ registered \subseteq linked
  /\ \A i \in Conn : Len(outbox[i]) <= Capacity /\ \A k \in DOMAIN outbox[i] : outbox[i][k] \in Frame
  /\ attached \in [Pages -> 0 .. Len(conns)]
  /\ shownOn \in [Pages -> SUBSET People]
  /\ doubted \subseteq People /\ dropped \subseteq People

PresenceInit ==
  /\ conns = <<>> /\ linked = {} /\ registered = {} /\ outbox = <<>>
  /\ attached = [p \in Pages |-> 0]
  /\ shownOn = [p \in Pages |-> {}]
  /\ doubted = {} /\ dropped = {}

\* Hub::push to the connections in to: one whose outbox is full is disconnected
faulty_Full(to) == {i \in to : Len(outbox[i]) > Capacity}
Full(to) == {i \in to : Len(outbox[i]) = Capacity}
PushedTo(to, frame) ==
  /\ outbox' = [i \in Conn |-> IF i \in to \ Full(to) THEN Append(outbox[i], frame) ELSE outbox[i]]
  /\ linked' = linked \ Full(to)
  /\ registered' = registered \ Full(to)
  /\ dropped' = dropped \cup {UserOfConn(i) : i \in Full(to)}

SocketsForUser(u) == {i \in registered : UserOfConn(i) = u}

At(i, stage) == i \in Conn /\ conns[i].at = stage
StepsTo(i, stage) == conns' = [conns EXCEPT ![i].at = stage]

(* An announcement of u's absence, or a list computed for a friend of u,   *)
(* is on its way while u comes or goes.                                    *)
Underway(u) ==
  \E i \in Conn : \/ UserOfConn(i) = u /\ conns[i].at \in {"check", "part", "bye"}
                  \/ conns[i].at = "list" /\ u \in Befriended[UserOfConn(i)]
Crosses(u) == doubted' = doubted \cup (IF Underway(u) THEN {u} ELSE {})

\* the upgrade: hub.connect and register_user
Connect(p) ==
  LET i == Len(conns) + 1
  IN /\ attached[p] = 0 /\ i <= MaxConns
     /\ conns' = Append(conns, [page |-> p, at |-> "greet", known |-> FALSE, ids |-> {}, rest |-> {}])
     /\ linked' = linked \cup {i} /\ registered' = registered \cup {i}
     /\ outbox' = Append(outbox, <<>>)
     /\ attached' = [attached EXCEPT ![p] = i]
     /\ Crosses(AccountOf[p])
     /\ UNCHANGED <<shownOn, dropped>>

\* announce_online after its query: without friends there is nothing to say
FriendsRead(i) ==
  LET friends == Befriended[UserOfConn(i)]
  IN /\ At(i, "greet")
     /\ conns' = [conns EXCEPT ![i] = [@ EXCEPT !.at = IF friends = {} THEN "read" ELSE "list",
                                                !.ids = {f \in friends : IsOnline(f)},
                                                !.rest = friends]]
     /\ UNCHANGED <<linked, registered, outbox, attached, shownOn, doubted, dropped>>

SendList(i) ==
  /\ At(i, "list") /\ StepsTo(i, "tell")
  /\ PushedTo({i} \cap linked, [kind |-> "list", ids |-> conns[i].ids])
  /\ UNCHANGED <<attached, shownOn, doubted>>

\* one friend after the other is told, then the task goes on
Tells(i, kind, next) ==
  \E f \in conns[i].rest :
    /\ conns' = [conns EXCEPT ![i].rest = @ \ {f},
                              ![i].at = IF conns[i].rest = {f} THEN next ELSE @]
    /\ PushedTo(SocketsForUser(f), [kind |-> kind, id |-> UserOfConn(i)])
    /\ UNCHANGED <<attached, shownOn, doubted>>

TellOnline(i) == At(i, "tell") /\ Tells(i, "online", "read")
TellOffline(i) == At(i, "bye") /\ Tells(i, "offline", "gone")

\* the page closes or its network fails; the server need not see it yet
PageCloses(p) ==
  /\ attached[p] # 0
  /\ attached' = [attached EXCEPT ![p] = 0]
  /\ UNCHANGED <<conns, linked, registered, outbox, shownOn, doubted, dropped>>

\* the read loop ends; user_of is read before full_remove
LoopEnds(i) ==
  /\ At(i, "read") /\ attached[conns[i].page] # i
  /\ conns' = [conns EXCEPT ![i] = [@ EXCEPT !.at = "remove", !.known = i \in registered]]
  /\ UNCHANGED <<linked, registered, outbox, attached, shownOn, doubted, dropped>>

\* hub.disconnect; what the writer has not sent is lost
Disconnect(i) ==
  LET u == UserOfConn(i)
  IN /\ At(i, "remove")
     /\ IF i \in registered /\ SocketsForUser(u) = {i} THEN Crosses(u) ELSE UNCHANGED doubted
     /\ StepsTo(i, IF conns[i].known THEN "check" ELSE "gone")
     /\ linked' = linked \ {i} /\ registered' = registered \ {i}
     /\ outbox' = [outbox EXCEPT ![i] = <<>>]
     /\ UNCHANGED <<attached, shownOn, dropped>>

\* announce_offline: nothing to say while another connection of the user is open
Checked(i) ==
  /\ At(i, "check")
  /\ StepsTo(i, IF IsOnline(UserOfConn(i)) THEN "gone" ELSE "part")
  /\ UNCHANGED <<linked, registered, outbox, attached, shownOn, doubted, dropped>>

FriendsReadAgain(i) ==
  LET friends == Befriended[UserOfConn(i)]
  IN /\ At(i, "part")
     /\ conns' = [conns EXCEPT ![i] = [@ EXCEPT !.at = IF friends = {} THEN "gone" ELSE "bye",
                                                !.rest = friends]]
     /\ UNCHANGED <<linked, registered, outbox, attached, shownOn, doubted, dropped>>

faulty_Applied(ids, frame) ==
  CASE frame.kind = "list"    -> frame.ids
    [] frame.kind = "online"  -> ids \ {frame.id}
    [] frame.kind = "offline" -> ids \cup {frame.id}

\* setOnlineFriends, addOnlineFriend, removeOnlineFriend
Applied(ids, frame) ==
  CASE frame.kind = "list"    -> frame.ids
    [] frame.kind = "online"  -> ids \cup {frame.id}
    [] frame.kind = "offline" -> ids \ {frame.id}

\* the writer starts after the greeting; the page takes the frames in order
PageTakes(p) ==
  LET i == attached[p]
  IN /\ i # 0 /\ outbox[i] # <<>> /\ conns[i].at \notin {"greet", "list", "tell"}
     /\ outbox' = [outbox EXCEPT ![i] = Tail(@)]
     /\ shownOn' = [shownOn EXCEPT ![p] = Applied(@, Head(outbox[i]))]
     /\ UNCHANGED <<conns, linked, registered, attached, doubted, dropped>>

PresenceSteps ==
  \/ \E i \in Conn : \/ FriendsRead(i) \/ SendList(i) \/ TellOnline(i) \/ LoopEnds(i)
                     \/ Disconnect(i) \/ Checked(i) \/ FriendsReadAgain(i) \/ TellOffline(i)
  \/ \E p \in Pages : PageTakes(p)

PresenceNext == PresenceSteps \/ \E p \in Pages : Connect(p) \/ PageCloses(p)

-----------------------------------------------------------------------------
PresenceQuiet ==
  /\ \A i \in Conn : conns[i].at = "gone" \/ (conns[i].at = "read" /\ attached[conns[i].page] = i)
  /\ \A p \in Pages : attached[p] # 0 => outbox[attached[p]] = <<>>

(* Once nothing is under way a page that is connected shows exactly the    *)
(* friends that are online, whatever tabs were opened, closed and          *)
(* reconnected in which order.  The exceptions: somebody who came or went  *)
(* while an announcement about that was under way, and somebody one of     *)
(* whose connections the registry forgot for a full outbox, whose          *)
(* departure is never announced (sockets.rs:205, route.rs:142).            *)
PresenceSettles ==
  PresenceQuiet =>
    \A p \in Pages : attached[p] \in registered =>
      \A f \in Befriended[AccountOf[p]] \ (doubted \cup dropped) :
        f \in shownOn[p] <=> IsOnline(f)
=============================================================================
