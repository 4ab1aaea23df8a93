---------------------------- MODULE MatchSession ----------------------------
(***************************************************************************)
(* useMatchSession on top of MatchSocket, with the seat the server gives   *)
(* the tab's socket: what the page believes (finding, matched, in a group) *)
(* against what the server holds, while their messages cross, timers fire  *)
(* and sockets come and go.  The refs of the hook are rewritten at every   *)
(* render, before the next event: a state and its ref are one variable.    *)
(***************************************************************************)
EXTENDS MatchSocket

CONSTANTS MaxClicks,  \* what the user does
          MaxPushes   \* what the server does on its own

ASSUME SessionBounds == MaxClicks \in Nat /\ MaxPushes \in Nat

VARIABLES
  finding, matched,  \* the search screen and the call screen
  inGroup,           \* groupRoomId is set
  tiles,             \* groupPeers: "none", "local" (our side only), "both" sides
  accepting,         \* acceptingSignalsRef
  live,              \* a peer connection is open
  coming,            \* onMatched or onGroupMatchMatched is awaiting, per kind
  beginning,         \* beginMatch or beginGroupMatch awaits ensureStream: its message
  requeue,           \* the timer onPeerLeft sets
  redo,              \* the timer onDraining sets
  invite,            \* pendingGroupInvite: a room, 0 for none
  decline,           \* groupInviteTimeoutRef: the room its timer declines, 0 for none
  inviting,          \* isInvitingToGroupRef
  seat,              \* per socket, the server's: "idle", "queued", "room"
  lobby,             \* per socket, the server's: "none", "lobby", "match"
  clicks, pushes,
  forgotten,         \* a connection went with its seat or its join (history)
  astray             \* a message put or left the page in a search nobody asked for (history)

pageVars == <<finding, matched, inGroup, tiles, accepting, live, coming, beginning,
              requeue, redo, invite, decline, inviting>>
serverVars == <<seat, lobby>>
countVars == <<clicks, pushes, forgotten, astray>>
sessionVars == <<socketVars, pageVars, serverVars, countVars>>

Beginning == {"none", "join", "create"}
InviteRoom == {1, 2}

SessionTypeOK ==
  /\ SocketTypeOK
  /\ {finding, matched, inGroup, accepting, live, requeue, redo, inviting} \subseteq BOOLEAN
  /\ tiles \in {"none", "local", "both"}
  /\ coming \subseteq {"solo", "mesh"}
  /\ beginning \in Beginning
  /\ invite \in InviteRoom \cup {0} /\ decline \in InviteRoom \cup {0}
  /\ seat \in [Socket -> {"idle", "queued", "room"}]
  /\ lobby \in [Socket -> {"none", "lobby", "match"}]
  /\ clicks \in 0 .. MaxClicks /\ pushes \in 0 .. MaxPushes
  /\ forgotten \in BOOLEAN /\ astray \in BOOLEAN

SessionInit ==
  /\ SocketInit
  /\ finding = FALSE /\ matched = FALSE /\ inGroup = FALSE /\ tiles = "none"
  /\ accepting = FALSE /\ live = FALSE /\ coming = {} /\ beginning = "none"
  /\ requeue = FALSE /\ redo = FALSE /\ invite = 0 /\ decline = 0 /\ inviting = FALSE
  /\ seat = [c \in Socket |-> "idle"]
  /\ lobby = [c \in Socket |-> "none"]
  /\ clicks = 0 /\ pushes = 0 /\ forgotten = FALSE /\ astray = FALSE

(***************************************************************************)
(* The server's side of a socket, from ws/handlers.rs and the engine       *)
(***************************************************************************)
Push(c, ms) == down' = [down EXCEPT ![c] = @ \o ms]
Seated(c, s, l) == seat' = [seat EXCEPT ![c] = s] /\ lobby' = [lobby EXCEPT ![c] = l]

\* a message of the client; a request may be turned down with an error.  The
\* members of a lobby of two are matched with each other at once.
ServerHandles(c) ==
  LET m == Head(up[c]) IN
  /\ up[c] # <<>>
  /\ up' = [up EXCEPT ![c] = Tail(@)]
  /\ \/ m \in {"auth", "decline"} /\ UNCHANGED <<serverVars, down>>
     \/ m = "leave" /\ Seated(c, "idle", lobby[c]) /\ UNCHANGED down
     \/ m = "gleave" /\ Seated(c, seat[c], "none") /\ UNCHANGED down
     \/ m \in {"join", "next", "create", "invite", "gjoin"}
        /\ Push(c, <<"error">>) /\ UNCHANGED serverVars
     \/ m \in {"join", "next"} /\ Seated(c, "queued", "none") /\ Push(c, <<"waiting">>)
     \/ m \in {"join", "next"} /\ Seated(c, "room", "none") /\ Push(c, <<"matched">>)
     \/ m = "create" /\ Seated(c, "idle", "lobby") /\ Push(c, <<"created">>)
     \/ m = "invite" /\ Seated(c, seat[c], "lobby") /\ Push(c, <<"created">>)
     \/ m = "gjoin" /\ Seated(c, "idle", "match")
        /\ Push(c, <<"created", "waiting", "group-local">>)
     \/ m = "start" /\ lobby[c] = "none" /\ Push(c, <<"error">>) /\ UNCHANGED serverVars
     \/ m = "start" /\ lobby[c] # "none" /\ Push(c, <<"waiting">>) /\ UNCHANGED serverVars
  /\ UNCHANGED <<phase, cur, heart, reconnect, listeners, identity, upgrade, seen, unsent,
                 pageVars, countVars>>

\* a stranger is matched with us, a guest joins our lobby, an opponent is found
ServerMatches(c) ==
  /\ \/ seat[c] = "queued" /\ Seated(c, "room", lobby[c]) /\ Push(c, <<"matched">>)
     \/ lobby[c] = "lobby" /\ Seated(c, "idle", "match")
        /\ Push(c, <<"joined", "waiting", "group-local">>)
     \/ lobby[c] = "match" /\ Push(c, <<"group-both">>) /\ UNCHANGED serverVars

\* the others leave
ServerParts(c) ==
  \/ /\ seat[c] = "room" /\ Seated(c, "idle", lobby[c])
     /\ \E r \in {"left", "left-blocked", "left-invited"} : Push(c, <<r>>)
  \/ /\ lobby[c] = "match" /\ Seated(c, seat[c], "none") /\ Push(c, <<"last-gone", "left">>)
  \/ /\ lobby[c] = "lobby" /\ Seated(c, seat[c], "none") /\ Push(c, <<"invite-declined">>)

ServerNotes(c) ==
  /\ \E m \in {"error", "draining", "invited1", "invited2"} : Push(c, <<m>>)
  /\ UNCHANGED serverVars

ServerPush ==
  /\ pushes < MaxPushes /\ pushes' = pushes + 1
  /\ \E c \in Socket :
       Open(c) /\ (ServerMatches(c) \/ ServerParts(c) \/ ServerNotes(c))
  /\ UNCHANGED <<phase, cur, heart, reconnect, listeners, up, identity, upgrade, seen, unsent,
                 pageVars, clicks, forgotten, astray>>

(***************************************************************************)
(* Connections come and go under the page                                  *)
(***************************************************************************)
\* the server tears the socket's seat down with it
SeatGone(c) ==
  /\ seat' = [seat EXCEPT ![c] = "idle"]
  /\ lobby' = [lobby EXCEPT ![c] = "none"]
  /\ forgotten' = (\/ forgotten \/ seat[c] # "idle" \/ lobby[c] # "none"
                   \/ up[c] # <<>> \/ down[c] # <<>> \/ listeners[c] # <<>>)

Connects ==
  /\ \E c \in Socket : OnOpen(c)
  /\ UNCHANGED <<pageVars, serverVars, countVars>>

ConnectionLost ==
  /\ \E c \in Socket : OnClose(c) /\ SeatGone(c)
  /\ UNCHANGED <<pageVars, clicks, pushes, astray>>

Reconnects == Reconnect /\ UNCHANGED <<pageVars, serverVars, countVars>>

SignsInOrOut ==
  /\ clicks < MaxClicks /\ clicks' = clicks + 1
  /\ SwitchIdentity
  /\ UNCHANGED <<pageVars, serverVars, pushes, forgotten, astray>>

AuthEffect ==
  /\ ReconnectForAuthChange
  /\ IF cur # 0 THEN SeatGone(cur) ELSE UNCHANGED <<serverVars, forgotten>>
  /\ UNCHANGED <<pageVars, clicks, pushes, astray>>

(***************************************************************************)
(* What the server says                                                    *)
(***************************************************************************)
Taking(m) ==
  /\ Open(cur) /\ down[cur] # <<>> /\ Head(down[cur]) = m
  /\ down' = [down EXCEPT ![cur] = Tail(@)]
  /\ UNCHANGED <<phase, cur, heart, reconnect, listeners, identity, upgrade, seen,
                 serverVars, clicks, pushes, forgotten>>

Quiet == UNCHANGED <<up, unsent, astray>>

\* clearPeerUi and webrtc.clear()
PeerUiCleared ==
  matched' = FALSE /\ tiles' = "none" /\ accepting' = FALSE /\ live' = FALSE

GroupSearching == matched /\ tiles = "local"

\* the server has no place for the socket, or loses it when our leave arrives
PlaceGone(c) == \/ seat[c] = "idle" /\ lobby[c] = "none"
                \/ \E m \in {"leave", "gleave"} : m \in ToSet(up[c])

\* queue:waiting: a group that stands keeps its call, a 1:1 call ignores it,
\* anything else becomes a search
faulty_OnWaiting ==
  /\ Taking("waiting")
  /\ finding' = TRUE /\ PeerUiCleared
  /\ astray' = (astray \/ ~finding)
  /\ UNCHANGED <<up, unsent, inGroup, coming, beginning, requeue, redo, invite, decline, inviting>>

OnWaiting ==
  /\ Taking("waiting")
  /\ \/ /\ matched /\ tiles # "none"
        /\ finding' = TRUE
        /\ astray' = (astray \/ (~finding /\ PlaceGone(cur)))
        /\ UNCHANGED <<matched, tiles, accepting, live>>
     \/ /\ matched /\ tiles = "none" /\ ~inGroup
        /\ UNCHANGED <<finding, matched, tiles, accepting, live, astray>>
     \/ /\ ~matched \/ (tiles = "none" /\ inGroup)
        /\ finding' = TRUE /\ PeerUiCleared
        /\ astray' = (astray \/ ~finding)
  /\ UNCHANGED <<up, unsent, inGroup, coming, beginning, requeue, redo, invite, decline, inviting>>

\* room:matched: refused when the page is not searching
OnRoomMatched ==
  /\ Taking("matched")
  /\ \/ /\ ~finding
        /\ up' = Sent(<<"leave">>)
        /\ UNCHANGED <<unsent, finding, matched, accepting, coming>>
     \/ /\ finding
        /\ finding' = FALSE /\ matched' = TRUE /\ accepting' = TRUE
        /\ coming' = coming \cup {"solo"}
        /\ UNCHANGED <<up, unsent>>
  /\ UNCHANGED <<astray, inGroup, tiles, live, beginning, requeue, redo, invite,
                 decline, inviting>>

\* group-match:matched: also taken by a group that is matched already
OnGroupMatchMatched ==
  \E t \in {"local", "both"} :
    /\ Taking(IF t = "local" THEN "group-local" ELSE "group-both")
    /\ \/ /\ ~finding /\ ~(matched /\ inGroup)
          /\ up' = Sent(<<"leave">>)
          /\ UNCHANGED <<finding, matched, inGroup, tiles, accepting, coming>>
       \/ /\ finding \/ (matched /\ inGroup)
          /\ finding' = FALSE /\ matched' = TRUE /\ inGroup' = TRUE /\ tiles' = t
          /\ accepting' = TRUE /\ coming' = coming \cup {"mesh"}
          /\ UNCHANGED up
    /\ UNCHANGED <<unsent, astray, live, beginning, requeue, redo, invite, decline, inviting>>

\* the awaits of either are over: createPeer or createMeshPeers, whatever the
\* page shows by now; or there was no stream
MatchComes ==
  /\ \E k \in coming : coming' = coming \ {k}
  /\ live' \in {TRUE, live}
  /\ UNCHANGED <<socketVars, serverVars, countVars, finding, matched, inGroup, tiles,
                 accepting, beginning, requeue, redo, invite, decline, inviting>>

\* room:peer-left
OnRoomPeerLeft ==
  \E r \in {"left", "left-blocked", "left-invited"} :
    /\ Taking(r)
    /\ PeerUiCleared
    /\ \/ r = "left-blocked" /\ finding' = FALSE /\ UNCHANGED <<inGroup, requeue>>
       \/ r # "left-blocked" /\ inviting /\ UNCHANGED <<finding, inGroup, requeue>>
       \/ r = "left-invited" /\ ~inviting /\ finding' = TRUE /\ UNCHANGED <<inGroup, requeue>>
       \/ /\ r = "left" /\ ~inviting
          /\ finding' = TRUE /\ inGroup' = FALSE /\ requeue' = TRUE
    /\ astray' = (\/ astray
                  \/ r = "left-invited" /\ ~inviting
                  \/ r # "left-blocked" /\ inviting /\ finding)
    /\ UNCHANGED <<up, unsent, coming, beginning, redo, invite, decline, inviting>>

\* requeueDelay later, whatever the user did meanwhile
Requeue ==
  /\ requeue /\ requeue' = FALSE
  /\ IF inGroup THEN JustSend(<<"start">>, TRUE) ELSE EnsureAndSend("next")
  /\ UNCHANGED <<serverVars, countVars, finding, matched, inGroup, tiles, accepting, live,
                 coming, beginning, redo, invite, decline, inviting>>

\* error: any rejection ends the search on the page
OnError ==
  /\ Taking("error")
  /\ finding' = FALSE
  /\ Quiet
  /\ UNCHANGED <<matched, inGroup, tiles, accepting, live, coming, beginning, requeue, redo,
                 invite, decline, inviting>>

\* server:draining: try again in ten seconds if it was searching or matched
OnDraining ==
  /\ Taking("draining")
  /\ live' = FALSE /\ finding' = FALSE /\ matched' = FALSE
  /\ redo' = (redo \/ finding \/ matched)
  /\ Quiet
  /\ UNCHANGED <<inGroup, tiles, accepting, coming, beginning, requeue, invite, decline, inviting>>

OnGroupMatchCreated ==
  /\ Taking("created")
  /\ inGroup' = TRUE /\ matched' = FALSE /\ finding' = TRUE
  /\ astray' = (astray \/ ~finding)
  /\ UNCHANGED <<up, unsent>>
  /\ UNCHANGED <<tiles, accepting, live, coming, beginning, requeue, redo, invite, decline, inviting>>

OnParticipantJoined ==
  /\ Taking("joined")
  /\ inviting' = FALSE
  /\ up' = IF inGroup THEN Sent(<<"start">>) ELSE up
  /\ UNCHANGED <<unsent, astray, finding, matched, inGroup, tiles, accepting, live, coming,
                 beginning, requeue, redo, invite, decline>>

\* stop(): both leaves are sent and everything is cleared, timers excepted
Stopped ==
  /\ PeerUiCleared
  /\ finding' = FALSE /\ inGroup' = FALSE /\ inviting' = FALSE

\* the last member of a live group is gone: the page stops
OnParticipantLeft ==
  /\ Taking("last-gone")
  /\ IF matched
     THEN Stopped /\ up' = Sent(<<"leave", "gleave">>)
     ELSE UNCHANGED <<up, matched, tiles, accepting, live, finding, inGroup, inviting>>
  /\ UNCHANGED <<unsent, astray, coming, beginning, requeue, redo, invite, decline>>

\* group-match:invite-received: a second invitation takes the place of the first,
\* its timer that of the first timer
OnInviteReceived ==
  \E r \in InviteRoom :
    /\ Taking(IF r = 1 THEN "invited1" ELSE "invited2")
    /\ invite' = r /\ decline' = r
    /\ Quiet
    /\ UNCHANGED <<finding, matched, inGroup, tiles, accepting, live, coming, beginning,
                   requeue, redo, inviting>>

\* the server took the host out of its group; the page goes on showing the search
OnInviteDeclined ==
  /\ Taking("invite-declined")
  /\ inviting' = FALSE
  /\ astray' = (astray \/ finding)
  /\ UNCHANGED <<up, unsent>>
  /\ UNCHANGED <<finding, matched, inGroup, tiles, accepting, live, coming, beginning,
                 requeue, redo, invite, decline>>

Messages ==
  \/ OnWaiting \/ OnRoomMatched \/ OnGroupMatchMatched \/ OnRoomPeerLeft \/ OnError
  \/ OnDraining \/ OnGroupMatchCreated \/ OnParticipantJoined \/ OnParticipantLeft
  \/ OnInviteReceived \/ OnInviteDeclined

(***************************************************************************)
(* Timers                                                                  *)
(***************************************************************************)
\* thirty seconds without an answer: declined
DeclineTimeout ==
  /\ decline # 0
  /\ JustSend(<<"decline">>, FALSE)
  /\ decline' = 0 /\ invite' = 0
  /\ UNCHANGED <<serverVars, countVars, finding, matched, inGroup, tiles, accepting, live,
                 coming, beginning, requeue, redo, inviting>>

\* the reset of isInvitingToGroup, which no later invitation cancels
InvitingTimeout ==
  /\ inviting /\ inviting' = FALSE
  /\ UNCHANGED <<socketVars, serverVars, countVars, finding, matched, inGroup, tiles, accepting,
                 live, coming, beginning, requeue, redo, invite, decline>>

\* ten seconds after server:draining: beginMatch
Redo ==
  /\ redo /\ redo' = FALSE
  /\ beginning' = "join"
  /\ UNCHANGED <<socketVars, serverVars, countVars, finding, matched, inGroup, tiles, accepting,
                 live, coming, requeue, invite, decline, inviting>>

(***************************************************************************)
(* What the user does                                                      *)
(***************************************************************************)
Click == clicks < MaxClicks /\ clicks' = clicks + 1 /\ UNCHANGED <<serverVars, pushes, forgotten, astray>>

Begin ==
  /\ Click /\ ~finding /\ ~matched /\ beginning = "none"
  /\ beginning' \in {"join", "create"}
  /\ UNCHANGED <<socketVars, finding, matched, inGroup, tiles, accepting, live, coming,
                 requeue, redo, invite, decline, inviting>>

\* ensureStream resolves: the search begins, whatever the page shows by now
Begun ==
  /\ beginning # "none" /\ beginning' = "none"
  /\ finding' = TRUE
  /\ matched' = (matched /\ beginning = "create")
  /\ IF beginning = "join" THEN JoinSocket ELSE EnsureAndSend("create")
  /\ UNCHANGED <<serverVars, countVars, inGroup, tiles, accepting, live, coming, requeue,
                 redo, invite, decline, inviting>>

BeginFails ==
  /\ beginning # "none" /\ beginning' = "none"
  /\ finding' = FALSE
  /\ UNCHANGED <<socketVars, serverVars, countVars, matched, inGroup, tiles, accepting, live,
                 coming, requeue, redo, invite, decline, inviting>>

\* next(): nothing while a group searches
NextPeer ==
  /\ Click /\ (finding \/ matched) /\ ~GroupSearching
  /\ live' = FALSE /\ matched' = FALSE /\ finding' = TRUE
  /\ IF inGroup THEN JustSend(<<"start">>, TRUE) ELSE EnsureAndSend("next")
  /\ UNCHANGED <<inGroup, tiles, accepting, coming, beginning, requeue, redo, invite,
                 decline, inviting>>

Stop ==
  /\ Click /\ (finding \/ matched)
  /\ Stopped
  /\ JustSend(<<"leave", "gleave">>, FALSE)
  /\ UNCHANGED <<coming, beginning, requeue, redo, invite, decline>>

InvitePeerToGroup ==
  /\ Click /\ matched /\ ~inGroup
  /\ inviting' = TRUE
  /\ EnsureAndSend("invite")
  /\ UNCHANGED <<finding, matched, inGroup, tiles, accepting, live, coming, beginning, requeue,
                 redo, invite, decline>>

AcceptGroupInvite ==
  /\ Click /\ invite # 0
  /\ PeerUiCleared
  /\ invite' = 0 /\ decline' = 0 /\ finding' = TRUE
  /\ EnsureSocket
  /\ up' = Sent(<<"leave", "gjoin">>)
  /\ unsent' = (unsent \/ ~Open(cur))
  /\ UNCHANGED <<heart, reconnect, listeners, down, identity, seen,
                 inGroup, coming, beginning, requeue, redo, inviting>>

DeclineGroupInvite ==
  /\ Click /\ invite # 0
  /\ invite' = 0 /\ decline' = 0
  /\ JustSend(<<"decline">>, FALSE)
  /\ UNCHANGED <<finding, matched, inGroup, tiles, accepting, live, coming, beginning, requeue,
                 redo, inviting>>

User == \/ Begin \/ NextPeer \/ Stop \/ InvitePeerToGroup \/ AcceptGroupInvite \/ DeclineGroupInvite
Page == Messages \/ MatchComes \/ Requeue \/ DeclineTimeout \/ InvitingTimeout \/ Redo
        \/ Begun \/ BeginFails
Network == Connects \/ Reconnects \/ AuthEffect \/ \E c \in Socket : ServerHandles(c)

SessionNext == User \/ Page \/ Network \/ ServerPush \/ ConnectionLost \/ SignsInOrOut

\* messages, promises, timers and reconnects go on; users and strangers need not
SessionFairness == WF_sessionVars(Page) /\ WF_sessionVars(Network)
SessionSpec == SessionInit /\ [][SessionNext]_sessionVars /\ SessionFairness

(***************************************************************************)
(* Properties                                                              *)
(***************************************************************************)
\* The timer that declines an invitation is the one of the invitation shown: no
\* invitation is declined behind the user's back after a second one arrived or
\* after it was accepted, and none stays without its timer.
DeclineTimerMatchesInvite == decline = invite

\* A group that stands and searches keeps its call: neither a queue:waiting nor
\* next(), which would ask the server for a match it is already looking for,
\* closes its connections (useMatchSession.ts:177 and 649).
Consumed(m) == Open(cur) /\ down[cur] # <<>> /\ Head(down[cur]) = m /\ down'[cur] = Tail(down[cur])
Requested(m) == Open(cur) /\ up'[cur] = Append(up[cur], m)

SearchingGroupKeepsCall ==
  [][GroupSearching /\ live /\ ~live' => ~Consumed("waiting") /\ ~Requested("start")]_sessionVars

Settled ==
  /\ Open(cur) /\ up[cur] = <<>> /\ down[cur] = <<>>
  /\ ~requeue /\ ~redo /\ beginning = "none"

\* When everything has arrived, a page that shows a search stands in a queue or
\* a group of the server.  The exceptions are the ways the code can lose it: the
\* socket went with the seat or the join, a request was dropped for want of an
\* open socket, a late queue:waiting revived a search, or the search was left to
\* an invitation (useMatchSession.ts:177, 267).
SearchIsReal ==
  Settled /\ finding /\ ~matched
    => \/ seat[cur] \in {"queued", "room"} \/ lobby[cur] # "none"
       \/ forgotten \/ unsent \/ astray

\* The answer to a search the user has stopped: a room that is announced to a page
\* that is not searching any more is left again, unless another search begins.
StrayRoomLeft ==
  (/\ ~finding /\ ~matched
   /\ \E c \in Socket : seat[c] = "room" /\ "matched" \in ToSet(down[c]))
    ~> (finding \/ matched \/ \A c \in Socket : seat[c] # "room")
=============================================================================
