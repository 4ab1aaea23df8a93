---------------------------- MODULE Matchmaking ----------------------------
(***************************************************************************)
(* The matchmaking server: WebSocket connections whose handlers call the   *)
(* engine (rust/src/ws/handlers.rs and route.rs).                          *)
(*                                                                         *)
(* The engine mutex covers one engine method.  A handler that calls        *)
(* several of them releases it in between, so its remaining calls wait in  *)
(* todo[s] and other connections interleave.  A connection reads its next  *)
(* message only when the handler of the previous one is done.              *)
(***************************************************************************)
EXTENDS Engine, SequencesExt

CONSTANTS
    UserOf,      \* the account a connection is signed in to, or NoUser
    PrefsOf,     \* the preferences its client may send (normalized, and
                 \* forced to the guest set where the connection is a guest)
    MessagesOf,  \* the messages and events of each connection in this instance
    CooldownEnds \* does this instance last as long as a rematch cooldown?

VARIABLES
    conn,        \* "open", "closing" (engine cleaned up) or "closed"
    todo,        \* engine calls the running handler has still to make
    timers       \* invite timers spawned and not finished

vars == <<engine, hub, conn, todo, timers>>

ASSUME UserOfAssumption == UserOf \in [Sockets -> Users \cup {NoUser}]
ASSUME PrefsOfAssumption == PrefsOf \in [Sockets -> SUBSET Preferences]
ASSUME CooldownAssumption == CooldownEnds \in BOOLEAN

\* The engine calls a handler has still to make; `who' is the socket they act
\* on, and the other fields are their arguments.
CallLeave(s, notify)   == [op |-> "leave_room", who |-> s, notify |-> notify]
CallLeaveGroup(s)      == [op |-> "leave_group", who |-> s]
CallJoin(p)            == [op |-> "join_queue", prefs |-> p]
CallSeat(id, p)        == [op |-> "add_participant", room |-> id, prefs |-> p]
CallStart(id)          == [op |-> "start_group", room |-> id]
CallBlock(u, v)        == [op |-> "block_pair", pair |-> {u, v}]
CallPartner(order)     == [op |-> "read_partner", order |-> order]
CallGroup(order, t)    == [op |-> "read_group", order |-> order, partner |-> t]
CallMatch(left, right) == [op |-> "match_users", left |-> left, right |-> right]
CallAnnounce(S)        == [op |-> "announce", told |-> S]

EngineCalls ==
    [op : {"leave_room"}, who : Sockets, notify : BOOLEAN]
    \cup [op : {"leave_group"}, who : Sockets]
    \cup [op : {"join_queue"}, prefs : Preferences]
    \cup [op : {"add_participant"}, room : RoomIds, prefs : Preferences]
    \cup [op : {"start_group"}, room : RoomIds]
    \cup [op : {"block_pair"}, pair : SUBSET Users]
    \cup [op : {"read_partner"}, order : {"report", "block"}]
    \cup [op : {"read_group"}, order : {"report", "block"},
          partner : Sockets \cup {NoSocket}]
    \cup [op : {"match_users"}, left : Seq(Sockets) \ {<< >>},
          right : Seq(Sockets) \ {<< >>}]
    \cup [op : {"announce"}, told : SUBSET Sockets]

TypeOK ==
    /\ engine \in EngineStates
    /\ hub \subseteq Sockets
    /\ conn \in [Sockets -> {"open", "closing", "closed"}]
    /\ todo \in [Sockets -> Seq(EngineCalls)]
    /\ timers \subseteq [socket : Sockets, room : RoomIds,
                         state : {"armed", "expired"}]

Init ==
    /\ engine = EmptyEngine
    /\ hub = Sockets
    /\ conn = [s \in Sockets |-> "open"]
    /\ todo = [s \in Sockets |-> << >>]
    /\ timers = {}

sockets_for_user(u) == {s \in hub : UserOf[s] = u}

-----------------------------------------------------------------------------
(* Client messages.  The first engine call happens on receipt. *)

Receive(s, m) ==
    /\ m \in MessagesOf[s]
    /\ conn[s] = "open" /\ todo[s] = << >>
    /\ UNCHANGED <<hub, conn, timers>>

Then(s, calls) == todo' = [todo EXCEPT ![s] = calls]

\* A step that may allocate a match room.
RoomLeft == engine.room_seq < MaxRooms

\* The 1:1 match join_queue made is announced after the lock is released.
Joined(s, prefs, rest) ==
    /\ RoomLeft
    /\ engine' = join_queue(engine, s, UserOf[s], prefs)
    /\ LET room == engine'.rooms_by_socket[s]
       IN  Then(s, IF room = NoPair THEN rest
                   ELSE <<CallAnnounce({room.a, room.b})>> \o rest)

QueueJoin(s) ==
    /\ Receive(s, "queue:join")
    /\ \E p \in PrefsOf[s] : Joined(s, p, << >>)

RoomNext(s) ==
    /\ Receive(s, "room:next")
    /\ engine' = leave_room(engine, s, TRUE)
    /\ \E p \in PrefsOf[s] : Then(s, <<CallJoin(p)>>)

RoomLeave(s) ==                                     \* and queue:leave
    /\ Receive(s, "room:leave")
    /\ engine' = remove_from_queue(engine, s)
    /\ Then(s, <<CallLeave(s, TRUE)>>)

QueueHeartbeat(s) ==
    /\ Receive(s, "queue:heartbeat")
    /\ RoomLeft
    /\ engine' = heartbeat(engine, s)
    /\ UNCHANGED todo

\* Who a report or block is aimed at: somebody in the caller's own room.
resolve_target_user(s) ==
    LET id      == engine.group_room_of_socket[s]
        partner == IF engine.rooms_by_socket[s] = NoPair THEN {}
                   ELSE {engine.rooms_by_socket[s].a, engine.rooms_by_socket[s].b} \ {s}
        group   == IF id = NoRoom THEN {} ELSE SocketsOf(members(engine, id)) \ {s}
    IN  {UserOf[t] : t \in partner \cup group} \cap Users

Report(s) ==
    /\ Receive(s, "report")
    /\ Then(s, <<CallPartner("report")>>)
    /\ UNCHANGED engine

\* the target may be of nobody in the room: no block is recorded, and the room left all the same
Block(s) ==
    /\ Receive(s, "block")
    /\ \/ Then(s, <<CallPartner("block")>>)
       \/ /\ UserOf[s] # NoUser
          /\ \E u \in resolve_target_user(s) :
                Then(s, <<CallBlock(UserOf[s], u), CallPartner("block")>>)
    /\ UNCHANGED engine

GroupMatchCreate(s) ==
    /\ Receive(s, "group-match:create")
    /\ UserOf[s] # NoUser
    /\ engine.group_room_seq < MaxRooms
    /\ \E p \in PrefsOf[s] :
          engine' = create_group_match_room(engine, s, UserOf[s], p, FALSE)
    /\ UNCHANGED todo

\* The people to invite were looked up before: with nobody to invite no timer
\* is spawned.
CreateAndInvite(s) ==
    /\ "group-match:create-and-invite" \in MessagesOf[s]
    /\ conn[s] = "open" /\ todo[s] = << >>
    /\ UserOf[s] # NoUser
    /\ engine.group_room_seq < MaxRooms
    /\ \E p \in PrefsOf[s] :
          engine' = create_group_match_room(engine, s, UserOf[s], p, TRUE)
    /\ \/ UNCHANGED timers
       \/ timers' = timers \cup
             {[socket |-> s, room |-> engine'.group_room_of_socket[s],
               state |-> "armed"]}
    /\ UNCHANGED <<hub, conn, todo>>

\* The room is read once: its host then leaves its 1:1 room, and the caller
\* takes a seat with the preferences of the room.
GroupMatchJoin(s) ==
    /\ Receive(s, "group-match:join")
    /\ UserOf[s] # NoUser
    /\ \E id \in RoomIds :
          /\ Live(engine, id)
          /\ LET g == engine.group_rooms[id]
             IN  Then(s, <<CallLeave(g.host, TRUE), CallLeave(s, FALSE),
                           CallSeat(id, g.prefs)>>)
    /\ UNCHANGED engine

GroupMatchInviteDecline(s) ==
    /\ Receive(s, "group-match:invite-decline")
    /\ \E id \in RoomIds :
          /\ Live(engine, id)
          /\ LET host == engine.group_rooms[id].host
             IN  /\ engine' = Tell(engine, {host}, "group-match:invite-declined")
                 /\ Then(s, <<CallLeaveGroup(host)>>)

GroupMatchStart(s) ==
    /\ Receive(s, "group-match:start")
    /\ \E id \in RoomIds :
          /\ Live(engine, id)
          /\ s \in SocketsOf(members(engine, id))
          /\ Then(s, <<CallStart(id)>>)
    /\ UNCHANGED engine

GroupMatchLeave(s) ==
    /\ Receive(s, "group-match:leave")
    /\ engine' = remove_from_queue(engine, s)
    /\ Then(s, <<CallLeaveGroup(s)>>)

\* The tabs of both users, in the order they registered, are read before the
\* engine is locked.
InvitationAccept(s) ==
    /\ Receive(s, "invitation:accept")
    /\ \E inviter \in Users \ {UserOf[s]} :
          /\ UserOf[s] # NoUser
          /\ sockets_for_user(inviter) # {} /\ sockets_for_user(UserOf[s]) # {}
          /\ \E left \in SetToSeqs(sockets_for_user(inviter)),
                right \in SetToSeqs(sockets_for_user(UserOf[s])) :
                Then(s, <<CallMatch(left, right)>>)
    /\ UNCHANGED engine

-----------------------------------------------------------------------------
(* The later engine calls of a handler, each under its own lock. *)

Calls(s, op) ==
    /\ todo[s] # << >> /\ Head(todo[s]).op = op
    /\ UNCHANGED <<hub, conn, timers>>

Done(s) == todo' = [todo EXCEPT ![s] = Tail(@)]

LeaveRoomCall(s) ==
    /\ Calls(s, "leave_room")
    /\ engine' = leave_room(engine, Head(todo[s]).who, Head(todo[s]).notify)
    /\ Done(s)

LeaveGroupCall(s) ==
    /\ Calls(s, "leave_group")
    /\ engine' = leave_group(engine, Head(todo[s]).who)
    /\ Done(s)

JoinQueueCall(s) ==
    /\ Calls(s, "join_queue")
    /\ Joined(s, Head(todo[s]).prefs, Tail(todo[s]))

AddParticipantCall(s) ==
    /\ Calls(s, "add_participant")
    /\ RoomLeft
    /\ engine' = add_participant_to_group(engine, Head(todo[s]).room, s,
                                          UserOf[s], Head(todo[s]).prefs)
    /\ Done(s)

StartGroupCall(s) ==
    /\ Calls(s, "start_group")
    /\ RoomLeft
    /\ engine' = start_group_match(engine, Head(todo[s]).room)
    /\ Done(s)

BlockPairCall(s) ==
    /\ Calls(s, "block_pair")
    /\ engine' = [engine EXCEPT !.blocked_pairs =
                     @ \cup {Head(todo[s]).pair}]
    /\ Done(s)

ReadPartnerCall(s) ==
    /\ Calls(s, "read_partner")
    /\ Then(s, <<CallGroup(Head(todo[s]).order, engine.partners[s])>>)
    /\ UNCHANGED engine

\* Faulty: does not ask whether there was a partner (tests TypeOK).
faulty_LeaveRead(t) == <<CallLeave(t, FALSE)>>

\* The partner that was read, if any, has to leave whatever room it is in.
LeaveRead(t) == IF t = NoSocket THEN << >> ELSE <<CallLeave(t, FALSE)>>

\* report leaves the 1:1 room first and the group after it, block the other way
\* round; both end by making the partner they read leave its room.
ReadGroupCall(s) ==
    /\ Calls(s, "read_group")
    /\ LET group   == IF engine.group_room_of_socket[s] = NoRoom THEN << >>
                      ELSE <<CallLeaveGroup(s)>>
           leave   == <<CallLeave(s, TRUE)>>
       IN  Then(s, (IF Head(todo[s]).order = "report" THEN leave \o group
                    ELSE group \o leave)
                       \o LeaveRead(Head(todo[s]).partner))
    /\ UNCHANGED engine

\* One tab of each side is paired, the frame goes to all of them.
MatchUsersCall(s) ==
    /\ Calls(s, "match_users")
    /\ RoomLeft
    /\ LET left  == Head(todo[s]).left
           right == Head(todo[s]).right
       IN  /\ engine' = match_users(engine, left, right)
           /\ Then(s, <<CallAnnounce(Range(left \o right))>>)

AnnounceCall(s) ==
    /\ Calls(s, "announce")
    /\ engine' = Tell(engine, Head(todo[s]).told, "room:matched")
    /\ Done(s)

-----------------------------------------------------------------------------
(* Timers, connections, time. *)

\* 30 s after an invite: too few members in that room?
InviteTimeout(t) ==
    /\ t \in timers /\ t.state = "armed"
    /\ \/ /\ Live(engine, t.room) /\ Cardinality(members(engine, t.room)) >= 2
          /\ timers' = timers \ {t}
          /\ UNCHANGED engine
       \/ /\ ~(Live(engine, t.room) /\ Cardinality(members(engine, t.room)) >= 2)
          /\ timers' = (timers \ {t}) \cup {[t EXCEPT !.state = "expired"]}
          /\ engine' = Tell(engine, {t.socket}, "group-match:invite-declined")
    /\ UNCHANGED <<hub, conn, todo>>

InviteExpired(t) ==
    /\ t \in timers /\ t.state = "expired"
    /\ timers' = timers \ {t}
    /\ engine' = leave_group(engine, t.socket)
    /\ UNCHANGED <<hub, conn, todo>>

\* A full outbox: the hub forgets the socket, the engine is not told.
SlowConsumer(s) ==
    /\ "slow" \in MessagesOf[s]
    /\ s \in hub /\ conn[s] = "open"
    /\ hub' = hub \ {s}
    /\ UNCHANGED <<engine, conn, todo, timers>>

\* The read loop ends: engine first, registry second.
Teardown(s) ==
    /\ "close" \in MessagesOf[s]
    /\ conn[s] = "open" /\ todo[s] = << >>
    /\ engine' = full_remove(engine, s)
    /\ conn' = [conn EXCEPT ![s] = "closing"]
    /\ UNCHANGED <<hub, todo, timers>>

Forget(s) ==
    /\ conn[s] = "closing"
    /\ hub' = hub \ {s}
    /\ conn' = [conn EXCEPT ![s] = "closed"]
    /\ UNCHANGED <<engine, todo, timers>>

\* The rematch cooldown of one remembered pair runs out.
PairForgotten ==
    /\ CooldownEnds
    /\ \E key \in engine.recent_pairs :
          engine' = [engine EXCEPT !.recent_pairs = @ \ {key}]
    /\ UNCHANGED <<hub, conn, todo, timers>>

ClientMessage(s) ==
    \/ QueueJoin(s) \/ RoomNext(s) \/ RoomLeave(s) \/ QueueHeartbeat(s)
    \/ Report(s) \/ Block(s)
    \/ GroupMatchCreate(s) \/ CreateAndInvite(s) \/ GroupMatchJoin(s)
    \/ GroupMatchInviteDecline(s) \/ GroupMatchStart(s) \/ GroupMatchLeave(s)
    \/ InvitationAccept(s)

HandlerCall(s) ==
    \/ LeaveRoomCall(s) \/ LeaveGroupCall(s) \/ JoinQueueCall(s)
    \/ AddParticipantCall(s) \/ StartGroupCall(s) \/ BlockPairCall(s)
    \/ ReadPartnerCall(s) \/ ReadGroupCall(s) \/ MatchUsersCall(s) \/ AnnounceCall(s)

Next ==
    \/ \E s \in Sockets :
          \/ ClientMessage(s) \/ HandlerCall(s)
          \/ SlowConsumer(s) \/ Teardown(s) \/ Forget(s)
    \/ \E t \in timers : InviteTimeout(t) \/ InviteExpired(t)
    \/ PairForgotten

Spec == Init /\ [][Next]_vars
=============================================================================
