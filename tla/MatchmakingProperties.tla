------------------------ MODULE MatchmakingProperties ------------------------
(***************************************************************************)
(* What the matchmaking server promises.  Properties about 1:1 matches     *)
(* come first, then group rooms, then timers.  Each run of MCMatchmaking   *)
(* says which messages it includes.                                        *)
(***************************************************************************)
EXTENDS Matchmaking

partner(s)  == engine.partners[s]
pair(s)     == engine.rooms_by_socket[s]
room_of(s)  == engine.group_room_of_socket[s]
Waiting(s)  == s \in SocketsOf(engine.waiting_peers)

\* Some step of the connection s itself: a message, a later call of its
\* handler, or its teardown.
OwnStep(s) == ClientMessage(s) \/ HandlerCall(s) \/ Teardown(s)

-----------------------------------------------------------------------------
(* One-to-one matches. *)

\* `partners' and `rooms_by_socket' describe one symmetric pairing: they are
\* separate maps that join_queue fills and leave_room empties key by key.
PartnersAgree ==
    \A s \in Sockets :
        IF partner(s) = NoSocket THEN pair(s) = NoPair
        ELSE /\ partner(partner(s)) = s
             /\ pair(s) # NoPair /\ {pair(s).a, pair(s).b} = {s, partner(s)}
             /\ pair(partner(s)) = pair(s)

\* Nobody waits twice, and nobody waits while in a 1:1 match or a group room:
\* "two joins claim the same peer" would show here.
WaitingIsIdle ==
    /\ \A p, q \in engine.waiting_peers : p.socket = q.socket => p = q
    /\ \A s \in Sockets : Waiting(s) => partner(s) = NoSocket /\ room_of(s) = NoRoom

\* After full_remove nothing in the engine refers to the connection again,
\* although other handlers are still running and the hub still lists it.
NoTrace ==
    \A s \in Sockets : conn[s] # "open" =>
        /\ ~Waiting(s) /\ s \notin engine.peer_meta
        /\ partner(s) = NoSocket /\ pair(s) = NoPair
        /\ \A t \in Sockets : partner(t) # s
        /\ room_of(s) = NoRoom
        /\ \A id \in RoomIds : Live(engine, id) => s \notin SocketsOf(members(engine, id))

\* Of two waiting peers the later one searched while the earlier one waited,
\* and nothing but the end of a rematch cooldown can make them compatible.
NoMissedMatch ==
    \A a, b \in engine.waiting_peers :
        /\ a.at < b.at /\ "group" \notin {a.prefs.scope, b.prefs.scope}
        /\ b.prefs.allow_same \/ ~CooldownEnds
        => ~may_meet(engine, b, a)

\* A join never pairs two accounts one of which blocked the other, and a block
\* given in the middle of a match ends it: as long as the two are still paired,
\* one of them is inside the handler that is about to take it out.
BlockedApart ==
    \A s \in Sockets :
        LET t == partner(s)
            Leaving(x) == \E i \in DOMAIN todo[x] :
                todo[x][i].op \in {"read_partner", "read_group", "leave_room"}
        IN  t # NoSocket /\ {UserOf[s], UserOf[t]} \in engine.blocked_pairs
            => Leaving(s) \/ Leaving(t)

\* One-to-one matching as its users see it: no step of a handler, timer or
\* teardown makes more than one match, ends more than one, or ends half of one,
\* and nobody is matched after its connection was removed.
OneToOne == INSTANCE Pairing WITH
    partners <- engine.partners,
    waiting  <- SocketsOf(engine.waiting_peers),
    gone     <- {s \in Sockets : conn[s] # "open"}

PairingKept == OneToOne!Spec

\* A 1:1 match never ends behind the back of both: whoever ends it, the other
\* side gets room:peer-left, unless a side has already lost its connection.
MatchEndsAloud ==
    [][\A s, t \in hub : partner(s) = t /\ partner(s)' # t
          => "room:peer-left" \in {engine'.told[s], engine'.told[t]}]_vars

-----------------------------------------------------------------------------
(* Group rooms. *)

\* Whoever is mapped to a room has a seat in it, so a room that is gone left
\* no mapping behind, through merges, takeovers of seats and releases.
MappingSound ==
    \A s \in Sockets : room_of(s) # NoRoom =>
        /\ Live(engine, room_of(s))
        /\ s \in SocketsOf(members(engine, room_of(s)))

\* The flag in_queue and the list waiting_groups agree for every room, and no
\* live room is listed twice: try_match_group would merge it with itself.
QueueSound ==
    /\ \A id \in RoomIds :
          Live(engine, id) => (engine.group_rooms[id].in_queue <=> id \in Queued(engine))
    /\ \A v, w \in engine.waiting_groups :
          Live(engine, v.id) /\ v.id = w.id => v = w

\* No room survives its last member, and no socket has two seats in a room.
NoEmptyRoom ==
    \A id \in RoomIds : Live(engine, id) =>
        /\ members(engine, id) # {}
        /\ \A p, q \in members(engine, id) : p.socket = q.socket => p = q

\* "One person left is not a match": while no outbox overflows, a live match
\* keeps at least two seats.
MatchHasTwo ==
    \A id \in RoomIds : Live(engine, id) /\ engine.group_rooms[id].matched
        => Cardinality(members(engine, id)) >= 2

\* Two people who were not in one room before are put into one live match only
\* if neither blocked the other and their pools and preferences agree; the
\* lobby a person joins by invitation is the one exception.
Together(s, t) ==
    \E id \in RoomIds :
        Live(engine, id) /\ {s, t} \subseteq SocketsOf(members(engine, id))

Invited(s, t) ==
    /\ todo[s] # << >> /\ Head(todo[s]).op = "add_participant"
    /\ Live(engine, Head(todo[s]).room)
    /\ t \in SocketsOf(members(engine, Head(todo[s]).room))

StrangersCompatible ==
    [][\A id \in RoomIds :
          Live(engine, id)' /\ engine'.group_rooms[id].matched =>
          \A p, q \in engine'.group_rooms[id].participants :
             \/ p.socket = q.socket \/ Together(p.socket, q.socket)
             \/ Invited(p.socket, q.socket) \/ Invited(q.socket, p.socket)
             \/ /\ {p.user, q.user} \notin engine.blocked_pairs
                /\ pool_ok(p, q)
                /\ preferences_compatible(p.prefs, q.prefs)]_vars

\* Nobody loses a group room in silence: who did not leave on its own, by a
\* message or by the timer of an invite it sent, is told.
ReleasedAreTold ==
    [][\A s \in hub : room_of(s) # NoRoom /\ room_of(s)' = NoRoom
          => \/ OwnStep(s)
             \/ \E t \in timers : t.socket = s /\ InviteExpired(t)
             \/ engine'.told[s] = "room:peer-left"]_vars

-----------------------------------------------------------------------------
(* Searching.  A client sends queue:heartbeat on a timer for as long as it is *)
(* connected, and a handler that started runs to its end.                     *)

\* The next heartbeat of s would change the engine.
HeartbeatDue(s) ==
    /\ "queue:heartbeat" \in MessagesOf[s] /\ conn[s] = "open"
    /\ RoomLeft /\ heartbeat(engine, s) # engine

\* ENABLED HandlerCall(s), spelled out: TLC evaluates ENABLED without sharing
\* the values of nested definitions.
CallDue(s) ==
    /\ todo[s] # << >>
    /\ Head(todo[s]).op \in {"join_queue", "add_participant", "start_group", "match_users"}
           => RoomLeft

\* Frames are read in the order of their arrival, so a heartbeat that stays due
\* is read although the client sends other messages in between; that is more
\* than weak fairness of QueueHeartbeat, which each of those messages disables,
\* and less than strong fairness.
FairSpec ==
    /\ Spec
    /\ \A s \in Sockets :
          /\ []<>~HeartbeatDue(s) \/ []<><<QueueHeartbeat(s)>>_vars
          /\ []<>~CallDue(s) \/ []<><<HandlerCall(s)>>_vars

FitsAGroup(s) ==
    \E p \in engine.waiting_peers :
        p.socket = s /\ p.prefs.scope # "solo" /\ groups_for_solo(engine, p) # {}

HasRival(s) ==
    /\ ~Waiting(s) /\ room_of(s) \in Queued(engine)
    /\ \E w \in engine.waiting_groups :
          w.id # room_of(s) /\ group_to_group_compatible(engine, room_of(s), w.id)

\* A waiting solo and a queued room that have become compatible since both were
\* first tried do not go on waiting next to each other.
SoloFindsGroup ==
    \A s \in Sockets : FitsAGroup(s) ~> ~FitsAGroup(s) \/ ~RoomLeft

\* Nor do two queued rooms.
GroupFindsGroup ==
    \A s \in Sockets : HasRival(s) ~> ~HasRival(s) \/ ~RoomLeft

-----------------------------------------------------------------------------
(* Statements of the source and its tests that the code does not keep. *)

\* core.rs on its single lock: "splitting that would let two joins claim the
\* same peer".  No two sockets have the same partner.
OneClaim ==
    \A s, t \in Sockets : partner(s) = partner(t) /\ partner(s) # NoSocket => s = t

\* "An unanswered invite expires, releasing the host back to idle instead of
\* leaving them alone": the timer never takes its host out of a live match.
AnsweredInviteStays ==
    [][\A t \in timers : InviteExpired(t) /\ room_of(t.socket) # NoRoom
          => ~engine.group_rooms[room_of(t.socket)].matched]_vars

\* "Then a waiting solo, unless the room is group-only": a member who asked for
\* groups only is never put into a match with somebody from the solo queue.
GroupOnlyMeetsGroups ==
    [][\A id \in RoomIds : ~Live(engine, id) /\ Live(engine, id)' =>
          \A p, q \in engine'.group_rooms[id].participants :
             /\ room_of(p.socket) = NoRoom /\ room_of(q.socket) # NoRoom
             /\ ~Invited(p.socket, q.socket)
             => q.prefs.scope # "group"]_vars
=============================================================================
