------------------------------- MODULE Engine -------------------------------
(***************************************************************************)
(* EngineState and the operations Engine performs on it while it holds its *)
(* one mutex (rust/src/matchmaking/state.rs and core.rs).  Every operator  *)
(* below that takes an engine state `e' and returns one is the whole       *)
(* critical section of a Rust method, or of a *_locked helper of one.      *)
(*                                                                         *)
(* A Vec is a set of records whose field `at' is the position in the Vec,  *)
(* counted from 1.  A HashMap is a total function with a null value.       *)
(* `told' is not a field of EngineState: it is the last lifecycle frame    *)
(* that was put into the outbox of each socket.                            *)
(***************************************************************************)
EXTENDS MatchPolicy, Sequences

CONSTANTS
    MaxRooms,                             \* bound on each room-id counter
    NoSocket, NoRoom, NoGroup, NoPair     \* null values

VARIABLES
    engine,      \* EngineState behind the mutex
    hub          \* sockets the Hub registry still holds

ASSUME MaxRoomsAssumption == MaxRooms \in Nat

ASSUME NullAssumption == NoSocket \notin Sockets

ASSUME FiniteAssumption == IsFiniteSet(Sockets)

\* "room_N" ids name live matches (1:1 and group), "groom_N" ids name lobbies.
RoomIds == {"room", "groom"} \X (1..MaxRooms)

ASSUME RoomAssumption == NoRoom \notin RoomIds

Pairs == [id : RoomIds, a : Sockets, b : Sockets]        \* struct Room

ASSUME PairAssumption == NoPair \notin Pairs

Groups ==                                                \* struct GroupRoom
    [host : Sockets, host_user : UserIds, scope : {"solo", "group", "all"},
     prefs : Preferences, participants : SUBSET Peers,
     in_queue : BOOLEAN, matched : BOOLEAN]

ASSUME GroupAssumption == NoGroup \notin Groups

Frames == {"none", "queue:waiting", "room:matched", "room:peer-left",
           "group-match:created", "group-match:matched",
           "group-match:invite-declined"}

EngineStates ==
    [waiting_peers        : SUBSET Peers,
     waiting_groups       : SUBSET [at : Nat, id : RoomIds],
     group_rooms          : [RoomIds -> Groups \cup {NoGroup}],
     group_room_of_socket : [Sockets -> RoomIds \cup {NoRoom}],
     partners             : [Sockets -> Sockets \cup {NoSocket}],
     rooms_by_socket      : [Sockets -> Pairs \cup {NoPair}],
     peer_meta            : SUBSET Sockets,
     blocked_pairs        : SUBSET SUBSET Users,
     recent_pairs         : SUBSET ({"u", "s"} \X SUBSET (UserIds \cup Sessions)),
     room_seq             : 0..MaxRooms,
     group_room_seq       : 0..MaxRooms,
     told                 : [Sockets -> Frames]]

EmptyEngine ==
    [waiting_peers |-> {}, waiting_groups |-> {},
     group_rooms |-> [id \in RoomIds |-> NoGroup],
     group_room_of_socket |-> [s \in Sockets |-> NoRoom],
     partners |-> [s \in Sockets |-> NoSocket],
     rooms_by_socket |-> [s \in Sockets |-> NoPair],
     peer_meta |-> {}, blocked_pairs |-> {}, recent_pairs |-> {},
     room_seq |-> 0, group_room_seq |-> 0,
     told |-> [s \in Sockets |-> "none"]]

-----------------------------------------------------------------------------
(* Vec and HashMap helpers. *)

\* Positions are dense: removing an element shifts the later ones up.
Rank(x, Q)  == Cardinality({y \in Q : y.at <= x.at})
Compact(Q)  == {[x EXCEPT !.at = Rank(x, Q)] : x \in Q}
NextAt(Q)   == Cardinality(Q) + 1
FirstOf(Q)  == CHOOSE x \in Q : \A y \in Q : x.at <= y.at

\* `if s > best_score' in Vec order: the highest score, the earliest on a tie.
Best(Q, score) ==
    CHOOSE x \in Q : \A y \in Q :
        \/ score[y] < score[x]
        \/ score[y] = score[x] /\ x.at <= y.at

Clear(f, S, null) == [x \in DOMAIN f |-> IF x \in S THEN null ELSE f[x]]

SocketsOf(Q) == {p.socket : p \in Q}

\* Engine::send reaches a socket only while the hub still knows it.
Tell(e, S, frame) ==
    [e EXCEPT !.told =
        [s \in Sockets |-> IF s \in S \cap hub THEN frame ELSE e.told[s]]]

Live(e, id)   == e.group_rooms[id] # NoGroup
Queued(e)     == {w.id : w \in e.waiting_groups}
members(e, id) == e.group_rooms[id].participants

may_meet(e, a, b) == compatible(e.blocked_pairs, e.recent_pairs, a, b)

remember_pair(e, a, b) == [e EXCEPT !.recent_pairs = @ \cup pair_keys(a, b)]

-----------------------------------------------------------------------------
(* Leaving. *)

\* Faulty: the flag stays (tests QueueSound).
faulty_dequeue_groups(e, ids) ==
    [e EXCEPT !.waiting_groups =
        Compact({w \in e.waiting_groups : w.id \notin ids})]

dequeue_groups(e, ids) ==
    [e EXCEPT
        !.waiting_groups = Compact({w \in e.waiting_groups : w.id \notin ids}),
        !.group_rooms = [id \in RoomIds |->
            IF id \in ids /\ Live(e, id)
            THEN [e.group_rooms[id] EXCEPT !.in_queue = FALSE]
            ELSE e.group_rooms[id]]]

\* Faulty: a matched peer goes on waiting (tests WaitingIsIdle).
faulty_drop_waiting(e, s) == e

drop_waiting(e, s) ==
    [e EXCEPT !.waiting_peers =
        Compact({p \in e.waiting_peers : p.socket # s})]

\* Only rooms the socket hosts leave the queue with it.
remove_from_queue(e, s) ==
    LET hosted == {id \in Queued(e) : /\ Live(e, id)
                                      /\ e.group_rooms[id].host = s
                                      /\ e.group_rooms[id].in_queue}
    IN  dequeue_groups(drop_waiting(e, s), hosted)

\* Faulty: the partner's entry stays (tests PairingKept).
faulty_leave_room(e, s, notify) ==
    LET room == e.rooms_by_socket[s]
        ends == IF room = NoPair THEN {} ELSE {room.a, room.b}
        left == [e EXCEPT
                   !.partners = Clear(@, {s}, NoSocket),
                   !.rooms_by_socket = Clear(@, {s} \cup ends, NoPair),
                   !.peer_meta = @ \ {s}]
    IN  IF notify THEN Tell(left, {e.partners[s]}, "room:peer-left") ELSE left

\* The partner's entry goes whatever it says; the room takes both ends along.
leave_room(e, s, notify) ==
    LET partner == e.partners[s]
        room    == e.rooms_by_socket[s]
        ends    == IF room = NoPair THEN {} ELSE {room.a, room.b}
        left    == [e EXCEPT
                      !.partners = Clear(@, {s, partner}, NoSocket),
                      !.rooms_by_socket = Clear(@, {s} \cup ends, NoPair),
                      !.peer_meta = @ \ {s}]
    IN  IF notify THEN Tell(left, {partner}, "room:peer-left") ELSE left

\* Faulty: the mappings stay (tests MappingSound).
faulty_dissolve_mapped(e, id, S) ==
    Tell([e EXCEPT !.group_rooms[id] = NoGroup,
                   !.waiting_groups = Compact({w \in @ : w.id # id})],
         S, "room:peer-left")

\* Faulty: the room stays, without members (tests NoEmptyRoom).
faulty_dissolve_empty(e, id, S) ==
    Tell([e EXCEPT !.group_room_of_socket = Clear(@, S, NoRoom),
                   !.group_rooms[id].participants = {}],
         S, "room:peer-left")

\* Faulty: nobody is told (tests ReleasedAreTold).
faulty_dissolve_silent(e, id, S) ==
    [e EXCEPT !.group_room_of_socket = Clear(@, S, NoRoom),
              !.group_rooms[id] = NoGroup,
              !.waiting_groups = Compact({w \in @ : w.id # id})]

\* Releases the sockets in S and forgets the room.
dissolve(e, id, S) ==
    LET released == [e EXCEPT
            !.group_room_of_socket = Clear(@, S, NoRoom),
            !.group_rooms[id] = NoGroup]
        dequeued == [released EXCEPT
            !.waiting_groups = Compact({w \in e.waiting_groups : w.id # id})]
    IN  Tell(dequeued, S, "room:peer-left")

\* A lobby dies with its host, a live match with its last-but-one member.
leave_group(e, s) ==
    LET id       == e.group_room_of_socket[s]
        unmapped == [e EXCEPT !.group_room_of_socket[s] = NoRoom]
        g        == e.group_rooms[id]
        rest     == {p \in g.participants : p.socket # s}
        is_over  == \/ rest = {}
                    \/ g.matched /\ Cardinality(rest) <= 1
                    \/ ~g.matched /\ g.host = s
        heir     == FirstOf(rest)
        shrunk   == [g EXCEPT !.participants = Compact(rest)]
        degraded == IF g.matched /\ g.host = s
                    THEN [shrunk EXCEPT !.host = heir.socket,
                                        !.host_user = heir.user]
                    ELSE shrunk
    IN  CASE id = NoRoom -> e
          [] id # NoRoom /\ ~Live(e, id) -> unmapped
          [] id # NoRoom /\ Live(e, id) /\ is_over ->
                dissolve(unmapped, id, SocketsOf(rest))
          [] OTHER -> [unmapped EXCEPT !.group_rooms[id] = degraded]

\* Faulty: forgets the queue (tests NoTrace).
faulty_full_remove_queued(e, s) == leave_room(leave_group(e, s), s, TRUE)

full_remove(e, s) ==
    leave_room(leave_group(remove_from_queue(e, s), s), s, TRUE)

-----------------------------------------------------------------------------
(* Assembling a group match. *)

group_compatible(e, peer, id) ==
    Live(e, id) /\ \A p \in members(e, id) : may_meet(e, peer, p)

\* Faulty: one compatible pair is enough (tests StrangersCompatible).
faulty_group_to_group_compatible(e, a, b) ==
    /\ Live(e, a) /\ Live(e, b)
    /\ \E p \in members(e, a), q \in members(e, b) : may_meet(e, p, q)

group_to_group_compatible(e, a, b) ==
    /\ Live(e, a) /\ Live(e, b)
    /\ \A p \in members(e, a), q \in members(e, b) : may_meet(e, p, q)

group_prefs(e, id) ==
    aggregate_group_preferences(members(e, id), e.group_rooms[id].prefs,
                                e.group_rooms[id].scope)

fits_group(e, peer, id) ==
    /\ group_compatible(e, peer, id)
    /\ preferences_compatible(peer.prefs, group_prefs(e, id))

solo_score(e, peer, id) ==
    interest_score(peer.prefs.interests, group_prefs(e, id).interests)

groups_for_solo(e, peer) ==
    {w \in e.waiting_groups : /\ Live(e, w.id)
                              /\ e.group_rooms[w.id].scope # "group"
                              /\ fits_group(e, peer, w.id)}

solos_for_group(e, id) ==
    {p \in e.waiting_peers : p.prefs.scope # "solo" /\ fits_group(e, p, id)}

\* The 1:1 entries notify_group_match drops while it walks the participants in
\* order: a participant whose room an earlier one already removed keeps its
\* `partners' entry.
stale_pairs(e, people) ==
    LET turn[i \in 0..Cardinality(people)] ==
            IF i = 0 THEN [partners |-> {}, rooms |-> {}]
            ELSE LET s == (CHOOSE p \in people : p.at = i).socket
                     r == e.rooms_by_socket[s]
                 IN  IF r = NoPair \/ s \in turn[i - 1].rooms THEN turn[i - 1]
                     ELSE [partners |-> turn[i - 1].partners \cup {s},
                           rooms |-> turn[i - 1].rooms \cup {s, r.a, r.b}]
    IN  turn[Cardinality(people)]

\* Every participant in one list, sides in order; a merged room records 0 for
\* a guest and no session key.
lineup(A, B) ==
    LET Seat(p, at) == [p EXCEPT
            !.at = at, !.session = NoSession,
            !.user = IF p.user = NoUser THEN GuestId ELSE p.user]
    IN  {Seat(p, Rank(p, A)) : p \in A}
            \cup {Seat(p, Cardinality(A) + Rank(p, B)) : p \in B}

\* The mesh of sides A and B.  With `from' a room there is one side only, that
\* room's own members, and the mesh keeps searching.
notify_group_match(e, A, B, from) ==
    LET people == lineup({p \in A : p.socket \in hub},
                         {p \in B : p.socket \in hub})
        moved  == SocketsOf(people)
        new    == <<"room", e.room_seq + 1>>
        Stay(id) == {p \in members(e, id) :
                        ~(p.socket \in moved /\ e.group_room_of_socket[p.socket] = id)}
        Emptied == {id \in RoomIds : Live(e, id) /\ Stay(id) = {}}
        stale  == stale_pairs(e, people)
        first  == FirstOf(people)
        \* Looked up after the old rooms were removed: only a room somebody
        \* stayed behind in passes on its scope and preferences.
        keep   == from # NoRoom /\ Live(e, from) /\ Stay(from) # {}
        unified == [host |-> first.socket, host_user |-> first.user,
                    scope |-> IF keep THEN e.group_rooms[from].scope ELSE "all",
                    prefs |-> IF keep THEN e.group_rooms[from].prefs
                              ELSE first.prefs,
                    participants |-> people,
                    in_queue |-> from # NoRoom, matched |-> TRUE]
        queue  == Compact({w \in e.waiting_groups : w.id \notin Emptied})
    IN  IF Cardinality(people) < 2 THEN e
        ELSE Tell([e EXCEPT
            !.room_seq = @ + 1,
            !.group_rooms = [id \in RoomIds |->
                CASE id = new -> unified
                  [] id # new /\ id \in Emptied -> NoGroup
                  [] id # new /\ id \notin Emptied /\ Live(e, id) ->
                        [e.group_rooms[id] EXCEPT !.participants = Compact(Stay(id))]
                  [] OTHER -> NoGroup],
            !.group_room_of_socket = [s \in Sockets |->
                IF s \in moved THEN new ELSE e.group_room_of_socket[s]],
            !.partners = Clear(@, stale.partners, NoSocket),
            !.rooms_by_socket = Clear(@, stale.rooms, NoPair),
            !.waiting_groups =
                IF from # NoRoom
                THEN queue \cup {[at |-> NextAt(queue), id |-> new]} ELSE queue],
            moved,
            IF from # NoRoom THEN "queue:waiting" ELSE "group-match:matched")

\* A pair is remembered only if the old room outlived the merge.
merge_solo_with_group(e, peer, id) ==
    LET ready  == dequeue_groups(drop_waiting(e, peer.socket), {id})
        merged == notify_group_match(ready, members(ready, id), {peer}, NoRoom)
        g      == merged.group_rooms[id]
        host   == [at |-> 0, socket |-> g.host, user |-> g.host_user,
                   prefs |-> g.prefs, session |-> NoSession]
    IN  IF peer.user # NoUser /\ Live(merged, id)
        THEN remember_pair(merged, peer, host) ELSE merged

merge_groups_and_match(e, a, b) ==
    LET ready == dequeue_groups(e, {a, b})
    IN  notify_group_match(ready, members(ready, a), members(ready, b), NoRoom)

\* An opposing group first, then a waiting solo, then the room's own members.
try_match_group(e, id) ==
    LET g      == e.group_rooms[id]
        rivals == {w \in e.waiting_groups :
                      w.id # id /\ group_to_group_compatible(e, id, w.id)}
        rival  == Best(rivals, [w \in rivals |->
                      group_pair_score(members(e, id), members(e, w.id))])
        solos  == IF g.scope = "group" THEN {} ELSE solos_for_group(e, id)
        solo   == Best(solos, [p \in solos |-> solo_score(e, p, id)])
    IN  CASE ~Live(e, id) -> e
          [] Live(e, id) /\ ~g.in_queue -> e
          [] Live(e, id) /\ g.in_queue /\ rivals # {} ->
                merge_groups_and_match(e, id, rival.id)
          [] Live(e, id) /\ g.in_queue /\ rivals = {} /\ solos # {} ->
                merge_solo_with_group(e, solo, id)
          [] OTHER ->
                IF Cardinality(g.participants) >= 2 /\ ~g.matched
                THEN notify_group_match(dequeue_groups(e, {id}),
                                        g.participants, {}, id)
                ELSE e

\* Pushes the id even if the room is gone.
enqueue_group(e, id) ==
    LET pushed == [e EXCEPT !.waiting_groups =
                      @ \cup {[at |-> NextAt(@), id |-> id]}]
    IN  IF ~Live(e, id) THEN pushed
        ELSE Tell([pushed EXCEPT !.group_rooms[id].in_queue = TRUE],
                  SocketsOf(members(e, id)), "queue:waiting")

start_group_match(e, id) ==
    IF Live(e, id) /\ e.group_rooms[id].in_queue THEN e
    ELSE try_match_group(enqueue_group(e, id), id)

-----------------------------------------------------------------------------
(* The queue and the lobbies. *)

peer_of(s, user, prefs) ==
    [at |-> 0, socket |-> s, user |-> user, prefs |-> prefs, session |-> s]

\* Faulty: one direction only (tests PartnersAgree).
faulty_pair_up(e, a, b) ==
    LET room == [id |-> <<"room", e.room_seq + 1>>, a |-> a, b |-> b]
    IN  [e EXCEPT !.room_seq = @ + 1,
                  !.partners[a] = b,
                  !.rooms_by_socket = [@ EXCEPT ![a] = room, ![b] = room]]

\* Both ends of a new 1:1 room, named by its number.
pair_up(e, a, b) ==
    LET room == [id |-> <<"room", e.room_seq + 1>>, a |-> a, b |-> b]
    IN  [e EXCEPT
            !.room_seq = @ + 1,
            !.partners = [@ EXCEPT ![a] = b, ![b] = a],
            !.rooms_by_socket = [@ EXCEPT ![a] = room, ![b] = room]]

push_waiting(e, peer) ==
    Tell([e EXCEPT !.waiting_peers =
             @ \cup {[peer EXCEPT !.at = NextAt(e.waiting_peers)]}],
         {peer.socket}, "queue:waiting")

\* Faulty: a score of 0 is not good enough (tests NoMissedMatch).
faulty_solo_candidates(e, me) ==
    {c \in e.waiting_peers :
        /\ "group" \notin {me.prefs.scope, c.prefs.scope} /\ may_meet(e, me, c)
        /\ interest_score(me.prefs.interests, c.prefs.interests) > 0}

solo_candidates(e, me) ==
    IF me.prefs.scope = "group" THEN {}
    ELSE {c \in e.waiting_peers : c.prefs.scope # "group" /\ may_meet(e, me, c)}

join_queue(e, s, user, prefs) ==
    LET me      == peer_of(s, user, prefs)
        away    == leave_group(leave_room(remove_from_queue(e, s), s, TRUE), s)
        idle    == [away EXCEPT !.peer_meta = @ \cup {s}]
        solos   == solo_candidates(idle, me)
        chosen  == Best(solos, [c \in solos |->
                       interest_score(prefs.interests, c.prefs.interests)])
        rooms   == IF prefs.scope = "solo" THEN {} ELSE groups_for_solo(idle, me)
        room    == Best(rooms, [w \in rooms |-> solo_score(idle, me, w.id)])
    IN  CASE solos # {} ->
                pair_up(remember_pair(drop_waiting(idle, chosen.socket), me, chosen),
                        s, chosen.socket)
          [] solos = {} /\ rooms # {} -> merge_solo_with_group(idle, me, room.id)
          [] OTHER -> push_waiting(idle, me)

\* Faulty: a waiting solo is not looked at again (tests SoloFindsGroup).
faulty_heartbeat_group(e, s) ==
    LET id == e.group_room_of_socket[s]
    IN  IF s \in SocketsOf(e.waiting_peers) \/ id = NoRoom THEN e
        ELSE try_match_group(e, id)

\* Faulty: a queued group is not looked at again (tests GroupFindsGroup).
faulty_heartbeat_solo(e, s) ==
    LET me    == CHOOSE p \in e.waiting_peers : p.socket = s
        rooms == groups_for_solo(e, me)
        room  == Best(rooms, [w \in rooms |-> solo_score(e, me, w.id)])
    IN  IF s \notin SocketsOf(e.waiting_peers) THEN e
        ELSE IF me.prefs.scope = "solo" \/ rooms = {} THEN e
        ELSE merge_solo_with_group(e, me, room.id)

\* A waiting solo re-checks the groups, a queued group looks for an opponent.
heartbeat(e, s) ==
    LET waiting == {p \in e.waiting_peers : p.socket = s}
        me      == CHOOSE p \in waiting : TRUE
        rooms   == IF me.prefs.scope = "solo" THEN {} ELSE groups_for_solo(e, me)
        room    == Best(rooms, [w \in rooms |-> solo_score(e, me, w.id)])
        id      == e.group_room_of_socket[s]
    IN  IF waiting # {}
        THEN IF rooms = {} THEN e ELSE merge_solo_with_group(e, me, room.id)
        ELSE IF id = NoRoom THEN e ELSE try_match_group(e, id)

create_group_match_room(e, s, user, prefs, skip_leave_room) ==
    LET left == leave_group(e, s)
        free == IF skip_leave_room THEN left ELSE leave_room(left, s, TRUE)
        id   == <<"groom", e.group_room_seq + 1>>
        lobby == [host |-> s, host_user |-> user, scope |-> prefs.scope,
                  prefs |-> prefs,
                  participants |-> {[peer_of(s, user, prefs) EXCEPT !.at = 1]},
                  in_queue |-> FALSE, matched |-> FALSE]
    IN  Tell([free EXCEPT !.group_room_seq = @ + 1,
                          !.group_rooms[id] = lobby,
                          !.group_room_of_socket[s] = id],
             {s}, "group-match:created")

\* Drops the socket's 1:1 match, but not its seat in another group room.
add_participant_to_group(e, id, s, user, prefs) ==
    LET out     == remove_from_queue(e, s)
        partner == IF e.rooms_by_socket[s] = NoPair THEN NoSocket ELSE e.partners[s]
        free    == Tell([out EXCEPT
                       !.partners = IF e.rooms_by_socket[s] = NoPair THEN @
                                    ELSE Clear(@, {s, partner}, NoSocket),
                       !.rooms_by_socket = Clear(@, {s, partner}, NoPair)],
                       {partner}, "room:peer-left")
        others  == {p \in members(free, id) : p.socket # s}
        mine    == members(free, id) \ others
        seat    == [peer_of(s, user, prefs) EXCEPT
                       !.at = IF mine = {} THEN NextAt(others)
                              ELSE (CHOOSE p \in mine : TRUE).at]
        seated  == Tell([free EXCEPT
                       !.group_rooms[id].participants = others \cup {seat},
                       !.group_room_of_socket[s] = id],
                       {s}, "group-match:created")
        queued  == IF seated.group_rooms[id].in_queue THEN seated
                   ELSE enqueue_group(seated, id)
    IN  CASE ~Live(free, id) -> free
          [] Live(free, id) /\ others = {} -> seated
          [] OTHER -> try_match_group(queued, id)

\* The sockets of `order' leave their 1:1 rooms one after the other, nobody is
\* told.
leave_all(e, order) ==
    LET gone[i \in 0..Len(order)] ==
            IF i = 0 THEN [partners |-> {}, rooms |-> {}]
            ELSE LET s   == order[i]
                     r   == e.rooms_by_socket[s]
                     was == gone[i - 1]
                 IN  [partners |-> IF s \in was.partners THEN was.partners
                                   ELSE was.partners \cup {s, e.partners[s]},
                      rooms |-> IF s \in was.rooms \/ r = NoPair THEN was.rooms
                                ELSE was.rooms \cup {s, r.a, r.b}]
        all == gone[Len(order)]
    IN  [e EXCEPT !.partners = Clear(@, all.partners, NoSocket),
                  !.rooms_by_socket = Clear(@, all.rooms, NoPair),
                  !.peer_meta = @ \ {order[i] : i \in 1..Len(order)}]

\* Pairs the first tab of each side; neither leaves the queue nor a group room.
match_users(e, left, right) ==
    pair_up(leave_all(e, left \o right), left[1], right[1])
=============================================================================
