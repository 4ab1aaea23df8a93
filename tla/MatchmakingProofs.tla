------------------------- MODULE MatchmakingProofs -------------------------
(***************************************************************************)
(* Invariants of the matchmaking server for every set of sockets, every    *)
(* assignment of accounts and preferences, every selection of messages and *)
(* every bound on the room counters.  First what every engine operation    *)
(* keeps true: Good is the invariant of the engine's data, and one lemma   *)
(* per operation says that the operation keeps it.  Then 1:1 matching, who *)
(* is released from a room and how, and who is put into one.               *)
(***************************************************************************)
EXTENDS MatchmakingProperties, PolicyLemmas

Entries == [at : Nat, id : RoomIds]                 \* of waiting_groups

IdsOf(Q) == {w.id : w \in Q}

Without(Q, ids) == {w \in Q : w.id \notin ids}

EntryList(Q) == Q \subseteq Entries /\ IsFiniteSet(Q)

OneEach(Q) == \A p, q \in Q : p.socket = q.socket => p = q

\* Every list is finite, so that positions and scores are numbers.
Finite(e) ==
    /\ IsFiniteSet(e.waiting_peers) /\ IsFiniteSet(e.waiting_groups)
    /\ \A id \in RoomIds : Live(e, id) => IsFiniteSet(members(e, id))

WellFormed(e) == e \in EngineStates /\ Finite(e)

\* The id was handed out: the counter of its kind has reached it.
Allocated(e, id) ==
    id[2] <= (IF id[1] = "room" THEN e.room_seq ELSE e.group_room_seq)

\* No id that will be handed out later is in use anywhere.
FreshIds(e) ==
    /\ \A id \in RoomIds : Live(e, id) => Allocated(e, id)
    /\ \A w \in e.waiting_groups : Allocated(e, w.id)

\* Whoever is mapped to a room has a seat in it.
Seated(e) ==
    \A s \in Sockets : e.group_room_of_socket[s] # NoRoom =>
        /\ Live(e, e.group_room_of_socket[s])
        /\ s \in SocketsOf(members(e, e.group_room_of_socket[s]))

\* Every live room has members, and each of them one seat.
Populated(e) ==
    \A id \in RoomIds : Live(e, id) =>
        members(e, id) # {} /\ OneEach(members(e, id))

\* The list Q names no live room of e twice.
ListedOnce(e, Q) == \A v, w \in Q : Live(e, v.id) /\ v.id = w.id => v = w

\* The flag of a live room and the waiting list agree.
QueueAgrees(e) ==
    /\ \A id \in RoomIds :
          Live(e, id) => (e.group_rooms[id].in_queue <=> id \in Queued(e))
    /\ ListedOnce(e, e.waiting_groups)

Sound(e) == FreshIds(e) /\ Seated(e) /\ Populated(e) /\ QueueAgrees(e)

Good(e) == WellFormed(e) /\ Sound(e)

\* Both counters of f are those of e.
SameCounters(e, f) ==
    f.room_seq = e.room_seq /\ f.group_room_seq = e.group_room_seq

\* No counter runs backwards from e to f.
Later(e, f) ==
    e.room_seq <= f.room_seq /\ e.group_room_seq <= f.group_room_seq

-----------------------------------------------------------------------------
(* Lists. *)

LEMMA RankType ==
    ASSUME NEW Q, IsFiniteSet(Q), NEW x
    PROVE  Rank(x, Q) \in Nat
<1>1. IsFiniteSet({y \in Q : y.at <= x.at})
  BY FS_Subset
<1> QED BY <1>1, FS_CardinalityType DEF Rank

LEMMA NextAtType ==
    ASSUME NEW Q, IsFiniteSet(Q)
    PROVE  NextAt(Q) \in Nat
BY FS_CardinalityType DEF NextAt

LEMMA CompactFinite ==
    ASSUME NEW Q, IsFiniteSet(Q)
    PROVE  IsFiniteSet(Compact(Q))
<1> DEFINE f == [x \in Q |-> [x EXCEPT !.at = Rank(x, Q)]]
<1>1. Compact(Q) = {f[x] : x \in Q}
  BY DEF Compact
<1>2. f = [x \in Q |-> f[x]] /\ DOMAIN f = Q
  OBVIOUS
<1> HIDE DEF f
<1> QED BY <1>1, <1>2, FiniteRange

\* Closing the gaps in a list of peers keeps who is in it.
LEMMA CompactPeers ==
    ASSUME NEW Q, IsFiniteSet(Q), Q \subseteq Peers
    PROVE  /\ Compact(Q) \subseteq Peers /\ IsFiniteSet(Compact(Q))
           /\ SocketsOf(Compact(Q)) = SocketsOf(Q)
           /\ (Q # {} => Compact(Q) # {})
           /\ (OneEach(Q) => OneEach(Compact(Q)))
<1>1. \A x \in Q : Rank(x, Q) \in Nat
  BY RankType
<1>2. \A x \in Q : /\ [x EXCEPT !.at = Rank(x, Q)] \in Peers
                   /\ [x EXCEPT !.at = Rank(x, Q)].socket = x.socket
  BY <1>1 DEF Peers
<1> DEFINE f == [x \in Q |-> [x EXCEPT !.at = Rank(x, Q)]]
<1>3. \A x \in Q : f[x] \in Peers /\ f[x].socket = x.socket
  BY <1>2
<1>4. Compact(Q) = {f[x] : x \in Q}
  BY DEF Compact
<1> HIDE DEF f
<1>5. Compact(Q) \subseteq Peers /\ (Q # {} => Compact(Q) # {})
  BY <1>3, <1>4
<1>6. SocketsOf(Compact(Q)) = SocketsOf(Q)
  BY <1>3, <1>4 DEF SocketsOf
<1>7. OneEach(Q) => OneEach(Compact(Q))
  BY <1>3, <1>4 DEF OneEach
<1> QED BY <1>5, <1>6, <1>7, CompactFinite

\* The same for the list of waiting rooms.
LEMMA CompactEntries ==
    ASSUME NEW Q, IsFiniteSet(Q), Q \subseteq Entries
    PROVE  /\ Compact(Q) \subseteq Entries /\ IsFiniteSet(Compact(Q))
           /\ IdsOf(Compact(Q)) = IdsOf(Q)
           /\ \A id : (\A v, w \in Q : v.id = id /\ w.id = id => v = w)
                 => (\A v, w \in Compact(Q) : v.id = id /\ w.id = id => v = w)
<1>1. \A x \in Q : Rank(x, Q) \in Nat
  BY RankType
<1>2. \A x \in Q : /\ [x EXCEPT !.at = Rank(x, Q)] \in Entries
                   /\ [x EXCEPT !.at = Rank(x, Q)].id = x.id
  BY <1>1 DEF Entries
<1> DEFINE f == [x \in Q |-> [x EXCEPT !.at = Rank(x, Q)]]
<1>3. \A x \in Q : f[x] \in Entries /\ f[x].id = x.id
  BY <1>2
<1>4. Compact(Q) = {f[x] : x \in Q}
  BY DEF Compact
<1> HIDE DEF f
<1>5. Compact(Q) \subseteq Entries
  BY <1>3, <1>4
<1>6. IdsOf(Compact(Q)) = IdsOf(Q)
  BY <1>3, <1>4 DEF IdsOf
<1>7. \A id : (\A v, w \in Q : v.id = id /\ w.id = id => v = w)
         => (\A v, w \in Compact(Q) : v.id = id /\ w.id = id => v = w)
  BY <1>3, <1>4
<1> QED BY <1>5, <1>6, <1>7, CompactFinite

\* The best of several candidates is one of them.
LEMMA BestIsCandidate ==
    ASSUME NEW Q, IsFiniteSet(Q), Q # {}, \A x \in Q : x.at \in Nat,
           NEW score, \A x \in Q : score[x] \in Nat
    PROVE  Best(Q, score) \in Q
<1> DEFINE Beats(m, n) == \/ score[n] < score[m]
                          \/ score[n] = score[m] /\ m.at <= n.at
           R == {z \in Q \X Q : Beats(z[2], z[1])}
<1>1. \A x, y \in Q : <<x, y>> \in R <=> Beats(y, x)
  OBVIOUS
<1>2. \A x, y \in Q : Beats(y, x) \/ Beats(x, y)
  OBVIOUS
<1>3. \A x, y, z \in Q : Beats(y, x) /\ Beats(z, y) => Beats(z, x)
  OBVIOUS
<1>4. \E m \in Q : \A n \in Q : Beats(m, n)
  <2> HIDE DEF Beats, R
  <2>1. /\ \A x, y \in Q : <<x, y>> \in R \/ <<y, x>> \in R
        /\ \A x, y, z \in Q : <<x, y>> \in R /\ <<y, z>> \in R => <<x, z>> \in R
    BY <1>1, <1>2, <1>3
  <2>2. \E m \in Q : \A n \in Q : <<n, m>> \in R
    BY <2>1, GreatestExists
  <2> QED BY <1>1, <2>2
<1> QED BY <1>4 DEF Best

\* The first of a list is in the list.
LEMMA FirstIsMember ==
    ASSUME NEW Q, IsFiniteSet(Q), Q # {}, \A x \in Q : x.at \in Nat
    PROVE  FirstOf(Q) \in Q
<1> DEFINE R == {z \in Q \X Q : z[2].at <= z[1].at}
<1>1. \A x, y \in Q : <<x, y>> \in R <=> y.at <= x.at
  OBVIOUS
<1>2. \E m \in Q : \A n \in Q : m.at <= n.at
  <2> HIDE DEF R
  <2>1. /\ \A x, y \in Q : <<x, y>> \in R \/ <<y, x>> \in R
        /\ \A x, y, z \in Q : <<x, y>> \in R /\ <<y, z>> \in R => <<x, z>> \in R
    BY <1>1
  <2>2. \E m \in Q : \A n \in Q : <<n, m>> \in R
    BY <2>1, GreatestExists
  <2> QED BY <1>1, <2>2
<1> QED BY <1>2 DEF FirstOf

-----------------------------------------------------------------------------
(* Operations that leave the group rooms alone. *)

\* What a step has to check that touches neither rooms nor their queue.
LEMMA QuietStep ==
    ASSUME NEW e, Good(e), NEW f \in EngineStates,
           f.group_rooms = e.group_rooms, f.waiting_groups = e.waiting_groups,
           f.group_room_of_socket = e.group_room_of_socket,
           Later(e, f), IsFiniteSet(f.waiting_peers)
    PROVE  Good(f)
<1> USE DEF Good, WellFormed
<1>1. Finite(f)
  BY DEF Finite, Live, members
<1>2. FreshIds(f)
  <2>1. \A id \in RoomIds : Allocated(e, id) => Allocated(f, id)
    BY DEF EngineStates, Later, Allocated, RoomIds
  <2>2. \A w \in e.waiting_groups : w.id \in RoomIds
    BY DEF EngineStates
  <2> QED BY <2>1, <2>2 DEF Sound, FreshIds, Live
<1>3. Seated(f) /\ Populated(f) /\ QueueAgrees(f)
  BY DEF Sound, Seated, Populated, QueueAgrees, ListedOnce, Live, members, Queued
<1> QED BY <1>1, <1>2, <1>3 DEF Sound

LEMMA TellGood ==
    ASSUME NEW e, Good(e), NEW S, NEW frame \in Frames
    PROVE  Good(Tell(e, S, frame)) /\ SameCounters(e, Tell(e, S, frame))
<1> DEFINE f == Tell(e, S, frame)
<1>1. e \in EngineStates /\ IsFiniteSet(e.waiting_peers)
  BY DEF Good, WellFormed, Finite
<1>2. /\ f \in EngineStates /\ f.group_rooms = e.group_rooms
      /\ f.waiting_groups = e.waiting_groups
      /\ f.group_room_of_socket = e.group_room_of_socket
      /\ f.waiting_peers = e.waiting_peers /\ SameCounters(e, f) /\ Later(e, f)
  BY <1>1 DEF Tell, EngineStates, SameCounters, Later
<1>3. f = Tell(e, S, frame)
  OBVIOUS
<1> HIDE DEF f
<1> QED BY <1>1, <1>2, <1>3, QuietStep

LEMMA DropWaitingGood ==
    ASSUME NEW e, Good(e), NEW s
    PROVE  /\ Good(drop_waiting(e, s)) /\ SameCounters(e, drop_waiting(e, s))
           /\ drop_waiting(e, s).group_rooms = e.group_rooms
<1> DEFINE f == drop_waiting(e, s)
           Q == {p \in e.waiting_peers : p.socket # s}
<1>1. e \in EngineStates /\ IsFiniteSet(Q) /\ Q \subseteq Peers
  BY FS_Subset DEF Good, WellFormed, Finite, EngineStates
<1>2. Compact(Q) \subseteq Peers /\ IsFiniteSet(Compact(Q))
  BY <1>1, CompactPeers
<1>3. /\ f.group_rooms = e.group_rooms /\ f.waiting_groups = e.waiting_groups
      /\ f.group_room_of_socket = e.group_room_of_socket
      /\ f.waiting_peers = Compact(Q) /\ SameCounters(e, f) /\ Later(e, f)
  BY <1>1 DEF drop_waiting, EngineStates, SameCounters, Later
<1>4. f \in EngineStates
  BY <1>1, <1>2 DEF drop_waiting, EngineStates
<1>5. f = drop_waiting(e, s)
  OBVIOUS
<1> HIDE DEF f, Q
<1> QED BY <1>2, <1>3, <1>4, <1>5, QuietStep

LEMMA LeaveRoomGood ==
    ASSUME NEW e, Good(e), NEW s \in Sockets, NEW notify \in BOOLEAN
    PROVE  /\ Good(leave_room(e, s, notify))
           /\ SameCounters(e, leave_room(e, s, notify))
<1> DEFINE mate    == e.partners[s]
           room    == e.rooms_by_socket[s]
           ends    == IF room = NoPair THEN {} ELSE {room.a, room.b}
           f       == [e EXCEPT
                         !.partners = Clear(@, {s, mate}, NoSocket),
                         !.rooms_by_socket = Clear(@, {s} \cup ends, NoPair),
                         !.peer_meta = @ \ {s}]
<1>1. e \in EngineStates /\ IsFiniteSet(e.waiting_peers)
  BY DEF Good, WellFormed, Finite
<1>2. f \in EngineStates
  BY <1>1 DEF EngineStates, Clear
<1>3. /\ f.group_rooms = e.group_rooms
      /\ f.waiting_groups = e.waiting_groups
      /\ f.group_room_of_socket = e.group_room_of_socket
      /\ f.waiting_peers = e.waiting_peers /\ SameCounters(e, f) /\ Later(e, f)
  BY <1>1 DEF EngineStates, SameCounters, Later
<1>4. leave_room(e, s, notify) = f
        \/ leave_room(e, s, notify) = Tell(f, {mate}, "room:peer-left")
  BY DEF leave_room
<1> HIDE DEF f
<1>5. Good(f)
  BY <1>1, <1>3, <1>2, QuietStep
<1>6. /\ Good(Tell(f, {mate}, "room:peer-left"))
      /\ SameCounters(f, Tell(f, {mate}, "room:peer-left"))
  BY <1>5, TellGood DEF Frames
<1> QED BY <1>3, <1>4, <1>5, <1>6 DEF SameCounters

LEMMA RememberPairGood ==
    ASSUME NEW e, Good(e), NEW a, NEW b,
           {a.user, b.user} \subseteq UserIds, {a.session, b.session} \subseteq Sessions
    PROVE  Good(remember_pair(e, a, b)) /\ SameCounters(e, remember_pair(e, a, b))
<1> DEFINE f == remember_pair(e, a, b)
<1>1. e \in EngineStates /\ IsFiniteSet(e.waiting_peers)
  BY DEF Good, WellFormed, Finite
<1>2. pair_keys(a, b) \subseteq ({"u", "s"} \X SUBSET (UserIds \cup Sessions))
  BY DEF pair_keys, user_key, session_key
<1>3. /\ f \in EngineStates /\ f.group_rooms = e.group_rooms
      /\ f.waiting_groups = e.waiting_groups
      /\ f.group_room_of_socket = e.group_room_of_socket
      /\ f.waiting_peers = e.waiting_peers /\ SameCounters(e, f) /\ Later(e, f)
  BY <1>1, <1>2 DEF remember_pair, EngineStates, SameCounters, Later
<1>4. f = remember_pair(e, a, b)
  OBVIOUS
<1> HIDE DEF f
<1> QED BY <1>1, <1>3, <1>4, QuietStep

LEMMA PairUpGood ==
    ASSUME NEW e, Good(e), NEW a \in Sockets, NEW b \in Sockets,
           e.room_seq < MaxRooms
    PROVE  Good(pair_up(e, a, b)) /\ Later(e, pair_up(e, a, b))
<1> DEFINE f == pair_up(e, a, b)
           room == [id |-> <<"room", e.room_seq + 1>>, a |-> a, b |-> b]
<1>1. e \in EngineStates /\ IsFiniteSet(e.waiting_peers)
  BY DEF Good, WellFormed, Finite
<1>2. e.room_seq + 1 \in 1..MaxRooms /\ e.room_seq + 1 \in 0..MaxRooms
  BY <1>1, MaxRoomsAssumption DEF EngineStates
<1>3. room \in Pairs
  BY <1>2 DEF Pairs, RoomIds
<1>4. /\ f.group_rooms = e.group_rooms /\ f.waiting_groups = e.waiting_groups
      /\ f.group_room_of_socket = e.group_room_of_socket
      /\ f.waiting_peers = e.waiting_peers /\ Later(e, f)
  BY <1>1 DEF pair_up, EngineStates, Later
<1>5. f \in EngineStates
  BY <1>1, <1>2, <1>3 DEF pair_up, EngineStates
<1>6. f = pair_up(e, a, b)
  OBVIOUS
<1> HIDE DEF f
<1> QED BY <1>1, <1>4, <1>5, <1>6, QuietStep

LEMMA PushWaitingGood ==
    ASSUME NEW e, Good(e), NEW peer \in Peers
    PROVE  Good(push_waiting(e, peer)) /\ SameCounters(e, push_waiting(e, peer))
<1> DEFINE seat == [peer EXCEPT !.at = NextAt(e.waiting_peers)]
           f == [e EXCEPT !.waiting_peers = @ \cup {seat}]
<1>1. e \in EngineStates /\ IsFiniteSet(e.waiting_peers)
  BY DEF Good, WellFormed, Finite
<1>2. seat \in Peers
  BY <1>1, NextAtType DEF Peers
<1> HIDE DEF seat
<1>3. IsFiniteSet(e.waiting_peers \cup {seat})
  BY <1>1, FS_AddElement
<1>4. /\ f \in EngineStates /\ f.group_rooms = e.group_rooms
      /\ f.waiting_groups = e.waiting_groups
      /\ f.group_room_of_socket = e.group_room_of_socket
      /\ IsFiniteSet(f.waiting_peers) /\ SameCounters(e, f) /\ Later(e, f)
  BY <1>1, <1>2, <1>3 DEF EngineStates, SameCounters, Later
<1>5. push_waiting(e, peer) = Tell(f, {peer.socket}, "queue:waiting")
  BY DEF push_waiting, seat
<1> HIDE DEF f
<1>6. Good(f)
  BY <1>4, QuietStep
<1> QED BY <1>4, <1>5, <1>6, TellGood DEF Frames, SameCounters

LEMMA MatchUsersGood ==
    ASSUME NEW e, Good(e), NEW left \in Seq(Sockets), NEW right \in Seq(Sockets),
           left # << >>, right # << >>, e.room_seq < MaxRooms
    PROVE  Good(match_users(e, left, right)) /\ Later(e, match_users(e, left, right))
<1> DEFINE f == leave_all(e, left \o right)
<1>1. e \in EngineStates /\ IsFiniteSet(e.waiting_peers)
  BY DEF Good, WellFormed, Finite
<1>2. /\ \A S : Clear(e.partners, S, NoSocket) \in [Sockets -> Sockets \cup {NoSocket}]
      /\ \A S : Clear(e.rooms_by_socket, S, NoPair) \in [Sockets -> Pairs \cup {NoPair}]
  BY SMTT(30), <1>1 DEF EngineStates, Clear
<1>3. f \in EngineStates
  BY <1>1, <1>2 DEF leave_all, EngineStates
<1>4. /\ f.group_rooms = e.group_rooms
      /\ f.waiting_groups = e.waiting_groups
      /\ f.group_room_of_socket = e.group_room_of_socket
      /\ f.waiting_peers = e.waiting_peers /\ SameCounters(e, f) /\ Later(e, f)
  BY <1>1 DEF leave_all, EngineStates, SameCounters, Later
<1>5. left[1] \in Sockets /\ right[1] \in Sockets
  OBVIOUS
<1> HIDE DEF f
<1>6. Good(f)
  BY <1>1, <1>4, <1>3, QuietStep
<1>7. Good(pair_up(f, left[1], right[1])) /\ Later(f, pair_up(f, left[1], right[1]))
  BY <1>4, <1>5, <1>6, PairUpGood DEF SameCounters
<1> QED BY <1>4, <1>7 DEF match_users, f, SameCounters, Later

-----------------------------------------------------------------------------
(* Leaving a group room. *)

\* A list of rooms without some of them is a well-formed list again, and names
\* exactly the others.
LEMMA ShorterQueue ==
    ASSUME NEW e, Good(e), NEW ids, NEW Q, Q = Compact(Without(e.waiting_groups, ids))
    PROVE  /\ EntryList(Q)
           /\ IdsOf(Q) = Queued(e) \ ids
           /\ ListedOnce(e, Q)
<1> DEFINE P == Without(e.waiting_groups, ids)
<1>1. P \subseteq Entries /\ IsFiniteSet(P)
  BY FS_Subset DEF Good, WellFormed, Finite, EngineStates, Entries, Without
<1>2. IdsOf(P) = Queued(e) \ ids
  BY DEF Queued, Without, IdsOf
<1>3. \A id : Live(e, id) => \A v, w \in P : v.id = id /\ w.id = id => v = w
  BY DEF Good, Sound, QueueAgrees, ListedOnce, Without
<1> HIDE DEF P
<1>4. /\ Compact(P) \subseteq Entries /\ IsFiniteSet(Compact(P))
      /\ IdsOf(Compact(P)) = IdsOf(P)
      /\ \A id : (\A v, w \in P : v.id = id /\ w.id = id => v = w)
            => (\A v, w \in Compact(P) : v.id = id /\ w.id = id => v = w)
  BY <1>1, CompactEntries
<1>5. \A v, w \in Compact(P) : Live(e, v.id) /\ v.id = w.id => v = w
  BY <1>3, <1>4
<1> QED BY <1>2, <1>4, <1>5 DEF P, EntryList, ListedOnce

LEMMA DequeueGood ==
    ASSUME NEW e, Good(e), NEW ids
    PROVE  LET f == dequeue_groups(e, ids)
           IN  /\ Good(f) /\ SameCounters(e, f)
               /\ f.waiting_peers = e.waiting_peers
               /\ f.group_room_of_socket = e.group_room_of_socket
               /\ \A id \in RoomIds : Live(f, id) <=> Live(e, id)
               /\ \A id \in RoomIds : Live(e, id) => members(f, id) = members(e, id)
<1> DEFINE f == dequeue_groups(e, ids)
           Q == Compact(Without(e.waiting_groups, ids))
<1>1. e \in EngineStates /\ IsFiniteSet(e.waiting_peers) /\ Finite(e) /\ Sound(e)
  BY DEF Good, WellFormed, Finite
<1>2. /\ EntryList(Q) /\ IdsOf(Q) = Queued(e) \ ids
      /\ ListedOnce(e, Q)
  BY ShorterQueue
<1>3. /\ f.waiting_groups = Q /\ f.waiting_peers = e.waiting_peers
      /\ f.group_room_of_socket = e.group_room_of_socket /\ SameCounters(e, f)
      /\ f.group_rooms = [id \in RoomIds |->
            IF id \in ids /\ Live(e, id)
            THEN [e.group_rooms[id] EXCEPT !.in_queue = FALSE]
            ELSE e.group_rooms[id]]
  BY <1>1 DEF dequeue_groups, EngineStates, SameCounters, Without
<1>4. \A id \in RoomIds :
         /\ f.group_rooms[id] \in Groups \cup {NoGroup}
         /\ Live(f, id) <=> Live(e, id)
         /\ Live(e, id) => /\ members(f, id) = members(e, id)
                           /\ f.group_rooms[id].in_queue
                                <=> id \notin ids /\ e.group_rooms[id].in_queue
  <2> TAKE id \in RoomIds
  <2>1. e.group_rooms[id] \in Groups \cup {NoGroup}
    BY <1>1 DEF EngineStates
  <2>2. Live(e, id) => e.group_rooms[id] \in Groups
    BY <2>1 DEF Live
  <2>3. Live(e, id) => [e.group_rooms[id] EXCEPT !.in_queue = FALSE] \in Groups
    BY <2>2 DEF Groups
  <2>4. CASE id \in ids /\ Live(e, id)
    <3>1. f.group_rooms[id] = [e.group_rooms[id] EXCEPT !.in_queue = FALSE]
      BY <1>3, <2>4
    <3>2. /\ f.group_rooms[id].participants = e.group_rooms[id].participants
          /\ f.group_rooms[id].in_queue = FALSE
      BY <2>2, <2>4, <3>1 DEF Groups
    <3> QED BY <2>3, <2>4, <3>1, <3>2, GroupAssumption DEF Live, members
  <2>5. CASE ~(id \in ids /\ Live(e, id))
    <3>1. f.group_rooms[id] = e.group_rooms[id]
      BY <1>3, <2>5
    <3>2. Live(f, id) <=> Live(e, id)
      BY <3>1 DEF Live
    <3> QED BY <2>1, <2>5, <3>1, <3>2 DEF members
  <2> QED BY <2>4, <2>5
<1>5. f \in EngineStates
  <2>1. f.group_rooms \in [RoomIds -> Groups \cup {NoGroup}]
    BY <1>3, <1>4
  <2> QED BY <1>1, <1>2, <1>3, <2>1 DEF dequeue_groups, EngineStates, Entries, EntryList, Without
<1>6. f = dequeue_groups(e, ids)
  OBVIOUS
<1> HIDE DEF f, Q
<1>7. WellFormed(f)
  BY <1>1, <1>2, <1>3, <1>4, <1>5 DEF WellFormed, Finite, EntryList
<1>8. FreshIds(f)
  <2>1. \A id : Allocated(e, id) => Allocated(f, id)
    BY <1>3 DEF Allocated, SameCounters
  <2>2. \A w \in Q : \E v \in e.waiting_groups : v.id = w.id
    BY <1>2 DEF Queued, IdsOf
  <2> QED BY <1>1, <1>3, <1>4, <2>1, <2>2 DEF Sound, FreshIds
<1>9. Seated(f) /\ Populated(f)
  <2>1. \A s \in Sockets : e.group_room_of_socket[s] # NoRoom
                                => e.group_room_of_socket[s] \in RoomIds
    BY <1>1 DEF EngineStates
  <2>2. Seated(f)
    BY <1>1, <1>3, <1>4, <2>1 DEF Sound, Seated
  <2>3. Populated(f)
    BY <1>1, <1>4 DEF Sound, Populated
  <2> QED BY <2>2, <2>3
<1>10. QueueAgrees(f)
  <2>1. Queued(f) = Queued(e) \ ids
    BY <1>2, <1>3 DEF Queued, IdsOf
  <2>2. \A w \in Q : w.id \in RoomIds
    BY <1>2 DEF Entries, EntryList
  <2> QED BY <1>1, <1>2, <1>3, <1>4, <2>1, <2>2 DEF Sound, QueueAgrees, ListedOnce
<1> QED BY <1>3, <1>4, <1>6, <1>7, <1>8, <1>9, <1>10 DEF Good, Sound

LEMMA RemoveFromQueueGood ==
    ASSUME NEW e, Good(e), NEW s
    PROVE  Good(remove_from_queue(e, s)) /\ SameCounters(e, remove_from_queue(e, s))
BY DropWaitingGood, DequeueGood DEF remove_from_queue, SameCounters

\* The room `id' ends: every mapping to it goes, and so does its place in the
\* list of waiting rooms.
LEMMA DissolveGood ==
    ASSUME NEW e, Good(e), NEW id \in RoomIds, NEW S, NEW f \in EngineStates,
           \A s \in Sockets : e.group_room_of_socket[s] = id => s \in S,
           f.group_rooms = [e.group_rooms EXCEPT ![id] = NoGroup],
           f.group_room_of_socket = Clear(e.group_room_of_socket, S, NoRoom),
           f.waiting_groups = Compact(Without(e.waiting_groups, {id})),
           f.waiting_peers = e.waiting_peers, SameCounters(e, f)
    PROVE  Good(f)
<1> DEFINE Q == Compact(Without(e.waiting_groups, {id}))
<1>1. e \in EngineStates /\ IsFiniteSet(e.waiting_peers) /\ Finite(e) /\ Sound(e)
  BY DEF Good, WellFormed, Finite
<1>2. EntryList(Q) /\ IdsOf(Q) = Queued(e) \ {id} /\ ListedOnce(e, Q)
  BY ShorterQueue
<1>3. f.waiting_groups = Q
  OBVIOUS
<1> HIDE DEF Q
<1>4. \A r \in RoomIds :
         /\ Live(f, r) <=> r # id /\ Live(e, r)
         /\ Live(f, r) => f.group_rooms[r] = e.group_rooms[r]
  BY <1>1 DEF EngineStates, Live
<1>5. WellFormed(f)
  BY <1>1, <1>2, <1>3, <1>4 DEF WellFormed, Finite, EntryList, members
<1>6. FreshIds(f)
  <2>1. \A r : Allocated(e, r) => Allocated(f, r)
    BY DEF Allocated, SameCounters
  <2>2. \A w \in Q : \E v \in e.waiting_groups : v.id = w.id
    BY <1>2 DEF Queued, IdsOf
  <2> QED BY <1>1, <1>3, <1>4, <2>1, <2>2 DEF Sound, FreshIds
<1>7. Seated(f)
  <2> SUFFICES ASSUME NEW s \in Sockets, f.group_room_of_socket[s] # NoRoom
               PROVE  /\ Live(f, f.group_room_of_socket[s])
                      /\ s \in SocketsOf(members(f, f.group_room_of_socket[s]))
    BY DEF Seated
  <2>1. /\ f.group_room_of_socket[s] = e.group_room_of_socket[s] /\ s \notin S
        /\ e.group_room_of_socket[s] \in RoomIds
    BY <1>1 DEF Clear, EngineStates
  <2>2. e.group_room_of_socket[s] # id
    BY <2>1
  <2> QED BY <1>1, <1>4, <2>1, <2>2 DEF Sound, Seated, members
<1>8. Populated(f)
  BY <1>1, <1>4 DEF Sound, Populated, members
<1>9. QueueAgrees(f)
  <2>1. Queued(f) = Queued(e) \ {id}
    BY <1>2, <1>3 DEF Queued, IdsOf
  <2>2. \A w \in Q : w.id \in RoomIds
    BY <1>2 DEF Entries, EntryList
  <2> QED BY <1>1, <1>2, <1>3, <1>4, <2>1, <2>2 DEF Sound, QueueAgrees, ListedOnce
<1> QED BY <1>5, <1>6, <1>7, <1>8, <1>9 DEF Good, Sound

\* From e to f everybody who is mapped to the room id has a seat in its new
\* member list Q, and no other mapping is added.
KeepsSeats(e, f, id, Q) ==
    \A s \in Sockets :
        \/ /\ f.group_room_of_socket[s] = e.group_room_of_socket[s]
           /\ e.group_room_of_socket[s] = id => s \in SocketsOf(Q)
        \/ f.group_room_of_socket[s] = id /\ s \in SocketsOf(Q)
        \/ f.group_room_of_socket[s] = NoRoom

\* The members of one room change; nobody mapped to it loses the seat.
LEMMA ReseatGood ==
    ASSUME NEW e, Good(e), NEW id \in RoomIds, Live(e, id), NEW g \in Groups,
           g.in_queue = e.group_rooms[id].in_queue,
           IsFiniteSet(g.participants), g.participants # {}, OneEach(g.participants),
           NEW f \in EngineStates,
           f.group_rooms = [e.group_rooms EXCEPT ![id] = g],
           KeepsSeats(e, f, id, g.participants),
           f.waiting_groups = e.waiting_groups, f.waiting_peers = e.waiting_peers,
           SameCounters(e, f)
    PROVE  Good(f)
<1>1. e \in EngineStates /\ IsFiniteSet(e.waiting_peers) /\ Finite(e) /\ Sound(e)
  BY DEF Good, WellFormed, Finite
<1>2. g # NoGroup
  BY GroupAssumption
<1>3. /\ \A r \in RoomIds : Live(f, r) <=> Live(e, r)
      /\ \A r \in RoomIds : r # id => f.group_rooms[r] = e.group_rooms[r]
      /\ f.group_rooms[id] = g
  BY <1>1, <1>2 DEF EngineStates, Live
<1>4. WellFormed(f)
  BY <1>1, <1>3 DEF WellFormed, Finite, members
<1>5. FreshIds(f)
  <2>1. \A r : Allocated(e, r) => Allocated(f, r)
    BY DEF Allocated, SameCounters
  <2> QED BY <1>1, <1>3, <2>1 DEF Sound, FreshIds
<1>6. Seated(f)
  <2>1. \A s \in Sockets : e.group_room_of_socket[s] # NoRoom
                                => e.group_room_of_socket[s] \in RoomIds
    BY <1>1 DEF EngineStates
  <2> QED BY <1>1, <1>3, <2>1 DEF Sound, Seated, members, KeepsSeats
<1>7. Populated(f)
  BY <1>1, <1>3 DEF Sound, Populated, members
<1>8. QueueAgrees(f)
  <2>1. Queued(f) = Queued(e)
    BY DEF Queued
  <2>2. \A w \in f.waiting_groups : w.id \in RoomIds
    BY DEF EngineStates
  <2> QED BY <1>1, <1>3, <2>1, <2>2 DEF Sound, QueueAgrees, ListedOnce
<1> QED BY <1>4, <1>5, <1>6, <1>7, <1>8 DEF Good, Sound

LEMMA LeaveGroupGood ==
    ASSUME NEW e, Good(e), NEW s \in Sockets
    PROVE  Good(leave_group(e, s)) /\ SameCounters(e, leave_group(e, s))
<1> DEFINE id       == e.group_room_of_socket[s]
           unmapped == [e EXCEPT !.group_room_of_socket[s] = NoRoom]
           g        == e.group_rooms[id]
           rest     == {p \in g.participants : p.socket # s}
           heir     == FirstOf(rest)
           shrunk   == [g EXCEPT !.participants = Compact(rest)]
           degraded == IF g.matched /\ g.host = s
                       THEN [shrunk EXCEPT !.host = heir.socket,
                                           !.host_user = heir.user]
                       ELSE shrunk
           ended    == [e EXCEPT
               !.group_room_of_socket = Clear([@ EXCEPT ![s] = NoRoom],
                                              SocketsOf(rest), NoRoom),
               !.group_rooms[id] = NoGroup,
               !.waiting_groups = Compact(Without(@, {id}))]
           reduced  == [unmapped EXCEPT !.group_rooms[id] = degraded]
<1>1. e \in EngineStates /\ Finite(e) /\ Sound(e)
  BY DEF Good, WellFormed
<1>2. CASE id = NoRoom
  BY <1>2 DEF leave_group, SameCounters
<1>3. CASE id # NoRoom
  <2>1. id \in RoomIds /\ Live(e, id) /\ s \in SocketsOf(members(e, id))
    BY <1>1, <1>3 DEF Sound, Seated, EngineStates
  <2>2. g \in Groups /\ IsFiniteSet(g.participants) /\ OneEach(g.participants)
    BY <1>1, <2>1 DEF EngineStates, Live, Finite, members, Sound, Populated
  <2>3. rest \subseteq Peers /\ IsFiniteSet(rest) /\ OneEach(rest)
    BY <2>2, FS_Subset DEF Groups, OneEach
  <2>4. \A t \in Sockets : e.group_room_of_socket[t] = id => t = s \/ t \in SocketsOf(rest)
    <3> SUFFICES ASSUME NEW t \in Sockets, e.group_room_of_socket[t] = id, t # s
                 PROVE  t \in SocketsOf(rest)
      OBVIOUS
    <3>1. t \in SocketsOf(members(e, id))
      BY <1>1, <1>3 DEF Sound, Seated
    <3>2. PICK p \in g.participants : p.socket = t
      BY <3>1 DEF SocketsOf, members
    <3>3. p \in rest
      BY SMTT(30), <3>2
    <3> QED BY <3>2, <3>3 DEF SocketsOf
  <2>5. \/ leave_group(e, s) = Tell(ended, SocketsOf(rest), "room:peer-left")
        \/ leave_group(e, s) = reduced /\ rest # {}
    BY <1>1, <1>3, <2>1 DEF leave_group, dissolve, Without, EngineStates
  <2>6. Good(ended) /\ SameCounters(e, ended)
    <3>1. EntryList(Compact(Without(e.waiting_groups, {id})))
      BY SMTT(30), ShorterQueue
    <3>2. ended \in EngineStates
      BY <1>1, <2>1, <3>1 DEF EngineStates, Clear, EntryList, Entries
    <3>3. ended.group_room_of_socket
            = Clear(e.group_room_of_socket, SocketsOf(rest) \cup {s}, NoRoom)
      BY <1>1 DEF EngineStates, Clear
    <3>4. /\ ended.group_rooms = [e.group_rooms EXCEPT ![id] = NoGroup]
          /\ ended.waiting_groups = Compact(Without(e.waiting_groups, {id}))
          /\ ended.waiting_peers = e.waiting_peers /\ SameCounters(e, ended)
      BY <1>1 DEF EngineStates, SameCounters
    <3> HIDE DEF ended, rest, id
    <3>5. \A t \in Sockets : e.group_room_of_socket[t] = id => t \in SocketsOf(rest) \cup {s}
      BY <2>4
    <3> QED BY <2>1, <3>2, <3>3, <3>4, <3>5, DissolveGood
  <2>7. ASSUME rest # {}
        PROVE  Good(reduced) /\ SameCounters(e, reduced)
    <3>1. /\ Compact(rest) \subseteq Peers /\ IsFiniteSet(Compact(rest))
          /\ SocketsOf(Compact(rest)) = SocketsOf(rest)
          /\ Compact(rest) # {} /\ OneEach(Compact(rest))
      BY <2>3, <2>7, CompactPeers
    <3>2. heir \in rest
      BY SMTT(30), <2>3, <2>7, FirstIsMember DEF Peers
    <3>3. shrunk \in Groups /\ shrunk.participants = Compact(rest)
          /\ shrunk.in_queue = g.in_queue
      BY SMTT(30), <2>2, <3>1 DEF Groups
    <3>4. degraded \in Groups /\ degraded.participants = Compact(rest)
          /\ degraded.in_queue = g.in_queue
      BY ZenonT(40), <2>3, <3>2, <3>3 DEF Groups, Peers
    <3>5. reduced \in EngineStates
      BY ZenonT(40), <1>1, <2>1, <3>4 DEF EngineStates
    <3>6. /\ reduced.group_rooms = [e.group_rooms EXCEPT ![id] = degraded]
          /\ reduced.group_room_of_socket = [e.group_room_of_socket EXCEPT ![s] = NoRoom]
          /\ reduced.waiting_groups = e.waiting_groups
          /\ reduced.waiting_peers = e.waiting_peers /\ SameCounters(e, reduced)
      BY <1>1 DEF EngineStates, SameCounters
    <3>7. KeepsSeats(e, reduced, id, degraded.participants)
      BY <1>1, <2>4, <3>1, <3>4, <3>6 DEF EngineStates, KeepsSeats
    <3>8. degraded.in_queue = e.group_rooms[id].in_queue
      BY <3>4
    <3> HIDE DEF reduced, degraded, id
    <3>9. Good(reduced)
      BY <2>1, <3>1, <3>4, <3>5, <3>6, <3>7, <3>8, ReseatGood
    <3> QED BY <3>6, <3>9
  <2>8. \/ leave_group(e, s) = Tell(ended, SocketsOf(rest), "room:peer-left")
        \/ leave_group(e, s) = reduced /\ Good(reduced) /\ SameCounters(e, reduced)
    <3> HIDE DEF reduced, ended, rest
    <3> QED BY <2>5, <2>7
  <2> HIDE DEF reduced, ended, rest
  <2> QED BY <2>6, <2>8, TellGood DEF Frames, SameCounters
<1> QED BY <1>2, <1>3

LEMMA FullRemoveGood ==
    ASSUME NEW e, Good(e), NEW s \in Sockets
    PROVE  Good(full_remove(e, s)) /\ SameCounters(e, full_remove(e, s))
<1> DEFINE a == remove_from_queue(e, s)
           b == leave_group(a, s)
           c == leave_room(b, s, TRUE)
<1>1. Good(a) /\ SameCounters(e, a)
  BY RemoveFromQueueGood
<1> HIDE DEF a
<1>2. Good(b) /\ SameCounters(a, b)
  BY <1>1, LeaveGroupGood
<1> HIDE DEF b
<1>3. Good(c) /\ SameCounters(b, c)
  BY <1>2, LeaveRoomGood
<1> QED BY <1>1, <1>2, <1>3 DEF full_remove, SameCounters, a, b

-----------------------------------------------------------------------------
(* Waiting, and assembling a group match. *)

\* A list with one more entry.
LEMMA LongerQueue ==
    ASSUME NEW Q, EntryList(Q), NEW id \in RoomIds
    PROVE  LET w == [at |-> NextAt(Q), id |-> id]
           IN  EntryList(Q \cup {w}) /\ IdsOf(Q \cup {w}) = IdsOf(Q) \cup {id}
<1> DEFINE w == [at |-> NextAt(Q), id |-> id]
<1>1. w \in Entries
  BY NextAtType DEF Entries, EntryList
<1>2. w.id = id
  OBVIOUS
<1> HIDE DEF w
<1>3. IsFiniteSet(Q \cup {w})
  BY FS_AddElement DEF EntryList
<1>4. IdsOf(Q \cup {w}) = IdsOf(Q) \cup {id}
  BY <1>2 DEF IdsOf
<1> QED BY <1>1, <1>3, <1>4 DEF EntryList, w

LEMMA EnqueueGood ==
    ASSUME NEW e, Good(e), NEW id \in RoomIds, Allocated(e, id),
           Live(e, id) => ~e.group_rooms[id].in_queue
    PROVE  Good(enqueue_group(e, id)) /\ SameCounters(e, enqueue_group(e, id))
<1> DEFINE w == [at |-> NextAt(e.waiting_groups), id |-> id]
           pushed == [e EXCEPT !.waiting_groups = @ \cup {w}]
           flagged == [pushed EXCEPT !.group_rooms[id].in_queue = TRUE]
           f == IF Live(e, id) THEN flagged ELSE pushed
<1>1. e \in EngineStates /\ Finite(e) /\ Sound(e)
  BY DEF Good, WellFormed
<1>2. EntryList(e.waiting_groups)
  BY <1>1 DEF EngineStates, Finite, EntryList, Entries
<1>3. /\ EntryList(e.waiting_groups \cup {w})
      /\ IdsOf(e.waiting_groups \cup {w}) = IdsOf(e.waiting_groups) \cup {id}
  BY <1>2, LongerQueue
<1>4. /\ f.waiting_groups = e.waiting_groups \cup {w}
      /\ f.waiting_peers = e.waiting_peers /\ SameCounters(e, f)
      /\ f.group_room_of_socket = e.group_room_of_socket
      /\ f.group_rooms = IF Live(e, id)
                         THEN [e.group_rooms EXCEPT ![id].in_queue = TRUE]
                         ELSE e.group_rooms
  BY <1>1 DEF EngineStates, SameCounters
<1>5. w.id = id
  OBVIOUS
<1>6. \A r \in RoomIds :
         /\ f.group_rooms[r] \in Groups \cup {NoGroup}
         /\ Live(f, r) <=> Live(e, r)
         /\ Live(e, r) => /\ members(f, r) = members(e, r)
                          /\ f.group_rooms[r].in_queue
                               <=> r = id \/ e.group_rooms[r].in_queue
  <2> TAKE r \in RoomIds
  <2>1. e.group_rooms[r] \in Groups \cup {NoGroup}
    BY <1>1 DEF EngineStates
  <2>2. Live(e, r) => /\ e.group_rooms[r] \in Groups
                      /\ [e.group_rooms[r] EXCEPT !.in_queue = TRUE] \in Groups
    BY <2>1 DEF Live, Groups
  <2> QED BY <1>1, <1>4, <2>1, <2>2, GroupAssumption
          DEF Live, members, Groups, EngineStates
<1>7. f \in EngineStates
  <2>1. f.group_rooms \in [RoomIds -> Groups \cup {NoGroup}]
    BY <1>1, <1>4, <1>6 DEF EngineStates
  <2> HIDE DEF w
  <2> QED BY <1>1, <1>3, <1>4, <2>1 DEF EngineStates, Entries, EntryList
<1>8. \/ enqueue_group(e, id) = f
      \/ enqueue_group(e, id) = Tell(f, SocketsOf(members(e, id)), "queue:waiting")
  <2>1. CASE Live(e, id)
    <3>1. members(pushed, id) = members(e, id)
      BY <1>1 DEF members, EngineStates
    <3> QED BY <2>1, <3>1 DEF enqueue_group, members
  <2>2. CASE ~Live(e, id)
    BY <2>2 DEF enqueue_group
  <2> QED BY <2>1, <2>2
<1> HIDE DEF f, w
<1>9. WellFormed(f)
  BY <1>1, <1>3, <1>4, <1>6, <1>7 DEF WellFormed, Finite, EntryList
<1>10. FreshIds(f)
  <2>1. \A r : Allocated(e, r) => Allocated(f, r)
    BY <1>4 DEF Allocated, SameCounters
  <2> QED BY <1>1, <1>4, <1>5, <1>6, <2>1 DEF Sound, FreshIds
<1>11. Seated(f)
  <2>1. \A s \in Sockets : e.group_room_of_socket[s] # NoRoom
                                => e.group_room_of_socket[s] \in RoomIds
    BY <1>1 DEF EngineStates
  <2> QED BY <1>1, <1>4, <1>6, <2>1 DEF Sound, Seated
<1>12. Populated(f)
  BY <1>1, <1>6 DEF Sound, Populated
<1>13. QueueAgrees(f)
  <2>1. Queued(f) = Queued(e) \cup {id}
    BY <1>3, <1>4 DEF Queued, IdsOf
  <2>2. \A v \in e.waiting_groups : v.id \in RoomIds
    BY <1>1 DEF EngineStates
  <2>3. Live(e, id) => id \notin Queued(e)
    BY <1>1 DEF Sound, QueueAgrees
  <2>4. \A v \in e.waiting_groups : v.id \in Queued(e)
    BY DEF Queued
  <2>5. ListedOnce(f, f.waiting_groups)
    BY <1>1, <1>4, <1>5, <1>6, <2>2, <2>3, <2>4 DEF Sound, QueueAgrees, ListedOnce
  <2>6. \A r \in RoomIds :
           Live(f, r) => (f.group_rooms[r].in_queue <=> r \in Queued(f))
    BY <1>1, <1>6, <2>1 DEF Sound, QueueAgrees
  <2> QED BY <2>5, <2>6 DEF QueueAgrees
<1>14. Good(f)
  BY <1>9, <1>10, <1>11, <1>12, <1>13 DEF Good, Sound
<1> QED BY <1>4, <1>8, <1>14, TellGood DEF Frames, SameCounters

\* A list of distinct people.
People(Q) == Q \subseteq Peers /\ IsFiniteSet(Q) /\ OneEach(Q)

\* The seats of a merged room: one for each member of the two sides.
LEMMA LineupIsPeople ==
    ASSUME NEW A, NEW B, People(A), People(B),
           \A a \in A, b \in B : a.socket # b.socket
    PROVE  People(lineup(A, B))
<1> DEFINE Seat(p, at) == [p EXCEPT
               !.at = at, !.session = NoSession,
               !.user = IF p.user = NoUser THEN GuestId ELSE p.user]
           f == [p \in A |-> Seat(p, Rank(p, A))]
           g == [p \in B |-> Seat(p, Cardinality(A) + Rank(p, B))]
<1>1. lineup(A, B) = {f[p] : p \in A} \cup {g[p] : p \in B}
  BY DEF lineup
<1>2. \A p \in Peers, n \in Nat : Seat(p, n) \in Peers /\ Seat(p, n).socket = p.socket
  BY DEF Peers, UserIds, Sessions
<1>3. Cardinality(A) \in Nat /\ \A p : Rank(p, A) \in Nat /\ Rank(p, B) \in Nat
  BY FS_CardinalityType, RankType DEF People
<1>4. /\ \A p \in A : f[p] \in Peers /\ f[p].socket = p.socket
      /\ \A p \in B : g[p] \in Peers /\ g[p].socket = p.socket
  <2> HIDE DEF Seat
  <2>1. \A p \in B : Cardinality(A) + Rank(p, B) \in Nat
    BY <1>3
  <2> QED BY <1>2, <1>3, <2>1 DEF People
<1>5. f = [p \in A |-> f[p]] /\ DOMAIN f = A /\ g = [p \in B |-> g[p]] /\ DOMAIN g = B
  OBVIOUS
<1> HIDE DEF f, g
<1>6. IsFiniteSet({f[p] : p \in A}) /\ IsFiniteSet({g[p] : p \in B})
  BY <1>5, FiniteRange DEF People
<1>7. IsFiniteSet(lineup(A, B))
  BY ZenonT(40), <1>1, <1>6, FS_Union
<1>8. lineup(A, B) \subseteq Peers
  BY <1>1, <1>4
<1>9. OneEach(lineup(A, B))
  BY <1>1, <1>4 DEF OneEach, People
<1> QED BY <1>7, <1>8, <1>9 DEF People

\* From e to f everybody in `people' moves to the fresh room `new', described by
\* g; Stay[id] are those who keep their seats in an old room, the rooms in
\* Emptied disappear, and Q is the list of waiting rooms without them.
Merges(e, f, new, people, g, Stay, Emptied, Q) ==
    /\ new = <<"room", e.room_seq + 1>> /\ e.room_seq < MaxRooms
    /\ People(people) /\ people # {}
    /\ g \in Groups /\ g.participants = people
    /\ Emptied \in SUBSET RoomIds
    /\ \A id \in RoomIds : Live(e, id) => Stay[id] =
          {p \in members(e, id) :
              ~(p.socket \in SocketsOf(people) /\ e.group_room_of_socket[p.socket] = id)}
    /\ \A id \in RoomIds : id \in Emptied <=> Live(e, id) /\ Stay[id] = {}
    /\ Q = Compact(Without(e.waiting_groups, Emptied))
    /\ f \in EngineStates /\ f.room_seq = e.room_seq + 1
    /\ f.group_room_seq = e.group_room_seq /\ f.waiting_peers = e.waiting_peers
    /\ f.waiting_groups = IF g.in_queue
                          THEN Q \cup {[at |-> NextAt(Q), id |-> new]} ELSE Q
    /\ f.group_room_of_socket = [s \in Sockets |->
          IF s \in SocketsOf(people) THEN new ELSE e.group_room_of_socket[s]]
    /\ \A id \in RoomIds : f.group_rooms[id] =
          IF id = new THEN g
          ELSE IF Live(e, id) /\ id \notin Emptied
          THEN [e.group_rooms[id] EXCEPT !.participants = Compact(Stay[id])]
          ELSE NoGroup

LEMMA MergedGood ==
    ASSUME NEW e, Good(e), NEW f, NEW new, NEW people, NEW g, NEW Stay, NEW Emptied,
           NEW Q, Merges(e, f, new, people, g, Stay, Emptied, Q)
    PROVE  Good(f)
<1> DEFINE listed == g.in_queue
<1> USE DEF Merges
<1>1. e \in EngineStates /\ Finite(e) /\ Sound(e)
  BY DEF Good, WellFormed
<1>2. e.room_seq \in Nat /\ e.group_room_seq \in Nat /\ e.room_seq + 1 \in 1..MaxRooms
  BY <1>1, MaxRoomsAssumption DEF EngineStates
<1>3. new \in RoomIds /\ ~Allocated(e, new)
  BY <1>2 DEF RoomIds, Allocated
<1>4. ~Live(e, new) /\ new \notin Queued(e)
  BY <1>1, <1>3 DEF Sound, FreshIds, Queued
<1>5. \A id \in RoomIds : Live(e, id) =>
         /\ e.group_rooms[id] \in Groups
         /\ Stay[id] \subseteq Peers /\ IsFiniteSet(Stay[id]) /\ OneEach(Stay[id])
  <2> TAKE id \in RoomIds
  <2> HAVE Live(e, id)
  <2>1. e.group_rooms[id] \in Groups
    BY <1>1 DEF EngineStates, Live
  <2>2. members(e, id) \subseteq Peers /\ IsFiniteSet(members(e, id)) /\ OneEach(members(e, id))
    BY <1>1, <2>1 DEF Groups, members, Finite, Sound, Populated
  <2>3. Stay[id] \subseteq members(e, id)
    OBVIOUS
  <2>4. IsFiniteSet(Stay[id])
    BY <2>2, <2>3, FS_Subset
  <2> QED BY <2>1, <2>2, <2>3, <2>4 DEF OneEach
<1>6. \A id \in RoomIds : Live(e, id) /\ id \notin Emptied =>
         /\ Live(f, id) /\ id # new
         /\ f.group_rooms[id].in_queue = e.group_rooms[id].in_queue
         /\ members(f, id) = Compact(Stay[id])
         /\ IsFiniteSet(members(f, id)) /\ members(f, id) # {} /\ OneEach(members(f, id))
         /\ SocketsOf(members(f, id)) = SocketsOf(Stay[id])
  <2> TAKE id \in RoomIds
  <2> HAVE Live(e, id) /\ id \notin Emptied
  <2>1. id # new
    BY <1>4
  <2>2. f.group_rooms[id] = [e.group_rooms[id] EXCEPT !.participants = Compact(Stay[id])]
    BY <2>1
  <2>3. /\ f.group_rooms[id].in_queue = e.group_rooms[id].in_queue
        /\ f.group_rooms[id].participants = Compact(Stay[id])
    BY <1>5, <2>2 DEF Groups
  <2>4. /\ Compact(Stay[id]) \subseteq Peers /\ IsFiniteSet(Compact(Stay[id]))
        /\ SocketsOf(Compact(Stay[id])) = SocketsOf(Stay[id])
        /\ Compact(Stay[id]) # {} /\ OneEach(Compact(Stay[id]))
    BY <1>5, CompactPeers
  <2>5. [e.group_rooms[id] EXCEPT !.participants = Compact(Stay[id])] \in Groups
    BY <1>5, <2>4 DEF Groups
  <2> QED BY <2>1, <2>2, <2>3, <2>4, <2>5, GroupAssumption DEF Live, members
<1>7. /\ Live(f, new) /\ members(f, new) = people
      /\ f.group_rooms[new].in_queue = listed
  BY <1>3, GroupAssumption DEF Live, members
<1>8. \A id \in RoomIds :
         Live(f, id) <=> id = new \/ (Live(e, id) /\ id \notin Emptied)
  BY <1>6, <1>7 DEF Live
<1>9. EntryList(Q) /\ IdsOf(Q) = Queued(e) \ Emptied /\ ListedOnce(e, Q)
  <2>1. Q = Compact(Without(e.waiting_groups, Emptied))
    OBVIOUS
  <2> QED BY ONLY ShorterQueue, Good(e), <2>1
<1>10. /\ EntryList(f.waiting_groups)
       /\ IdsOf(f.waiting_groups)
            = (Queued(e) \ Emptied) \cup (IF listed THEN {new} ELSE {})
  <2>1. LET w == [at |-> NextAt(Q), id |-> new]
        IN  EntryList(Q \cup {w}) /\ IdsOf(Q \cup {w}) = IdsOf(Q) \cup {new}
    BY <1>3, <1>9, LongerQueue
  <2> QED BY <1>9, <2>1
<1>11. WellFormed(f)
  BY <1>6, <1>7, <1>8, <1>10, <1>1 DEF WellFormed, Finite, EntryList, People
<1>12. FreshIds(f)
  <2>1. \A id \in RoomIds : Allocated(e, id) => Allocated(f, id)
    BY <1>2 DEF Allocated, RoomIds
  <2>2. Allocated(f, new)
    BY <1>2 DEF Allocated
  <2>3. \A w \in f.waiting_groups : w.id \in RoomIds /\ (w.id = new \/ w.id \in Queued(e))
    BY <1>10 DEF IdsOf, EntryList, Entries
  <2>4. \A id \in Queued(e) : Allocated(e, id)
    BY <1>1 DEF Sound, FreshIds, Queued
  <2> QED BY <1>1, <1>8, <2>1, <2>2, <2>3, <2>4 DEF Sound, FreshIds
<1>13. Seated(f)
  <2> SUFFICES ASSUME NEW s \in Sockets, f.group_room_of_socket[s] # NoRoom
               PROVE  /\ Live(f, f.group_room_of_socket[s])
                      /\ s \in SocketsOf(members(f, f.group_room_of_socket[s]))
    BY DEF Seated
  <2>1. CASE s \in SocketsOf(people)
    BY <1>7, <2>1
  <2>2. CASE s \notin SocketsOf(people)
    <3> DEFINE id == e.group_room_of_socket[s]
    <3>1. f.group_room_of_socket[s] = id
      BY <2>2
    <3>2. id \in RoomIds /\ Live(e, id) /\ s \in SocketsOf(members(e, id))
      BY <1>1, <3>1 DEF EngineStates, Sound, Seated
    <3>3. PICK p \in members(e, id) : p.socket = s
      BY <3>2 DEF SocketsOf
    <3>4. p \in Stay[id]
      BY <2>2, <3>2, <3>3
    <3>5. id \notin Emptied
      BY <3>2, <3>4
    <3>6. s \in SocketsOf(Stay[id])
      BY <3>3, <3>4 DEF SocketsOf
    <3> QED BY <1>6, <3>1, <3>2, <3>5, <3>6
  <2> QED BY <2>1, <2>2
<1>14. Populated(f)
  BY <1>6, <1>7, <1>8 DEF Populated, People
<1>15. QueueAgrees(f)
  <2>1. Queued(f) = (Queued(e) \ Emptied) \cup (IF listed THEN {new} ELSE {})
    BY <1>10 DEF Queued, IdsOf
  <2>2. \A id \in RoomIds :
           Live(f, id) => (f.group_rooms[id].in_queue <=> id \in Queued(f))
    BY <1>1, <1>4, <1>6, <1>7, <1>8, <2>1 DEF Sound, QueueAgrees
  <2>3. ListedOnce(f, f.waiting_groups)
    <3>1. \A w \in Q : w.id \in Queued(e) /\ w.id \in RoomIds /\ w.id # new
      BY <1>4, <1>9 DEF IdsOf, EntryList, Entries
    <3>2. \A v, w \in Q : Live(f, v.id) /\ v.id = w.id => v = w
      BY <1>8, <1>9, <3>1 DEF ListedOnce
    <3>3. \A v \in f.waiting_groups : v \in Q \/ v = [at |-> NextAt(Q), id |-> new]
      OBVIOUS
    <3>4. [at |-> NextAt(Q), id |-> new].id = new
      OBVIOUS
    <3> DEFINE fresh == [at |-> NextAt(Q), id |-> new]
    <3> HIDE DEF fresh
    <3>5. /\ \A v \in f.waiting_groups : v \in Q \/ v = fresh
          /\ fresh.id = new
      BY <3>3, <3>4 DEF fresh
    <3> QED BY <3>1, <3>2, <3>5 DEF ListedOnce
  <2> QED BY <2>2, <2>3 DEF QueueAgrees
<1> QED BY <1>11, <1>12, <1>13, <1>14, <1>15 DEF Good, Sound

\* notify_group_match never hands out a counter twice and keeps Good.
LEMMA NotifyGood ==
    ASSUME NEW e, Good(e), e.room_seq < MaxRooms, NEW A, NEW B, People(A), People(B),
           \A a \in A, b \in B : a.socket # b.socket,
           NEW from \in RoomIds \cup {NoRoom}
    PROVE  /\ Good(notify_group_match(e, A, B, from))
           /\ Later(e, notify_group_match(e, A, B, from))
<1> DEFINE people == lineup({p \in A : p.socket \in hub}, {p \in B : p.socket \in hub})
           moved  == SocketsOf(people)
           new    == <<"room", e.room_seq + 1>>
           Stays(id) == {p \in members(e, id) :
               ~(p.socket \in moved /\ e.group_room_of_socket[p.socket] = id)}
           Emptied == {id \in RoomIds : Live(e, id) /\ Stays(id) = {}}
           first  == FirstOf(people)
           keep   == from # NoRoom /\ Live(e, from) /\ Stays(from) # {}
           g == [host |-> first.socket, host_user |-> first.user,
                 scope |-> IF keep THEN e.group_rooms[from].scope ELSE "all",
                 prefs |-> IF keep THEN e.group_rooms[from].prefs ELSE first.prefs,
                 participants |-> people, in_queue |-> from # NoRoom, matched |-> TRUE]
           Q == Compact(Without(e.waiting_groups, Emptied))
           f == [e EXCEPT
               !.room_seq = @ + 1,
               !.group_rooms = [id \in RoomIds |->
                   CASE id = new -> g
                     [] id # new /\ id \in Emptied -> NoGroup
                     [] id # new /\ id \notin Emptied /\ Live(e, id) ->
                           [e.group_rooms[id] EXCEPT !.participants = Compact(Stays(id))]
                     [] OTHER -> NoGroup],
               !.group_room_of_socket = [s \in Sockets |->
                   IF s \in moved THEN new ELSE e.group_room_of_socket[s]],
               !.partners = Clear(@, stale_pairs(e, people).partners, NoSocket),
               !.rooms_by_socket = Clear(@, stale_pairs(e, people).rooms, NoPair),
               !.waiting_groups = IF from # NoRoom
                   THEN Q \cup {[at |-> NextAt(Q), id |-> new]} ELSE Q]
           frame == IF from # NoRoom THEN "queue:waiting" ELSE "group-match:matched"
<1>1. e \in EngineStates /\ Finite(e) /\ Sound(e)
  BY DEF Good, WellFormed
<1>2. People(people)
  <2> DEFINE AA == {p \in A : p.socket \in hub}
             BB == {p \in B : p.socket \in hub}
  <2>1. People(AA) /\ People(BB)
    BY FS_Subset DEF People, OneEach
  <2>2. \A a \in AA, b \in BB : a.socket # b.socket
    OBVIOUS
  <2> HIDE DEF AA, BB
  <2>3. People(lineup(AA, BB))
    BY <2>1, <2>2, LineupIsPeople
  <2> QED BY <2>3 DEF AA, BB
<1>3. notify_group_match(e, A, B, from)
        = IF Cardinality(people) < 2 THEN e ELSE Tell(f, moved, frame)
  BY DEF notify_group_match, Without
<1>4. frame \in Frames
  BY DEF Frames
<1>5. ASSUME ~(Cardinality(people) < 2)
      PROVE  Good(f) /\ Later(e, f)
  <2> DEFINE Stay == [id \in RoomIds |-> Stays(id)]
  <2>1. people # {}
    <3> HIDE DEF people
    <3> QED BY <1>5, FS_EmptySet
  <2>2. first \in people
    <3> HIDE DEF people
    <3> QED BY <1>2, <2>1, FirstIsMember DEF People, Peers
  <2>3. g \in Groups
    <3>1. keep => e.group_rooms[from] \in Groups
      BY <1>1 DEF Live, EngineStates
    <3> HIDE DEF people, keep
    <3> QED BY <1>2, <2>2, <3>1 DEF People, Peers, Groups, Preferences
  <2>4. /\ \A S : Clear(e.partners, S, NoSocket) \in [Sockets -> Sockets \cup {NoSocket}]
        /\ \A S : Clear(e.rooms_by_socket, S, NoPair) \in [Sockets -> Pairs \cup {NoPair}]
    BY <1>1 DEF EngineStates, Clear
  <2>5. e.room_seq \in Nat /\ e.room_seq + 1 \in 0..MaxRooms /\ new \in RoomIds
    BY <1>1, MaxRoomsAssumption DEF EngineStates, RoomIds
  <2> HIDE DEF people, first, g, keep, Q, new
  <2>6. /\ f.room_seq = e.room_seq + 1 /\ f.group_room_seq = e.group_room_seq
        /\ f.waiting_peers = e.waiting_peers
        /\ f.waiting_groups = IF from # NoRoom THEN Q \cup {[at |-> NextAt(Q), id |-> new]} ELSE Q
        /\ f.group_room_of_socket = [s \in Sockets |->
              IF s \in moved THEN new ELSE e.group_room_of_socket[s]]
        /\ f.group_rooms = [id \in RoomIds |->
              IF id = new THEN g
              ELSE IF Live(e, id) /\ id \notin Emptied
              THEN [e.group_rooms[id] EXCEPT !.participants = Compact(Stays(id))]
              ELSE NoGroup]
    BY <1>1 DEF EngineStates
  <2>7. EntryList(f.waiting_groups)
    <3>1. EntryList(Q)
      <4> HIDE DEF Emptied
      <4> QED BY ShorterQueue DEF Q
    <3>2. LET w == [at |-> NextAt(Q), id |-> new]
          IN  EntryList(Q \cup {w}) /\ IdsOf(Q \cup {w}) = IdsOf(Q) \cup {new}
      BY <2>5, <3>1, LongerQueue
    <3> QED BY <2>6, <3>1, <3>2
  <2>8. f.group_rooms \in [RoomIds -> Groups \cup {NoGroup}]
    <3> SUFFICES ASSUME NEW id \in RoomIds, Live(e, id)
                 PROVE  [e.group_rooms[id] EXCEPT !.participants = Compact(Stays(id))]
                          \in Groups
      BY <2>3, <2>6
    <3>1. e.group_rooms[id] \in Groups
      BY <1>1 DEF EngineStates, Live
    <3>2. Stays(id) \subseteq Peers /\ IsFiniteSet(Stays(id))
      BY <1>1, <3>1, FS_Subset DEF Groups, members, Finite
    <3>3. Compact(Stays(id)) \subseteq Peers
      <4> HIDE DEF Stays
      <4> QED BY SMTT(30), <3>2, CompactPeers
    <3> QED BY <3>1, <3>3 DEF Groups
  <2>9. f \in EngineStates
    BY <1>1, <2>4, <2>5, <2>6, <2>7, <2>8 DEF EngineStates, EntryList, Entries
  <2>10. /\ \A id \in RoomIds : Live(e, id) => Stay[id] =
               {p \in members(e, id) :
                  ~(p.socket \in SocketsOf(people) /\ e.group_room_of_socket[p.socket] = id)}
         /\ \A id \in RoomIds : id \in Emptied <=> Live(e, id) /\ Stay[id] = {}
         /\ \A id \in RoomIds : f.group_rooms[id] =
               IF id = new THEN g
               ELSE IF Live(e, id) /\ id \notin Emptied
               THEN [e.group_rooms[id] EXCEPT !.participants = Compact(Stay[id])]
               ELSE NoGroup
    BY <2>6
  <2>11. /\ g.participants = people /\ g.in_queue = (from # NoRoom)
         /\ Emptied \in SUBSET RoomIds /\ new = <<"room", e.room_seq + 1>>
         /\ Q = Compact(Without(e.waiting_groups, Emptied))
    BY DEF g, Q, new
  <2>12. f.group_room_of_socket = [s \in Sockets |->
              IF s \in SocketsOf(people) THEN new ELSE e.group_room_of_socket[s]]
    BY <2>6
  <2>13. Merges(e, f, new, people, g, Stay, Emptied, Q)
    <3> HIDE DEF f, Stay, Emptied, Stays
    <3> QED BY <1>2, <2>1, <2>3, <2>6, <2>9, <2>10, <2>11, <2>12 DEF Merges
  <2> HIDE DEF f, Stay, Emptied, Stays
  <2>14. Good(f)
    BY <2>13, MergedGood
  <2>15. Later(e, f)
    BY <1>1, <2>6 DEF Later, EngineStates
  <2> QED BY <2>14, <2>15
<1>6. Later(e, e)
  BY <1>1 DEF Later, EngineStates
<1> HIDE DEF people, f, frame
<1>7. ASSUME ~(Cardinality(people) < 2)
      PROVE  Good(Tell(f, moved, frame)) /\ SameCounters(f, Tell(f, moved, frame))
  BY <1>4, <1>5, <1>7, TellGood
<1> QED BY <1>3, <1>5, <1>6, <1>7 DEF Later, SameCounters

-----------------------------------------------------------------------------
(* Searching. *)

LEMMA InterestScoreType ==
    ASSUME NEW A \in SUBSET Interests, NEW B
    PROVE  interest_score(A, B) \in Nat
<1>1. IsFiniteSet(A \cap B)
  BY InterestAssumption, FS_Subset
<1> QED BY <1>1, FS_CardinalityType DEF interest_score

LEMMA PairScoreType ==
    ASSUME NEW A, NEW B, IsFiniteSet(A), IsFiniteSet(B)
    PROVE  group_pair_score(A, B) \in Nat
<1> DEFINE T == A \X B \X Interests
           f == [z \in (A \X B) \X Interests |-> <<z[1][1], z[1][2], z[2]>>]
           shared == {x \in T : x[3] \in x[1].prefs.interests \cap x[2].prefs.interests}
<1>1. IsFiniteSet(A \X B)
  BY FS_Product
<1>2. IsFiniteSet((A \X B) \X Interests)
  BY <1>1, FS_Product, InterestAssumption
<1>3. f \in Surjection((A \X B) \X Interests, T)
  <2>1. \A t \in T : <<<<t[1], t[2]>>, t[3]>> \in (A \X B) \X Interests
                     /\ f[<<<<t[1], t[2]>>, t[3]>>] = t
    OBVIOUS
  <2>2. f \in [(A \X B) \X Interests -> T]
    OBVIOUS
  <2> HIDE DEF f, T
  <2> QED BY <2>1, <2>2 DEF Surjection
<1> HIDE DEF f
<1>4. IsFiniteSet(T)
  BY <1>2, <1>3, FS_Surjection
<1>5. IsFiniteSet(shared)
  BY <1>4, FS_Subset
<1> QED BY <1>5, FS_CardinalityType DEF group_pair_score

\* Counters only grow along a chain of operations.
LEMMA LaterFacts ==
    ASSUME NEW e, NEW f, NEW g, WellFormed(e), WellFormed(f), WellFormed(g)
    PROVE  /\ SameCounters(e, f) => Later(e, f)
           /\ Later(e, f) /\ Later(f, g) => Later(e, g)
BY DEF WellFormed, EngineStates, SameCounters, Later

LEMMA MergeSoloGood ==
    ASSUME NEW e, Good(e), e.room_seq < MaxRooms, NEW peer \in Peers,
           NEW id \in RoomIds, Live(e, id),
           \A m \in members(e, id) : m.socket # peer.socket
    PROVE  /\ Good(merge_solo_with_group(e, peer, id))
           /\ Later(e, merge_solo_with_group(e, peer, id))
<1> DEFINE dropped == drop_waiting(e, peer.socket)
           ready   == dequeue_groups(dropped, {id})
           merged  == notify_group_match(ready, members(ready, id), {peer}, NoRoom)
           g       == merged.group_rooms[id]
           host    == [at |-> 0, socket |-> g.host, user |-> g.host_user,
                       prefs |-> g.prefs, session |-> NoSession]
           final   == remember_pair(merged, peer, host)
<1>1. /\ Good(dropped) /\ SameCounters(e, dropped)
      /\ dropped.group_rooms = e.group_rooms
  BY DropWaitingGood
<1>2. /\ Good(ready) /\ SameCounters(dropped, ready) /\ Live(ready, id)
      /\ members(ready, id) = members(e, id)
  <2>1. Live(dropped, id) /\ members(dropped, id) = members(e, id)
    BY <1>1 DEF Live, members
  <2> HIDE DEF dropped
  <2> QED BY <1>1, <2>1, DequeueGood
<1> HIDE DEF dropped, ready
<1>3. People(members(ready, id)) /\ People({peer})
  <2>1. People(members(ready, id))
    BY <1>2 DEF People, Good, WellFormed, Finite, Sound, Populated, EngineStates,
                Live, members, Groups
  <2>2. People({peer})
    BY FS_Singleton DEF People, OneEach
  <2> QED BY <2>1, <2>2
<1>4. \A a \in members(ready, id), b \in {peer} : a.socket # b.socket
  BY <1>2
<1>5. ready.room_seq < MaxRooms
  BY <1>1, <1>2 DEF SameCounters
<1>6. Good(merged) /\ Later(ready, merged)
  BY <1>2, <1>3, <1>4, <1>5, NotifyGood
<1>7. Later(e, merged)
  BY <1>1, <1>2, <1>6 DEF Later, SameCounters
<1> HIDE DEF merged
<1>8. ASSUME Live(merged, id) PROVE Good(final) /\ SameCounters(merged, final)
  <2>1. g \in Groups
    BY <1>6, <1>8 DEF Good, WellFormed, EngineStates, Live
  <2>2. host.user \in UserIds /\ host.session \in Sessions
    BY <2>1 DEF Groups, Sessions
  <2>3. peer.user \in UserIds /\ peer.session \in Sessions
    BY DEF Peers
  <2> HIDE DEF host
  <2> QED BY <1>6, <2>2, <2>3, RememberPairGood
<1>9. merge_solo_with_group(e, peer, id)
        = IF peer.user # NoUser /\ Live(merged, id) THEN final ELSE merged
  BY DEF merge_solo_with_group, merged, ready, dropped
<1> HIDE DEF final
<1> QED BY <1>6, <1>7, <1>8, <1>9 DEF Later, SameCounters

LEMMA MergeGroupsGood ==
    ASSUME NEW e, Good(e), e.room_seq < MaxRooms, NEW a \in RoomIds, NEW b \in RoomIds,
           Live(e, a), Live(e, b),
           \A p \in members(e, a), q \in members(e, b) : p.socket # q.socket
    PROVE  /\ Good(merge_groups_and_match(e, a, b))
           /\ Later(e, merge_groups_and_match(e, a, b))
<1> DEFINE ready == dequeue_groups(e, {a, b})
           f == notify_group_match(ready, members(ready, a), members(ready, b), NoRoom)
<1>1. /\ Good(ready) /\ SameCounters(e, ready) /\ Live(ready, a) /\ Live(ready, b)
      /\ members(ready, a) = members(e, a) /\ members(ready, b) = members(e, b)
  BY DequeueGood
<1> HIDE DEF ready
<1>2. People(members(ready, a)) /\ People(members(ready, b))
  BY <1>1 DEF People, Good, WellFormed, Finite, Sound, Populated, EngineStates,
              Live, members, Groups
<1>3. \A p \in members(ready, a), q \in members(ready, b) : p.socket # q.socket
  BY <1>1
<1>4. ready.room_seq < MaxRooms
  BY <1>1 DEF SameCounters
<1>5. Good(f) /\ Later(ready, f)
  BY <1>1, <1>2, <1>3, <1>4, NotifyGood
<1> QED BY <1>1, <1>5 DEF merge_groups_and_match, ready, Later, SameCounters

\* A peer that fits a room is none of its members.
LEMMA FitsIsOutside ==
    ASSUME NEW e, NEW peer, NEW id, fits_group(e, peer, id)
    PROVE  Live(e, id) /\ \A m \in members(e, id) : m.socket # peer.socket
BY DEF fits_group, group_compatible, may_meet, compatible

LEMMA CompatibleGroupsAreDisjoint ==
    ASSUME NEW e, NEW a, NEW b, group_to_group_compatible(e, a, b)
    PROVE  /\ Live(e, a) /\ Live(e, b)
           /\ \A p \in members(e, a), q \in members(e, b) : p.socket # q.socket
BY DEF group_to_group_compatible, may_meet, compatible

\* The room chosen for a solo is one of those that fit.
LEMMA BestRoom ==
    ASSUME NEW e, Good(e), NEW peer \in Peers, groups_for_solo(e, peer) # {},
           NEW rooms, rooms = groups_for_solo(e, peer)
    PROVE  LET w == Best(rooms, [r \in rooms |-> solo_score(e, peer, r.id)])
           IN  w \in rooms /\ w.id \in RoomIds /\ fits_group(e, peer, w.id)
<1> DEFINE score == [r \in rooms |-> solo_score(e, peer, r.id)]
           w == Best(rooms, score)
<1>1. rooms \subseteq e.waiting_groups /\ \A r \in rooms : fits_group(e, peer, r.id)
  BY DEF groups_for_solo
<1>2. /\ IsFiniteSet(rooms) /\ rooms # {}
      /\ \A r \in rooms : r.at \in Nat /\ r.id \in RoomIds
  BY <1>1, FS_Subset DEF Good, WellFormed, Finite, EngineStates
<1>3. \A r \in rooms : score[r] \in Nat
  BY InterestScoreType DEF solo_score, Peers, Preferences
<1> HIDE DEF score
<1>4. w \in rooms
  BY <1>2, <1>3, BestIsCandidate
<1> QED BY <1>1, <1>2, <1>4 DEF score

\* The solo chosen for a room is one of those that fit.
LEMMA BestSolo ==
    ASSUME NEW e, Good(e), NEW id \in RoomIds, solos_for_group(e, id) # {},
           NEW solos, solos = solos_for_group(e, id)
    PROVE  LET p == Best(solos, [x \in solos |-> solo_score(e, x, id)])
           IN  p \in Peers /\ fits_group(e, p, id)
<1> DEFINE score == [x \in solos |-> solo_score(e, x, id)]
           p == Best(solos, score)
<1>1. solos \subseteq e.waiting_peers /\ \A x \in solos : fits_group(e, x, id)
  BY DEF solos_for_group
<1>2. IsFiniteSet(solos) /\ solos # {} /\ \A x \in solos : x \in Peers /\ x.at \in Nat
  BY <1>1, FS_Subset DEF Good, WellFormed, Finite, EngineStates, Peers
<1>3. \A x \in solos : score[x] \in Nat
  BY <1>2, InterestScoreType DEF solo_score, Peers, Preferences
<1> HIDE DEF score
<1>4. p \in solos
  BY <1>2, <1>3, BestIsCandidate
<1> QED BY <1>1, <1>2, <1>4 DEF score

\* The opposing room chosen for a room is compatible with it.
LEMMA BestRival ==
    ASSUME NEW e, Good(e), NEW id \in RoomIds, NEW rivals, rivals # {},
           rivals = {w \in e.waiting_groups :
                        w.id # id /\ group_to_group_compatible(e, id, w.id)}
    PROVE  LET w == Best(rivals, [r \in rivals |->
                        group_pair_score(members(e, id), members(e, r.id))])
           IN  w.id \in RoomIds /\ group_to_group_compatible(e, id, w.id)
<1> DEFINE score == [r \in rivals |->
                        group_pair_score(members(e, id), members(e, r.id))]
           w == Best(rivals, score)
<1>1. IsFiniteSet(rivals) /\ \A r \in rivals : r.at \in Nat /\ r.id \in RoomIds
  BY FS_Subset DEF Good, WellFormed, Finite, EngineStates
<1>2. \A r \in rivals : IsFiniteSet(members(e, id)) /\ IsFiniteSet(members(e, r.id))
  BY <1>1, CompatibleGroupsAreDisjoint DEF Good, WellFormed, Finite
<1>3. \A r \in rivals : score[r] \in Nat
  BY <1>2, PairScoreType
<1> HIDE DEF score
<1>4. w \in rivals
  BY <1>1, <1>3, BestIsCandidate
<1> QED BY <1>1, <1>4 DEF score

LEMMA TryMatchGood ==
    ASSUME NEW e, Good(e), NEW id \in RoomIds, e.room_seq < MaxRooms
    PROVE  Good(try_match_group(e, id)) /\ Later(e, try_match_group(e, id))
<1> DEFINE g      == e.group_rooms[id]
           rivals == {w \in e.waiting_groups :
                         w.id # id /\ group_to_group_compatible(e, id, w.id)}
           rival  == Best(rivals, [w \in rivals |->
                         group_pair_score(members(e, id), members(e, w.id))])
           solos  == solos_for_group(e, id)
           solo   == Best(solos, [p \in solos |-> solo_score(e, p, id)])
           f      == try_match_group(e, id)
           ready  == dequeue_groups(e, {id})
           alone  == notify_group_match(ready, g.participants, {}, id)
<1>1. \/ f = e
      \/ rivals # {} /\ f = merge_groups_and_match(e, id, rival.id)
      \/ solos # {} /\ f = merge_solo_with_group(e, solo, id)
      \/ Live(e, id) /\ f = alone
  BY DEF try_match_group
<1> SUFFICES Good(f) /\ Later(e, f)
  OBVIOUS
<1> HIDE DEF f
<1>2. Later(e, e)
  BY DEF Later, Good, WellFormed, EngineStates
<1>3. CASE f = e
  BY <1>2, <1>3
<1>4. CASE rivals # {} /\ f = merge_groups_and_match(e, id, rival.id)
  <2>1. rival.id \in RoomIds /\ group_to_group_compatible(e, id, rival.id)
    BY <1>4, BestRival
  <2> HIDE DEF rival
  <2> QED BY <1>4, <2>1, CompatibleGroupsAreDisjoint, MergeGroupsGood
<1>5. CASE solos # {} /\ f = merge_solo_with_group(e, solo, id)
  <2>1. solo \in Peers /\ fits_group(e, solo, id)
    BY <1>5, BestSolo
  <2> HIDE DEF solo
  <2> QED BY <1>5, <2>1, FitsIsOutside, MergeSoloGood
<1>6. CASE Live(e, id) /\ f = alone
  <2>1. /\ Good(ready) /\ SameCounters(e, ready) /\ Live(ready, id)
        /\ members(ready, id) = g.participants
    BY <1>6, DequeueGood DEF members
  <2> HIDE DEF ready, g
  <2>2. People(members(ready, id))
    BY <2>1 DEF People, Good, WellFormed, Finite, Sound, Populated, EngineStates,
                Live, members, Groups
  <2>3. People({})
    BY FS_EmptySet DEF People, OneEach
  <2>4. ready.room_seq < MaxRooms
    BY <2>1 DEF SameCounters
  <2>5. Good(alone) /\ Later(ready, alone)
    BY <2>1, <2>2, <2>3, <2>4, NotifyGood
  <2> QED BY <1>6, <2>1, <2>5 DEF Later, SameCounters
<1> QED BY <1>1, <1>3, <1>4, <1>5, <1>6

LEMMA StartGood ==
    ASSUME NEW e, Good(e), NEW id \in RoomIds, e.room_seq < MaxRooms, Allocated(e, id)
    PROVE  Good(start_group_match(e, id)) /\ Later(e, start_group_match(e, id))
<1> DEFINE q == enqueue_group(e, id)
           f == try_match_group(q, id)
<1>1. Later(e, e)
  BY DEF Later, Good, WellFormed, EngineStates
<1>2. CASE Live(e, id) /\ e.group_rooms[id].in_queue
  BY <1>1, <1>2 DEF start_group_match
<1>3. CASE ~(Live(e, id) /\ e.group_rooms[id].in_queue)
  <2>1. Good(q) /\ SameCounters(e, q)
    BY <1>3, EnqueueGood
  <2> HIDE DEF q
  <2>2. Good(f) /\ Later(q, f)
    BY <2>1, TryMatchGood DEF SameCounters
  <2> QED BY <1>3, <2>1, <2>2 DEF start_group_match, q, Later, SameCounters
<1> QED BY <1>2, <1>3

LEMMA HeartbeatGood ==
    ASSUME NEW e, Good(e), NEW s \in Sockets, e.room_seq < MaxRooms
    PROVE  Good(heartbeat(e, s)) /\ Later(e, heartbeat(e, s))
<1> DEFINE waiting == {p \in e.waiting_peers : p.socket = s}
           me      == CHOOSE p \in waiting : TRUE
           rooms   == groups_for_solo(e, me)
           room    == Best(rooms, [w \in rooms |-> solo_score(e, me, w.id)])
           id      == e.group_room_of_socket[s]
           f       == heartbeat(e, s)
<1>1. \/ f = e
      \/ waiting # {} /\ rooms # {} /\ f = merge_solo_with_group(e, me, room.id)
      \/ id # NoRoom /\ f = try_match_group(e, id)
  BY DEF heartbeat
<1> SUFFICES Good(f) /\ Later(e, f)
  OBVIOUS
<1> HIDE DEF f
<1>2. Later(e, e)
  BY DEF Later, Good, WellFormed, EngineStates
<1>3. CASE f = e
  BY <1>2, <1>3
<1>4. CASE waiting # {} /\ rooms # {} /\ f = merge_solo_with_group(e, me, room.id)
  <2>1. me \in Peers
    BY <1>4 DEF Good, WellFormed, EngineStates
  <2> HIDE DEF me
  <2>2. room.id \in RoomIds /\ fits_group(e, me, room.id)
    BY <1>4, <2>1, BestRoom
  <2> HIDE DEF room
  <2> QED BY <1>4, <2>1, <2>2, FitsIsOutside, MergeSoloGood
<1>5. CASE id # NoRoom /\ f = try_match_group(e, id)
  <2>1. id \in RoomIds
    BY <1>5 DEF Good, WellFormed, EngineStates
  <2> QED BY <1>5, <2>1, TryMatchGood
<1> QED BY <1>1, <1>3, <1>4, <1>5

-----------------------------------------------------------------------------
(* Joining the queue, opening a lobby, taking a seat in one. *)

LEMMA PeerOfType ==
    ASSUME NEW s \in Sockets, NEW user \in Users \cup {NoUser}, NEW prefs \in Preferences
    PROVE  peer_of(s, user, prefs) \in Peers
BY DEF peer_of, Peers, UserIds, Sessions

LEMMA JoinQueueGood ==
    ASSUME NEW e, Good(e), NEW s \in Sockets, NEW user \in Users \cup {NoUser},
           NEW prefs \in Preferences, e.room_seq < MaxRooms
    PROVE  /\ Good(join_queue(e, s, user, prefs))
           /\ Later(e, join_queue(e, s, user, prefs))
<1> DEFINE me     == peer_of(s, user, prefs)
           out    == remove_from_queue(e, s)
           apart  == leave_room(out, s, TRUE)
           away   == leave_group(apart, s)
           idle   == [away EXCEPT !.peer_meta = @ \cup {s}]
           solos  == solo_candidates(idle, me)
           chosen == Best(solos, [c \in solos |->
                         interest_score(prefs.interests, c.prefs.interests)])
           rooms  == groups_for_solo(idle, me)
           room   == Best(rooms, [w \in rooms |-> solo_score(idle, me, w.id)])
           without == drop_waiting(idle, chosen.socket)
           noted  == remember_pair(without, me, chosen)
           f      == join_queue(e, s, user, prefs)
<1>1. me \in Peers
  BY PeerOfType
<1>2. Good(away) /\ SameCounters(e, away)
  <2>1. Good(out) /\ SameCounters(e, out)
    BY RemoveFromQueueGood
  <2> HIDE DEF out
  <2>2. Good(apart) /\ SameCounters(out, apart)
    BY <2>1, LeaveRoomGood
  <2> HIDE DEF apart
  <2>3. Good(away) /\ SameCounters(apart, away)
    BY <2>2, LeaveGroupGood
  <2> QED BY <2>1, <2>2, <2>3 DEF SameCounters
<1>3. \/ solos # {} /\ f = pair_up(noted, s, chosen.socket)
      \/ rooms # {} /\ f = merge_solo_with_group(idle, me, room.id)
      \/ f = push_waiting(idle, me)
  BY DEF join_queue
<1> SUFFICES Good(f) /\ Later(e, f)
  OBVIOUS
<1> HIDE DEF f, me, away
<1>4. Good(idle) /\ SameCounters(e, idle)
  <2>1. away \in EngineStates /\ IsFiniteSet(away.waiting_peers)
    BY <1>2 DEF Good, WellFormed, Finite
  <2>2. /\ idle \in EngineStates /\ idle.group_rooms = away.group_rooms
        /\ idle.waiting_groups = away.waiting_groups
        /\ idle.group_room_of_socket = away.group_room_of_socket
        /\ idle.waiting_peers = away.waiting_peers
        /\ SameCounters(away, idle) /\ Later(away, idle)
    BY <2>1 DEF EngineStates, SameCounters, Later
  <2> HIDE DEF idle
  <2>3. Good(idle)
    BY <1>2, <2>1, <2>2, QuietStep
  <2> QED BY <1>2, <2>2, <2>3 DEF SameCounters
<1> HIDE DEF idle
<1>5. idle.room_seq < MaxRooms
  BY <1>4 DEF SameCounters
<1>6. Later(idle, f) => Later(e, f)
  BY <1>4 DEF Later, SameCounters
<1>7. CASE solos # {} /\ f = pair_up(noted, s, chosen.socket)
  <2> DEFINE score == [c \in solos |->
                 interest_score(prefs.interests, c.prefs.interests)]
  <2>1. solos \subseteq idle.waiting_peers
    BY DEF solo_candidates
  <2>2. IsFiniteSet(solos) /\ \A c \in solos : c \in Peers /\ c.at \in Nat
    BY <1>4, <2>1, FS_Subset DEF Good, WellFormed, Finite, EngineStates, Peers
  <2>3. \A c \in solos : score[c] \in Nat
    BY InterestScoreType DEF Preferences
  <2> HIDE DEF score, solos
  <2>4. Best(solos, score) \in solos
    BY <1>7, <2>2, <2>3, BestIsCandidate
  <2>5. chosen \in Peers
    BY <2>2, <2>4 DEF score
  <2> HIDE DEF chosen
  <2>6. Good(without) /\ SameCounters(idle, without)
    BY <1>4, DropWaitingGood
  <2> HIDE DEF without
  <2>7. Good(noted) /\ SameCounters(without, noted)
    BY <1>1, <2>5, <2>6, RememberPairGood DEF Peers
  <2> HIDE DEF noted
  <2>8. chosen.socket \in Sockets /\ noted.room_seq < MaxRooms
    BY <1>5, <2>5, <2>6, <2>7 DEF Peers, SameCounters
  <2>9. Good(f) /\ Later(noted, f)
    BY <1>7, <2>7, <2>8, PairUpGood
  <2> QED BY <1>6, <2>6, <2>7, <2>9 DEF Later, SameCounters
<1>8. CASE rooms # {} /\ f = merge_solo_with_group(idle, me, room.id)
  <2>1. room.id \in RoomIds /\ fits_group(idle, me, room.id)
    BY <1>1, <1>4, <1>8, BestRoom
  <2> HIDE DEF room
  <2> QED BY <1>1, <1>4, <1>5, <1>6, <1>8, <2>1, FitsIsOutside, MergeSoloGood
<1>9. CASE f = push_waiting(idle, me)
  <2>1. Good(f) /\ SameCounters(idle, f)
    BY <1>1, <1>4, <1>9, PushWaitingGood
  <2>2. Later(e, f)
    BY <1>4, <2>1 DEF Later, SameCounters, Good, WellFormed, EngineStates
  <2> QED BY <2>1, <2>2
<1> QED BY <1>3, <1>7, <1>8, <1>9

\* A fresh lobby with its host as the only member.
LEMMA LobbyGood ==
    ASSUME NEW e, Good(e), e.group_room_seq < MaxRooms, NEW s \in Sockets,
           NEW id, id = <<"groom", e.group_room_seq + 1>>, NEW seat \in Peers,
           seat.socket = s, NEW g \in Groups, g.participants = {seat}, ~g.in_queue,
           NEW f, f = [e EXCEPT !.group_room_seq = @ + 1, !.group_rooms[id] = g,
                                !.group_room_of_socket[s] = id]
    PROVE  Good(f) /\ Later(e, f)
<1>1. e \in EngineStates /\ Finite(e) /\ Sound(e)
  BY DEF Good, WellFormed
<1>2. e.group_room_seq \in Nat /\ e.room_seq \in Nat /\ e.group_room_seq + 1 \in 0..MaxRooms
  BY <1>1, MaxRoomsAssumption DEF EngineStates
<1>3. id \in RoomIds /\ ~Allocated(e, id)
  BY <1>2 DEF RoomIds, Allocated
<1>4. ~Live(e, id) /\ id \notin Queued(e)
  BY <1>1, <1>3 DEF Sound, FreshIds, Queued
<1>5. /\ f.group_room_seq = e.group_room_seq + 1 /\ f.room_seq = e.room_seq
      /\ f.group_rooms = [e.group_rooms EXCEPT ![id] = g]
      /\ f.group_room_of_socket = [e.group_room_of_socket EXCEPT ![s] = id]
      /\ f.waiting_groups = e.waiting_groups /\ f.waiting_peers = e.waiting_peers
  BY <1>1 DEF EngineStates
<1>6. f \in EngineStates
  BY <1>1, <1>2, <1>3 DEF EngineStates
<1>7. /\ \A r \in RoomIds : Live(f, r) <=> r = id \/ Live(e, r)
      /\ \A r \in RoomIds : r # id => f.group_rooms[r] = e.group_rooms[r]
      /\ f.group_rooms[id] = g
  BY <1>1, <1>3, <1>5, GroupAssumption DEF EngineStates, Live
<1>8. IsFiniteSet({seat}) /\ {seat} # {} /\ OneEach({seat}) /\ s \in SocketsOf({seat})
  BY FS_Singleton DEF OneEach, SocketsOf
<1>9. WellFormed(f)
  BY <1>1, <1>5, <1>6, <1>7, <1>8 DEF WellFormed, Finite, members
<1>10. Later(e, f)
  BY <1>2, <1>5 DEF Later
<1>11. FreshIds(f)
  <2>1. \A r \in RoomIds : Allocated(e, r) => Allocated(f, r)
    BY <1>2, <1>5 DEF Allocated, RoomIds
  <2>2. Allocated(f, id)
    BY <1>2, <1>5 DEF Allocated
  <2>3. \A w \in e.waiting_groups : w.id \in RoomIds
    BY <1>1 DEF EngineStates
  <2> QED BY <1>1, <1>5, <1>7, <2>1, <2>2, <2>3 DEF Sound, FreshIds
<1>12. Seated(f)
  <2> SUFFICES ASSUME NEW t \in Sockets, f.group_room_of_socket[t] # NoRoom
               PROVE  /\ Live(f, f.group_room_of_socket[t])
                      /\ t \in SocketsOf(members(f, f.group_room_of_socket[t]))
    BY DEF Seated
  <2>1. CASE t = s
    BY <1>1, <1>3, <1>5, <1>7, <1>8, <2>1 DEF EngineStates, members
  <2>2. CASE t # s
    <3>1. f.group_room_of_socket[t] = e.group_room_of_socket[t]
          /\ e.group_room_of_socket[t] \in RoomIds
      BY <1>1, <1>5, <2>2 DEF EngineStates
    <3> QED BY <1>1, <1>4, <1>7, <3>1 DEF Sound, Seated, members
  <2> QED BY <2>1, <2>2
<1>13. Populated(f)
  BY <1>1, <1>7, <1>8 DEF Sound, Populated, members
<1>14. QueueAgrees(f)
  <2>1. Queued(f) = Queued(e)
    BY <1>5 DEF Queued
  <2>2. \A w \in f.waiting_groups : w.id \in RoomIds /\ w.id \in Queued(e)
    BY ZenonT(40), <1>5, <1>6 DEF EngineStates, Queued
  <2> QED BY <1>1, <1>4, <1>5, <1>7, <2>1, <2>2 DEF Sound, QueueAgrees, ListedOnce
<1> QED BY <1>9, <1>10, <1>11, <1>12, <1>13, <1>14 DEF Good, Sound

LEMMA CreateGood ==
    ASSUME NEW e, Good(e), e.group_room_seq < MaxRooms, NEW s \in Sockets,
           NEW user \in Users, NEW prefs \in Preferences, NEW skip \in BOOLEAN
    PROVE  /\ Good(create_group_match_room(e, s, user, prefs, skip))
           /\ Later(e, create_group_match_room(e, s, user, prefs, skip))
<1> DEFINE left  == leave_group(e, s)
           apart == leave_room(left, s, TRUE)
           free  == IF skip THEN left ELSE apart
           id    == <<"groom", e.group_room_seq + 1>>
           seat  == [peer_of(s, user, prefs) EXCEPT !.at = 1]
           lobby == [host |-> s, host_user |-> user, scope |-> prefs.scope,
                     prefs |-> prefs, participants |-> {seat},
                     in_queue |-> FALSE, matched |-> FALSE]
           f     == [free EXCEPT !.group_room_seq = @ + 1,
                                 !.group_rooms[id] = lobby,
                                 !.group_room_of_socket[s] = id]
<1>1. Good(left) /\ SameCounters(e, left)
  BY LeaveGroupGood
<1> HIDE DEF left
<1>2. Good(apart) /\ SameCounters(left, apart)
  BY <1>1, LeaveRoomGood
<1> HIDE DEF apart
<1>3. Good(free) /\ SameCounters(e, free)
  BY <1>1, <1>2 DEF SameCounters
<1>4. seat \in Peers /\ seat.socket = s
  BY DEF peer_of, Peers, UserIds, Sessions
<1>5. lobby \in Groups /\ lobby.participants = {seat} /\ ~lobby.in_queue
  BY <1>4 DEF Groups, UserIds, Preferences
<1>6. create_group_match_room(e, s, user, prefs, skip) = Tell(f, {s}, "group-match:created")
  BY DEF create_group_match_room, left, apart
<1> HIDE DEF free, seat, lobby
<1>7. free.group_room_seq = e.group_room_seq
  BY <1>3 DEF SameCounters
<1>8. Good(f) /\ Later(free, f)
  BY <1>3, <1>4, <1>5, <1>7, LobbyGood
<1> HIDE DEF f
<1>9. Good(Tell(f, {s}, "group-match:created"))
      /\ SameCounters(f, Tell(f, {s}, "group-match:created"))
  BY <1>8, TellGood DEF Frames
<1> QED BY <1>3, <1>6, <1>8, <1>9 DEF Later, SameCounters

\* Only s comes into room id, and nobody into another room.
SitsDown(e, f, id, s) ==
    /\ f.blocked_pairs = e.blocked_pairs
    /\ \A r \in RoomIds \ {id} : f.group_rooms[r] = e.group_rooms[r]
    /\ SocketsOf(members(f, id)) \subseteq SocketsOf(members(e, id)) \cup {s}

\* The states a person passes on the way into a room: out of the queue and of
\* its 1:1 match, in its seat, and with the room listed.
SeatTaken(e, f, id, s, free, seated, queued) ==
    /\ Good(free) /\ SameCounters(e, free)
    /\ free.group_rooms = remove_from_queue(e, s).group_rooms
    /\ free.blocked_pairs = remove_from_queue(e, s).blocked_pairs
    /\ \/ f = free
       \/ Live(free, id) /\ f = seated
       \/ Live(free, id) /\ f = try_match_group(queued, id)
    /\ Live(free, id) =>
          /\ Good(seated) /\ SameCounters(free, seated)
          /\ Good(queued) /\ SameCounters(free, queued)
          /\ SitsDown(free, seated, id, s)
          /\ queued = seated \/ queued = enqueue_group(seated, id)

LEMMA SeatIsTaken ==
    ASSUME NEW e, Good(e), e.room_seq < MaxRooms, NEW id \in RoomIds, NEW s \in Sockets,
           NEW user \in Users \cup {NoUser}, NEW prefs \in Preferences
    PROVE  \E free, seated, queued :
              SeatTaken(e, add_participant_to_group(e, id, s, user, prefs),
                        id, s, free, seated, queued)
<1> DEFINE out     == remove_from_queue(e, s)
           mate    == IF e.rooms_by_socket[s] = NoPair THEN NoSocket ELSE e.partners[s]
           apart   == [out EXCEPT
                         !.partners = IF e.rooms_by_socket[s] = NoPair THEN @
                                      ELSE Clear(@, {s, mate}, NoSocket),
                         !.rooms_by_socket = Clear(@, {s, mate}, NoPair)]
           free    == Tell(apart, {mate}, "room:peer-left")
           others  == {p \in members(free, id) : p.socket # s}
           mine    == members(free, id) \ others
           seat    == [peer_of(s, user, prefs) EXCEPT
                         !.at = IF mine = {} THEN NextAt(others)
                                ELSE (CHOOSE p \in mine : TRUE).at]
           taken   == [free EXCEPT !.group_rooms[id].participants = others \cup {seat},
                                   !.group_room_of_socket[s] = id]
           seated  == Tell(taken, {s}, "group-match:created")
           queued  == IF seated.group_rooms[id].in_queue THEN seated
                      ELSE enqueue_group(seated, id)
           f       == add_participant_to_group(e, id, s, user, prefs)
<1>1. \/ f = free
      \/ Live(free, id) /\ f = seated
      \/ Live(free, id) /\ f = try_match_group(queued, id)
  BY ZenonT(40) DEF add_participant_to_group
<1> HIDE DEF f
<1>2. /\ Good(free) /\ SameCounters(e, free)
      /\ free.group_rooms = out.group_rooms /\ free.blocked_pairs = out.blocked_pairs
  <2>1. Good(out) /\ SameCounters(e, out)
    BY RemoveFromQueueGood
  <2> HIDE DEF out, mate
  <2>2. out \in EngineStates /\ IsFiniteSet(out.waiting_peers)
    BY <2>1 DEF Good, WellFormed, Finite
  <2>3. /\ \A S : Clear(out.partners, S, NoSocket) \in [Sockets -> Sockets \cup {NoSocket}]
        /\ \A S : Clear(out.rooms_by_socket, S, NoPair) \in [Sockets -> Pairs \cup {NoPair}]
    BY <2>2 DEF EngineStates, Clear
  <2>4. apart \in EngineStates
    BY <2>2, <2>3 DEF EngineStates
  <2>5. /\ apart.group_rooms = out.group_rooms
        /\ apart.waiting_groups = out.waiting_groups
        /\ apart.group_room_of_socket = out.group_room_of_socket
        /\ apart.waiting_peers = out.waiting_peers
        /\ apart.blocked_pairs = out.blocked_pairs
        /\ SameCounters(out, apart) /\ Later(out, apart)
    BY <2>2 DEF EngineStates, SameCounters, Later
  <2> HIDE DEF apart
  <2>6. Good(apart)
    BY <2>1, <2>2, <2>5, <2>4, QuietStep
  <2>7. Good(free) /\ SameCounters(apart, free)
    BY <2>6, TellGood DEF Frames
  <2>8. free.group_rooms = apart.group_rooms /\ free.blocked_pairs = apart.blocked_pairs
    BY <2>6 DEF Tell, Good, WellFormed, EngineStates
  <2> HIDE DEF free
  <2> QED BY <2>1, <2>5, <2>7, <2>8 DEF SameCounters
<1> HIDE DEF free
<1>3. ASSUME Live(free, id)
      PROVE  /\ Good(taken) /\ SameCounters(free, taken) /\ Live(taken, id)
             /\ SitsDown(free, taken, id, s)
  <2> DEFINE g == [free.group_rooms[id] EXCEPT !.participants = others \cup {seat}]
  <2>1. free \in EngineStates /\ Finite(free) /\ Sound(free)
    BY <1>2 DEF Good, WellFormed
  <2>2. free.group_rooms[id] \in Groups
    BY <1>3, <2>1 DEF EngineStates, Live
  <2>3. /\ members(free, id) \subseteq Peers /\ IsFiniteSet(members(free, id))
        /\ OneEach(members(free, id))
    BY <1>3, <2>1, <2>2 DEF Groups, members, Finite, Sound, Populated
  <2>4. others \subseteq Peers /\ IsFiniteSet(others) /\ OneEach(others)
    BY <2>3, FS_Subset DEF OneEach
  <2>5. NextAt(others) \in Nat /\ (mine # {} => (CHOOSE p \in mine : TRUE).at \in Nat)
    <3>1. mine # {} => (CHOOSE p \in mine : TRUE) \in Peers
      BY <2>3
    <3> HIDE DEF mine, others
    <3> QED BY <2>4, <3>1, NextAtType DEF Peers
  <2>6. seat \in Peers /\ seat.socket = s
    <3> HIDE DEF mine, others
    <3> QED BY <2>5 DEF peer_of, Peers, UserIds, Sessions
  <2>7. \A p \in others : p.socket # s
    OBVIOUS
  <2>8. \A t \in Sockets : free.group_room_of_socket[t] = id /\ t # s => t \in SocketsOf(others)
    <3> SUFFICES ASSUME NEW t \in Sockets, free.group_room_of_socket[t] = id, t # s
                 PROVE  t \in SocketsOf(others)
      OBVIOUS
    <3>1. t \in SocketsOf(members(free, id))
      BY <2>1, RoomAssumption DEF Sound, Seated
    <3>2. PICK p \in members(free, id) : p.socket = t
      BY <3>1 DEF SocketsOf
    <3> QED BY <3>2 DEF SocketsOf
  <2> HIDE DEF seat, others
  <2>9. /\ IsFiniteSet(others \cup {seat}) /\ others \cup {seat} # {}
        /\ others \cup {seat} \subseteq Peers /\ OneEach(others \cup {seat})
        /\ SocketsOf(others \cup {seat}) = SocketsOf(others) \cup {s}
    <3>1. IsFiniteSet(others \cup {seat})
      BY <2>4, FS_AddElement
    <3> QED BY <2>4, <2>6, <2>7, <3>1 DEF OneEach, SocketsOf
  <2>10. /\ g \in Groups /\ g.participants = others \cup {seat}
         /\ g.in_queue = free.group_rooms[id].in_queue
    BY <2>2, <2>9 DEF Groups
  <2>11. /\ taken.group_rooms = [free.group_rooms EXCEPT ![id] = g]
         /\ taken.group_room_of_socket = [free.group_room_of_socket EXCEPT ![s] = id]
         /\ taken.waiting_groups = free.waiting_groups
         /\ taken.waiting_peers = free.waiting_peers /\ SameCounters(free, taken)
         /\ taken.blocked_pairs = free.blocked_pairs
    BY <2>1 DEF EngineStates, SameCounters
  <2> HIDE DEF g
  <2>12. taken \in EngineStates
    BY <2>1, <2>10, <2>11 DEF EngineStates, g
  <2>13. KeepsSeats(free, taken, id, g.participants)
    BY <2>1, <2>8, <2>9, <2>10, <2>11 DEF KeepsSeats, EngineStates
  <2>14. Live(taken, id)
    BY <2>1, <2>10, <2>11, GroupAssumption DEF Live, EngineStates
  <2>15. IsFiniteSet(g.participants) /\ g.participants # {} /\ OneEach(g.participants)
    BY <2>9, <2>10
  <2> HIDE DEF taken
  <2>16. Good(taken)
    BY <1>2, <1>3, <2>10, <2>11, <2>12, <2>13, <2>15, ReseatGood
  <2>17. SitsDown(free, taken, id, s)
    <3>1. SocketsOf(others) \subseteq SocketsOf(members(free, id))
      BY DEF SocketsOf, others
    <3>2. members(taken, id) = others \cup {seat}
      BY <2>1, <2>10, <2>11 DEF members, EngineStates
    <3> QED BY <2>1, <2>9, <2>11, <3>1, <3>2 DEF SitsDown, EngineStates
  <2> QED BY <2>11, <2>14, <2>16, <2>17
<1> HIDE DEF taken
<1>4. ASSUME Live(free, id)
      PROVE  /\ Good(seated) /\ SameCounters(free, seated) /\ Live(seated, id)
             /\ SitsDown(free, seated, id, s)
  <2>1. Good(seated) /\ SameCounters(taken, seated)
    BY <1>3, <1>4, TellGood DEF Frames
  <2>2. /\ seated.group_rooms = taken.group_rooms
        /\ seated.blocked_pairs = taken.blocked_pairs
    BY <1>3, <1>4 DEF Tell, Good, WellFormed, EngineStates
  <2> HIDE DEF seated
  <2> QED BY <1>3, <1>4, <2>1, <2>2 DEF SameCounters, Live, members, SitsDown
<1> HIDE DEF seated
<1>5. ASSUME Live(free, id)
      PROVE  Good(queued) /\ SameCounters(free, queued)
  <2>1. Allocated(seated, id)
    BY <1>4, <1>5 DEF Good, Sound, FreshIds
  <2>2. CASE seated.group_rooms[id].in_queue
    BY <1>4, <1>5, <2>2
  <2>3. CASE ~seated.group_rooms[id].in_queue
    <3>1. Good(enqueue_group(seated, id)) /\ SameCounters(seated, enqueue_group(seated, id))
      BY <1>4, <1>5, <2>1, <2>3, EnqueueGood
    <3> QED BY <1>4, <1>5, <2>3, <3>1 DEF SameCounters
  <2> QED BY <2>2, <2>3
<1>6. queued = seated \/ queued = enqueue_group(seated, id)
  OBVIOUS
<1> HIDE DEF seated, queued, out
<1>7. SeatTaken(e, f, id, s, free, seated, queued)
  BY <1>1, <1>2, <1>4, <1>5, <1>6 DEF SeatTaken, out
<1> QED BY <1>7 DEF f

LEMMA AddParticipantGood ==
    ASSUME NEW e, Good(e), e.room_seq < MaxRooms, NEW id \in RoomIds, NEW s \in Sockets,
           NEW user \in Users \cup {NoUser}, NEW prefs \in Preferences
    PROVE  /\ Good(add_participant_to_group(e, id, s, user, prefs))
           /\ Later(e, add_participant_to_group(e, id, s, user, prefs))
<1> DEFINE f == add_participant_to_group(e, id, s, user, prefs)
<1>1. PICK free, seated, queued : SeatTaken(e, f, id, s, free, seated, queued)
  BY SeatIsTaken
<1> SUFFICES Good(f) /\ Later(e, f)
  OBVIOUS
<1> HIDE DEF f
<1>2. Good(free) /\ SameCounters(e, free)
  BY <1>1 DEF SeatTaken
<1>3. Live(free, id) => /\ Good(seated) /\ SameCounters(free, seated)
                        /\ Good(queued) /\ SameCounters(free, queued)
  BY <1>1 DEF SeatTaken
<1>4. Later(e, free)
  BY <1>2 DEF Later, SameCounters, Good, WellFormed, EngineStates
<1>5. CASE f = free
  BY <1>2, <1>4, <1>5
<1>6. CASE Live(free, id) /\ f = seated
  BY <1>3, <1>4, <1>6 DEF Later, SameCounters
<1>7. CASE Live(free, id) /\ f = try_match_group(queued, id)
  <2>1. Good(queued) /\ SameCounters(free, queued) /\ queued.room_seq < MaxRooms
    BY <1>2, <1>3, <1>7 DEF SameCounters
  <2>2. Good(f) /\ Later(queued, f)
    BY <1>7, <2>1, TryMatchGood
  <2> QED BY <1>2, <2>1, <2>2 DEF Later, SameCounters
<1>8. \/ f = free
      \/ Live(free, id) /\ f = seated
      \/ Live(free, id) /\ f = try_match_group(queued, id)
  BY <1>1 DEF SeatTaken
<1> QED BY <1>5, <1>6, <1>7, <1>8

-----------------------------------------------------------------------------
(* The invariant of the whole server. *)

\* Calls that name a room to start name one that was handed out: the room may be
\* gone when the call runs, and enqueue_group lists it all the same.
ValidCalls(e) ==
    {c \in EngineCalls : c.op = "start_group" => Allocated(e, c.room)}

TimersOK ==
    timers \subseteq [socket : Sockets, room : RoomIds, state : {"armed", "expired"}]

ConnOK == conn \in [Sockets -> {"open", "closing", "closed"}]

\* The inductive invariant.
IInv ==
    /\ Good(engine)
    /\ todo \in [Sockets -> Seq(ValidCalls(engine))]
    /\ hub \subseteq Sockets /\ ConnOK /\ TimersOK

-----------------------------------------------------------------------------
(* What one step has to establish. *)

\* A call stays valid while counters grow.
LEMMA ValidLater ==
    ASSUME NEW e, NEW f, Good(e), Good(f), Later(e, f)
    PROVE  Seq(ValidCalls(e)) \subseteq Seq(ValidCalls(f))
<1>1. \A id \in RoomIds : Allocated(e, id) => Allocated(f, id)
  BY DEF Good, WellFormed, EngineStates, Later, Allocated, RoomIds
<1>2. \A c \in EngineCalls : c.op = "start_group" => c.room \in RoomIds
  BY DEF EngineCalls
<1>3. ValidCalls(e) \subseteq ValidCalls(f)
  BY <1>1, <1>2 DEF ValidCalls
<1> HIDE DEF ValidCalls
<1> QED BY <1>3

\* A step that keeps the data good and leaves s with valid calls keeps IInv.
LEMMA Continues ==
    ASSUME IInv, NEW s \in Sockets, NEW calls \in Seq(ValidCalls(engine)),
           todo' = [todo EXCEPT ![s] = calls], Good(engine'), Later(engine, engine'),
           hub' \subseteq Sockets, ConnOK', TimersOK'
    PROVE  IInv'
<1>1. Seq(ValidCalls(engine)) \subseteq Seq(ValidCalls(engine'))
  BY ValidLater DEF IInv
<1>2. todo' \in [Sockets -> Seq(ValidCalls(engine'))]
  BY <1>1 DEF IInv
<1> QED BY <1>2 DEF IInv

\* The same for a step that starts no call and ends none.
LEMMA Idles ==
    ASSUME IInv, UNCHANGED todo, Good(engine'), Later(engine, engine'),
           hub' \subseteq Sockets, ConnOK', TimersOK'
    PROVE  IInv'
<1>1. Seq(ValidCalls(engine)) \subseteq Seq(ValidCalls(engine'))
  BY ValidLater DEF IInv
<1>2. todo' \in [Sockets -> Seq(ValidCalls(engine'))]
  BY <1>1 DEF IInv
<1> QED BY <1>2 DEF IInv

\* Doing nothing keeps the data good.
LEMMA EngineIdle ==
    ASSUME IInv, UNCHANGED engine
    PROVE  Good(engine') /\ Later(engine, engine')
BY DEF IInv, Good, WellFormed, EngineStates, Later

\* So does an operation that leaves both counters alone.
LEMMA SameIsLater ==
    ASSUME NEW e, Good(e), NEW f, SameCounters(e, f)
    PROVE  Later(e, f)
BY DEF Good, WellFormed, EngineStates, SameCounters, Later

\* The calls handlers queue are valid: only CallStart carries a condition.
LEMMA CallTypes ==
    /\ \A s \in Sockets, n \in BOOLEAN : CallLeave(s, n) \in ValidCalls(engine)
    /\ \A s \in Sockets : CallLeaveGroup(s) \in ValidCalls(engine)
    /\ \A p \in Preferences : CallJoin(p) \in ValidCalls(engine)
    /\ \A id \in RoomIds, p \in Preferences : CallSeat(id, p) \in ValidCalls(engine)
    /\ \A id \in RoomIds :
          Allocated(engine, id) => CallStart(id) \in ValidCalls(engine)
    /\ \A u, v \in Users : CallBlock(u, v) \in ValidCalls(engine)
    /\ \A o \in {"report", "block"} : CallPartner(o) \in ValidCalls(engine)
    /\ \A o \in {"report", "block"}, t \in Sockets \cup {NoSocket} :
          CallGroup(o, t) \in ValidCalls(engine)
    /\ \A l, r \in Seq(Sockets) \ {<< >>} : CallMatch(l, r) \in ValidCalls(engine)
    /\ \A S \in SUBSET Sockets : CallAnnounce(S) \in ValidCalls(engine)
<1>1. \A s \in Sockets, n \in BOOLEAN : CallLeave(s, n) \in ValidCalls(engine)
  BY DEF CallLeave, ValidCalls, EngineCalls
<1>2. \A s \in Sockets : CallLeaveGroup(s) \in ValidCalls(engine)
  BY DEF CallLeaveGroup, ValidCalls, EngineCalls
<1>3. \A p \in Preferences : CallJoin(p) \in ValidCalls(engine)
  BY DEF CallJoin, ValidCalls, EngineCalls
<1>4. \A id \in RoomIds, p \in Preferences : CallSeat(id, p) \in ValidCalls(engine)
  BY DEF CallSeat, ValidCalls, EngineCalls
<1>5. \A id \in RoomIds :
         Allocated(engine, id) => CallStart(id) \in ValidCalls(engine)
  BY DEF CallStart, ValidCalls, EngineCalls
<1>6. \A u, v \in Users : CallBlock(u, v) \in ValidCalls(engine)
  BY DEF CallBlock, ValidCalls, EngineCalls
<1>7. \A o \in {"report", "block"} : CallPartner(o) \in ValidCalls(engine)
  BY DEF CallPartner, ValidCalls, EngineCalls
<1>8. \A o \in {"report", "block"}, t \in Sockets \cup {NoSocket} :
         CallGroup(o, t) \in ValidCalls(engine)
  BY DEF CallGroup, ValidCalls, EngineCalls
<1>9. \A l, r \in Seq(Sockets) \ {<< >>} : CallMatch(l, r) \in ValidCalls(engine)
  BY DEF CallMatch, ValidCalls, EngineCalls
<1>10. \A S \in SUBSET Sockets : CallAnnounce(S) \in ValidCalls(engine)
  BY DEF CallAnnounce, ValidCalls, EngineCalls
<1> QED BY <1>1, <1>2, <1>3, <1>4, <1>5, <1>6, <1>7, <1>8, <1>9, <1>10

\* Sequences of one, two and three calls.
LEMMA ShortSequences ==
    ASSUME NEW V
    PROVE  /\ << >> \in Seq(V)
           /\ \A a \in V : <<a>> \in Seq(V)
           /\ \A a, b \in V : <<a, b>> \in Seq(V)
           /\ \A a, b, c \in V : <<a, b, c>> \in Seq(V)
           /\ \A a, b \in Seq(V) : a \o b \in Seq(V)
OBVIOUS

\* The call a handler makes next, and those that remain.
LEMMA NextCall ==
    ASSUME IInv, NEW s \in Sockets, todo[s] # << >>
    PROVE  /\ Head(todo[s]) \in EngineCalls
           /\ Head(todo[s]).op = "start_group" => Allocated(engine, Head(todo[s]).room)
           /\ Tail(todo[s]) \in Seq(ValidCalls(engine))
<1>1. todo[s] \in Seq(ValidCalls(engine))
  BY DEF IInv
<1>2. Head(todo[s]) \in ValidCalls(engine) /\ Tail(todo[s]) \in Seq(ValidCalls(engine))
  <2> HIDE DEF ValidCalls
  <2> QED BY <1>1
<1> QED BY <1>2 DEF ValidCalls

\* What is announced after join_queue is the pair of its 1:1 room, if any.
LEMMA JoinedStep ==
    ASSUME IInv, NEW s \in Sockets, NEW p \in Preferences,
           NEW rest \in Seq(ValidCalls(engine)), Joined(s, p, rest),
           UNCHANGED <<hub, conn, timers>>
    PROVE  IInv'
<1> DEFINE room  == engine'.rooms_by_socket[s]
           calls == IF room = NoPair THEN rest
                    ELSE <<CallAnnounce({room.a, room.b})>> \o rest
<1>1. UserOf[s] \in Users \cup {NoUser}
  BY UserOfAssumption
<1>2. Good(engine') /\ Later(engine, engine')
  <2>1. Good(engine) /\ engine.room_seq < MaxRooms
    BY DEF IInv, Joined, RoomLeft
  <2>2. engine' = join_queue(engine, s, UserOf[s], p)
    BY DEF Joined
  <2> QED BY <1>1, <2>1, <2>2, JoinQueueGood
<1>3. room # NoPair => {room.a, room.b} \subseteq Sockets
  BY <1>2 DEF Good, WellFormed, EngineStates, Pairs
<1>4. calls \in Seq(ValidCalls(engine))
  BY <1>3, CallTypes, ShortSequences
<1>5. todo' = [todo EXCEPT ![s] = calls]
  BY DEF Joined, Then
<1> HIDE DEF calls
<1> QED BY <1>2, <1>4, <1>5, Continues DEF IInv, ConnOK, TimersOK

-----------------------------------------------------------------------------
(* Initial states. *)

LEMMA EmptyIsGood == Good(EmptyEngine)
<1>1. EmptyEngine \in EngineStates
  BY MaxRoomsAssumption DEF EmptyEngine, EngineStates, Frames
<1>2. IsFiniteSet({})
  BY FS_EmptySet
<1>3. \A id \in RoomIds : ~Live(EmptyEngine, id)
  BY DEF EmptyEngine, Live
<1>4. /\ EmptyEngine.waiting_peers = {} /\ EmptyEngine.waiting_groups = {}
      /\ \A s \in Sockets : EmptyEngine.group_room_of_socket[s] = NoRoom
  BY DEF EmptyEngine
<1>5. Finite(EmptyEngine)
  BY <1>2, <1>3, <1>4 DEF Finite
<1>6. Sound(EmptyEngine)
  BY <1>3, <1>4
     DEF Sound, FreshIds, Seated, Populated, QueueAgrees, ListedOnce, Queued
<1> QED BY <1>1, <1>5, <1>6 DEF Good, WellFormed

LEMMA Start == Init => IInv
<1> SUFFICES ASSUME Init PROVE IInv
  OBVIOUS
<1>1. todo \in [Sockets -> Seq(ValidCalls(engine))]
  BY ShortSequences DEF Init
<1> QED BY <1>1, EmptyIsGood DEF Init, IInv, ConnOK, TimersOK

-----------------------------------------------------------------------------
(* Client messages. *)

\* Each of them keeps the registry, the connections and the timers as they were.
LEMMA Quiet ==
    ASSUME IInv, UNCHANGED <<hub, conn, timers>>
    PROVE  hub' \subseteq Sockets /\ ConnOK' /\ TimersOK'
BY DEF IInv, ConnOK, TimersOK

LEMMA QueueMessages ==
    ASSUME IInv, NEW s \in Sockets,
           QueueJoin(s) \/ RoomNext(s) \/ RoomLeave(s) \/ QueueHeartbeat(s)
    PROVE  IInv'
<1>1. CASE QueueJoin(s)
  <2>1. PICK p \in PrefsOf[s] : Joined(s, p, << >>)
    BY <1>1 DEF QueueJoin
  <2>2. p \in Preferences /\ << >> \in Seq(ValidCalls(engine))
    BY PrefsOfAssumption, ShortSequences
  <2> QED BY <1>1, <2>1, <2>2, JoinedStep DEF QueueJoin, Receive
<1>2. CASE RoomNext(s)
  <2>1. PICK p \in PrefsOf[s] : todo' = [todo EXCEPT ![s] = <<CallJoin(p)>>]
    BY <1>2 DEF RoomNext, Then
  <2>2. <<CallJoin(p)>> \in Seq(ValidCalls(engine))
    BY PrefsOfAssumption, CallTypes, ShortSequences
  <2>3. Good(engine') /\ Later(engine, engine')
    BY <1>2, LeaveRoomGood, SameIsLater DEF RoomNext, IInv
  <2> QED BY <1>2, <2>1, <2>2, <2>3, Quiet, Continues DEF RoomNext, Receive
<1>3. CASE RoomLeave(s)
  <2>1. <<CallLeave(s, TRUE)>> \in Seq(ValidCalls(engine))
    BY CallTypes, ShortSequences
  <2>2. Good(engine') /\ Later(engine, engine')
    BY <1>3, RemoveFromQueueGood, SameIsLater DEF RoomLeave, IInv
  <2> QED BY <1>3, <2>1, <2>2, Quiet, Continues DEF RoomLeave, Receive, Then
<1>4. CASE QueueHeartbeat(s)
  <2>1. Good(engine') /\ Later(engine, engine')
    BY <1>4, HeartbeatGood DEF QueueHeartbeat, RoomLeft, IInv
  <2> QED BY <1>4, <2>1, Quiet, Idles DEF QueueHeartbeat, Receive
<1> QED BY <1>1, <1>2, <1>3, <1>4

LEMMA SafetyMessages ==
    ASSUME IInv, NEW s \in Sockets, Report(s) \/ Block(s)
    PROVE  IInv'
<1>1. CASE Report(s)
  <2>1. <<CallPartner("report")>> \in Seq(ValidCalls(engine))
    BY CallTypes, ShortSequences
  <2> QED BY <1>1, <2>1, EngineIdle, Quiet, Continues DEF Report, Receive, Then
<1>2. CASE Block(s)
  <2>1. \/ todo' = [todo EXCEPT ![s] = <<CallPartner("block")>>]
        \/ /\ UserOf[s] # NoUser
           /\ \E u \in resolve_target_user(s) : todo' =
                 [todo EXCEPT ![s] = <<CallBlock(UserOf[s], u), CallPartner("block")>>]
    BY <1>2 DEF Block, Then
  <2>2. resolve_target_user(s) \subseteq Users
    BY DEF resolve_target_user
  <2>3. UserOf[s] # NoUser => UserOf[s] \in Users
    BY UserOfAssumption
  <2>4. \E calls \in Seq(ValidCalls(engine)) : todo' = [todo EXCEPT ![s] = calls]
    BY <2>1, <2>2, <2>3, CallTypes, ShortSequences
  <2> QED BY <1>2, <2>4, EngineIdle, Quiet, Continues DEF Block, Receive
<1> QED BY <1>1, <1>2

\* The creator of a lobby is mapped to it.
LEMMA CreatorIsMapped ==
    ASSUME Good(engine), engine.group_room_seq < MaxRooms, NEW s \in Sockets,
           NEW user \in Users, NEW prefs \in Preferences, NEW skip \in BOOLEAN
    PROVE  create_group_match_room(engine, s, user, prefs, skip).group_room_of_socket[s]
               = <<"groom", engine.group_room_seq + 1>>
<1> DEFINE left  == leave_group(engine, s)
           apart == leave_room(left, s, TRUE)
           free  == IF skip THEN left ELSE apart
           id    == <<"groom", free.group_room_seq + 1>>
           f     == create_group_match_room(engine, s, user, prefs, skip)
<1>1. Good(left) /\ SameCounters(engine, left)
  BY LeaveGroupGood
<1>2. Good(apart) /\ SameCounters(left, apart)
  BY <1>1, LeaveRoomGood
<1>3. Good(free) /\ free.group_room_seq = engine.group_room_seq
  BY <1>1, <1>2 DEF SameCounters
<1> HIDE DEF left, apart
<1>4. f.group_room_of_socket = [free.group_room_of_socket EXCEPT ![s] = id]
  BY <1>3 DEF create_group_match_room, left, apart, Tell, Good, WellFormed, EngineStates
<1> HIDE DEF f, free
<1>5. s \in DOMAIN free.group_room_of_socket
  BY <1>3 DEF Good, WellFormed, EngineStates
<1> QED BY <1>3, <1>4, <1>5 DEF f

\* A set of sockets that is not empty is listed by a sequence that is not.
LEMMA ListedSockets ==
    ASSUME NEW S, S \subseteq Sockets, S # {}, NEW l \in SetToSeqs(S)
    PROVE  l \in Seq(Sockets) \ {<< >>}
<1>1. IsFiniteSet(S)
  BY FiniteAssumption, FS_Subset
<1>2. Cardinality(S) \in Nat /\ Cardinality(S) # 0
  BY <1>1, FS_CardinalityType, FS_EmptySet
<1>3. l \in [1..Cardinality(S) -> S]
  BY DEF SetToSeqs
<1> QED BY <1>2, <1>3

LEMMA LobbyMessages ==
    ASSUME IInv, NEW s \in Sockets, GroupMatchCreate(s) \/ CreateAndInvite(s)
    PROVE  IInv'
<1>1. PICK p \in PrefsOf[s], skip \in BOOLEAN :
         engine' = create_group_match_room(engine, s, UserOf[s], p, skip)
  BY DEF GroupMatchCreate, CreateAndInvite
<1>2. p \in Preferences /\ UserOf[s] \in Users
  BY PrefsOfAssumption, UserOfAssumption DEF GroupMatchCreate, CreateAndInvite
<1>3. engine.group_room_seq < MaxRooms /\ Good(engine)
  BY DEF GroupMatchCreate, CreateAndInvite, IInv
<1>4. Good(engine') /\ Later(engine, engine')
  BY <1>1, <1>2, <1>3, CreateGood
<1>5. TimersOK'
  <2>1. CASE GroupMatchCreate(s)
    BY <2>1, Quiet DEF GroupMatchCreate, Receive
  <2>2. CASE CreateAndInvite(s)
    <3>1. engine'.group_room_of_socket[s] = <<"groom", engine.group_room_seq + 1>>
      BY <1>1, CreatorIsMapped, <1>2, <1>3
    <3>2. <<"groom", engine.group_room_seq + 1>> \in RoomIds
      BY <1>3, MaxRoomsAssumption DEF Good, WellFormed, EngineStates, RoomIds
    <3> DEFINE timer == [socket |-> s, room |-> engine'.group_room_of_socket[s],
                         state |-> "armed"]
    <3>3. timer \in [socket : Sockets, room : RoomIds, state : {"armed", "expired"}]
      BY <3>1, <3>2
    <3>4. timers' = timers \/ timers' = timers \cup {timer}
      BY <2>2 DEF CreateAndInvite
    <3> HIDE DEF timer
    <3> QED BY <3>3, <3>4 DEF TimersOK, IInv
  <2> QED BY <2>1, <2>2
<1>6. hub' \subseteq Sockets /\ ConnOK' /\ UNCHANGED todo
  BY DEF GroupMatchCreate, CreateAndInvite, Receive, IInv, ConnOK
<1> QED BY <1>4, <1>5, <1>6, Idles

LEMMA RoomMessages ==
    ASSUME IInv, NEW s \in Sockets,
           \/ GroupMatchJoin(s) \/ GroupMatchInviteDecline(s)
           \/ GroupMatchStart(s) \/ GroupMatchLeave(s)
    PROVE  IInv'
<1>1. CASE GroupMatchJoin(s)
  <2>1. PICK id \in RoomIds :
           /\ Live(engine, id)
           /\ todo' = [todo EXCEPT ![s] =
                 <<CallLeave(engine.group_rooms[id].host, TRUE), CallLeave(s, FALSE),
                   CallSeat(id, engine.group_rooms[id].prefs)>>]
    BY <1>1 DEF GroupMatchJoin, Then
  <2>2. engine.group_rooms[id] \in Groups
    BY <2>1 DEF IInv, Good, WellFormed, EngineStates, Live
  <2>3. \E calls \in Seq(ValidCalls(engine)) : todo' = [todo EXCEPT ![s] = calls]
    <3>1. /\ engine.group_rooms[id].host \in Sockets
          /\ engine.group_rooms[id].prefs \in Preferences
      BY <2>2 DEF Groups
    <3> QED BY <2>1, <3>1, CallTypes, ShortSequences
  <2> QED BY <1>1, <2>3, EngineIdle, Quiet, Continues DEF GroupMatchJoin, Receive
<1>2. CASE GroupMatchInviteDecline(s)
  <2>1. PICK id \in RoomIds :
           /\ Live(engine, id)
           /\ engine' = Tell(engine, {engine.group_rooms[id].host},
                             "group-match:invite-declined")
           /\ todo' = [todo EXCEPT ![s] = <<CallLeaveGroup(engine.group_rooms[id].host)>>]
    BY <1>2 DEF GroupMatchInviteDecline, Then
  <2>2. engine.group_rooms[id] \in Groups
    BY <2>1 DEF IInv, Good, WellFormed, EngineStates, Live
  <2>3. <<CallLeaveGroup(engine.group_rooms[id].host)>> \in Seq(ValidCalls(engine))
    BY <2>2, CallTypes, ShortSequences DEF Groups
  <2>4. Good(engine') /\ Later(engine, engine')
    BY <2>1, TellGood, SameIsLater DEF IInv, Frames
  <2> QED BY <1>2, <2>1, <2>3, <2>4, Quiet, Continues DEF GroupMatchInviteDecline, Receive
<1>3. CASE GroupMatchStart(s)
  <2>1. PICK id \in RoomIds :
           /\ Live(engine, id)
           /\ todo' = [todo EXCEPT ![s] = <<CallStart(id)>>]
    BY <1>3 DEF GroupMatchStart, Then
  <2>2. Allocated(engine, id)
    BY <2>1 DEF IInv, Good, Sound, FreshIds
  <2>3. <<CallStart(id)>> \in Seq(ValidCalls(engine))
    BY <2>2, CallTypes, ShortSequences
  <2> QED BY <1>3, <2>1, <2>3, EngineIdle, Quiet, Continues DEF GroupMatchStart, Receive
<1>4. CASE GroupMatchLeave(s)
  <2>1. <<CallLeaveGroup(s)>> \in Seq(ValidCalls(engine))
    BY CallTypes, ShortSequences
  <2>2. Good(engine') /\ Later(engine, engine')
    BY <1>4, RemoveFromQueueGood, SameIsLater DEF GroupMatchLeave, IInv
  <2> QED BY <1>4, <2>1, <2>2, Quiet, Continues DEF GroupMatchLeave, Receive, Then
<1> QED BY <1>1, <1>2, <1>3, <1>4

\* The tabs of both users are listed completely, so neither list is empty.
LEMMA AcceptMessage ==
    ASSUME IInv, NEW s \in Sockets, InvitationAccept(s)
    PROVE  IInv'
<1>1. PICK inviter, left, right :
         /\ sockets_for_user(inviter) # {} /\ sockets_for_user(UserOf[s]) # {}
         /\ left \in SetToSeqs(sockets_for_user(inviter))
         /\ right \in SetToSeqs(sockets_for_user(UserOf[s]))
         /\ todo' = [todo EXCEPT ![s] = <<CallMatch(left, right)>>]
  BY DEF InvitationAccept, Then
<1>2. \A u : sockets_for_user(u) \subseteq Sockets
  BY DEF sockets_for_user, IInv
<1>3. left \in Seq(Sockets) \ {<< >>} /\ right \in Seq(Sockets) \ {<< >>}
  BY <1>1, <1>2, ListedSockets
<1>4. <<CallMatch(left, right)>> \in Seq(ValidCalls(engine))
  BY <1>3, CallTypes, ShortSequences
<1> QED BY <1>1, <1>4, EngineIdle, Quiet, Continues DEF InvitationAccept, Receive

-----------------------------------------------------------------------------
(* Later calls of a handler. *)

\* A block is recorded next to the rooms.
LEMMA BlockGood ==
    ASSUME NEW e, Good(e), NEW block \in SUBSET Users, NEW f,
           f = [e EXCEPT !.blocked_pairs = @ \cup {block}]
    PROVE  Good(f) /\ Later(e, f)
<1>1. e \in EngineStates /\ IsFiniteSet(e.waiting_peers)
  BY DEF Good, WellFormed, Finite
<1>2. f \in EngineStates
  BY <1>1 DEF EngineStates
<1>3. /\ f.group_rooms = e.group_rooms /\ f.waiting_groups = e.waiting_groups
      /\ f.group_room_of_socket = e.group_room_of_socket
      /\ f.waiting_peers = e.waiting_peers /\ Later(e, f)
  BY <1>1 DEF EngineStates, Later
<1> QED BY <1>1, <1>2, <1>3, QuietStep

\* And a cooldown ends next to them.
LEMMA ForgetPairGood ==
    ASSUME NEW e, Good(e), NEW key, NEW f,
           f = [e EXCEPT !.recent_pairs = @ \ {key}]
    PROVE  Good(f) /\ Later(e, f)
<1>1. e \in EngineStates /\ IsFiniteSet(e.waiting_peers)
  BY DEF Good, WellFormed, Finite
<1>2. f \in EngineStates
  BY <1>1 DEF EngineStates
<1>3. /\ f.group_rooms = e.group_rooms /\ f.waiting_groups = e.waiting_groups
      /\ f.group_room_of_socket = e.group_room_of_socket
      /\ f.waiting_peers = e.waiting_peers /\ Later(e, f)
  BY <1>1 DEF EngineStates, Later
<1> QED BY <1>1, <1>2, <1>3, QuietStep

LEMMA LeaveCalls ==
    ASSUME IInv, NEW s \in Sockets,
           LeaveRoomCall(s) \/ LeaveGroupCall(s) \/ StartGroupCall(s)
    PROVE  IInv'
<1>1. /\ Head(todo[s]) \in EngineCalls /\ Tail(todo[s]) \in Seq(ValidCalls(engine))
      /\ Head(todo[s]).op = "start_group" => Allocated(engine, Head(todo[s]).room)
  BY NextCall DEF LeaveRoomCall, LeaveGroupCall, StartGroupCall, Calls
<1>2. Good(engine') /\ Later(engine, engine')
  <2>1. CASE LeaveRoomCall(s)
    <3>1. Head(todo[s]).who \in Sockets /\ Head(todo[s]).notify \in BOOLEAN
      BY <1>1, <2>1 DEF LeaveRoomCall, Calls, EngineCalls
    <3> QED BY <2>1, <3>1, LeaveRoomGood, SameIsLater DEF LeaveRoomCall, IInv
  <2>2. CASE LeaveGroupCall(s)
    <3>1. Head(todo[s]).who \in Sockets
      BY <1>1, <2>2 DEF LeaveGroupCall, Calls, EngineCalls
    <3> QED BY <2>2, <3>1, LeaveGroupGood, SameIsLater DEF LeaveGroupCall, IInv
  <2>3. CASE StartGroupCall(s)
    <3>1. Head(todo[s]).room \in RoomIds /\ Allocated(engine, Head(todo[s]).room)
      BY <1>1, <2>3 DEF StartGroupCall, Calls, EngineCalls
    <3> QED BY <2>3, <3>1, StartGood DEF StartGroupCall, RoomLeft, IInv
  <2> QED BY <2>1, <2>2, <2>3
<1>3. todo' = [todo EXCEPT ![s] = Tail(todo[s])] /\ UNCHANGED <<hub, conn, timers>>
  BY DEF LeaveRoomCall, LeaveGroupCall, StartGroupCall, Calls, Done
<1> QED BY <1>1, <1>2, <1>3, Quiet, Continues

LEMMA JoinCalls ==
    ASSUME IInv, NEW s \in Sockets, JoinQueueCall(s) \/ AddParticipantCall(s)
    PROVE  IInv'
<1>1. Head(todo[s]) \in EngineCalls /\ Tail(todo[s]) \in Seq(ValidCalls(engine))
  BY NextCall DEF JoinQueueCall, AddParticipantCall, Calls
<1>2. Head(todo[s]).prefs \in Preferences
  BY <1>1 DEF JoinQueueCall, AddParticipantCall, Calls, EngineCalls
<1>3. CASE JoinQueueCall(s)
  BY <1>1, <1>2, <1>3, JoinedStep DEF JoinQueueCall, Calls
<1>4. CASE AddParticipantCall(s)
  <2>1. Head(todo[s]).room \in RoomIds
    BY <1>1, <1>4 DEF AddParticipantCall, Calls, EngineCalls
  <2>2. UserOf[s] \in Users \cup {NoUser}
    BY UserOfAssumption
  <2>3. Good(engine') /\ Later(engine, engine')
    BY <1>2, <1>4, <2>1, <2>2, AddParticipantGood DEF AddParticipantCall, RoomLeft, IInv
  <2>4. todo' = [todo EXCEPT ![s] = Tail(todo[s])] /\ UNCHANGED <<hub, conn, timers>>
    BY <1>4 DEF AddParticipantCall, Calls, Done
  <2> QED BY <1>1, <2>3, <2>4, Quiet, Continues
<1> QED BY <1>3, <1>4

LEMMA SafetyCalls ==
    ASSUME IInv, NEW s \in Sockets,
           BlockPairCall(s) \/ ReadPartnerCall(s) \/ ReadGroupCall(s)
    PROVE  IInv'
<1>1. Head(todo[s]) \in EngineCalls /\ Tail(todo[s]) \in Seq(ValidCalls(engine))
  BY NextCall DEF BlockPairCall, ReadPartnerCall, ReadGroupCall, Calls
<1>2. UNCHANGED <<hub, conn, timers>>
  BY DEF BlockPairCall, ReadPartnerCall, ReadGroupCall, Calls
<1>3. CASE BlockPairCall(s)
  <2>1. Head(todo[s]).pair \in SUBSET Users
    BY <1>1, <1>3 DEF BlockPairCall, Calls, EngineCalls
  <2>2. engine' = [engine EXCEPT !.blocked_pairs = @ \cup {Head(todo[s]).pair}]
    BY <1>3 DEF BlockPairCall
  <2>3. Good(engine') /\ Later(engine, engine')
    BY <2>1, <2>2, BlockGood DEF IInv
  <2>4. todo' = [todo EXCEPT ![s] = Tail(todo[s])]
    BY <1>3 DEF BlockPairCall, Done
  <2> QED BY <1>1, <1>2, <2>3, <2>4, Quiet, Continues
<1>4. CASE ReadPartnerCall(s)
  <2>1. Head(todo[s]).order \in {"report", "block"}
    BY <1>1, <1>4 DEF ReadPartnerCall, Calls, EngineCalls
  <2>2. engine.partners[s] \in Sockets \cup {NoSocket}
    BY DEF IInv, Good, WellFormed, EngineStates
  <2>3. <<CallGroup(Head(todo[s]).order, engine.partners[s])>> \in Seq(ValidCalls(engine))
    BY <2>1, <2>2, CallTypes, ShortSequences
  <2> QED BY <1>2, <1>4, <2>3, EngineIdle, Quiet, Continues DEF ReadPartnerCall, Then
<1>5. CASE ReadGroupCall(s)
  <2> DEFINE group == IF engine.group_room_of_socket[s] = NoRoom THEN << >>
                      ELSE <<CallLeaveGroup(s)>>
             leave == <<CallLeave(s, TRUE)>>
             last  == LeaveRead(Head(todo[s]).partner)
             calls == (IF Head(todo[s]).order = "report" THEN leave \o group
                       ELSE group \o leave) \o last
  <2>1. Head(todo[s]).partner \in Sockets \cup {NoSocket}
    BY <1>1, <1>5 DEF ReadGroupCall, Calls, EngineCalls
  <2>2. group \in Seq(ValidCalls(engine)) /\ leave \in Seq(ValidCalls(engine))
    BY CallTypes, ShortSequences
  <2>3. last \in Seq(ValidCalls(engine))
    BY <2>1, CallTypes, ShortSequences DEF LeaveRead
  <2>4. todo' = [todo EXCEPT ![s] = calls]
    BY <1>5 DEF ReadGroupCall, Then
  <2> HIDE DEF group, leave, last
  <2>5. calls \in Seq(ValidCalls(engine))
    BY <2>2, <2>3, ShortSequences
  <2> HIDE DEF calls
  <2> QED BY <1>2, <1>5, <2>4, <2>5, EngineIdle, Quiet, Continues DEF ReadGroupCall
<1> QED BY <1>3, <1>4, <1>5

LEMMA MatchCalls ==
    ASSUME IInv, NEW s \in Sockets, MatchUsersCall(s) \/ AnnounceCall(s)
    PROVE  IInv'
<1>1. Head(todo[s]) \in EngineCalls /\ Tail(todo[s]) \in Seq(ValidCalls(engine))
  BY NextCall DEF MatchUsersCall, AnnounceCall, Calls
<1>2. UNCHANGED <<hub, conn, timers>>
  BY DEF MatchUsersCall, AnnounceCall, Calls
<1>3. CASE MatchUsersCall(s)
  <2> DEFINE left  == Head(todo[s]).left
             right == Head(todo[s]).right
  <2>1. left \in Seq(Sockets) \ {<< >>} /\ right \in Seq(Sockets) \ {<< >>}
    BY <1>1, <1>3 DEF MatchUsersCall, Calls, EngineCalls
  <2>2. /\ engine' = match_users(engine, left, right)
        /\ todo' = [todo EXCEPT ![s] = <<CallAnnounce(Range(left \o right))>>]
        /\ engine.room_seq < MaxRooms
    BY <1>3 DEF MatchUsersCall, Then, RoomLeft
  <2> HIDE DEF left, right
  <2>3. Good(engine') /\ Later(engine, engine')
    BY <2>1, <2>2, MatchUsersGood DEF IInv
  <2>4. left \o right \in Seq(Sockets)
    BY <2>1
  <2>5. Range(left \o right) \subseteq Sockets
    BY <2>4 DEF Range
  <2>6. <<CallAnnounce(Range(left \o right))>> \in Seq(ValidCalls(engine))
    BY <2>5, CallTypes, ShortSequences
  <2> QED BY <1>2, <2>2, <2>3, <2>6, Quiet, Continues
<1>4. CASE AnnounceCall(s)
  <2>1. Good(engine') /\ Later(engine, engine')
    BY <1>4, TellGood, SameIsLater DEF AnnounceCall, IInv, Frames
  <2>2. todo' = [todo EXCEPT ![s] = Tail(todo[s])]
    BY <1>4 DEF AnnounceCall, Done
  <2> QED BY <1>1, <1>2, <2>1, <2>2, Quiet, Continues
<1> QED BY <1>3, <1>4

-----------------------------------------------------------------------------
(* Timers, connections, time. *)

LEMMA TimerSteps ==
    ASSUME IInv, NEW t \in timers, InviteTimeout(t) \/ InviteExpired(t)
    PROVE  IInv'
<1>1. t \in [socket : Sockets, room : RoomIds, state : {"armed", "expired"}]
  BY DEF IInv, TimersOK
<1>2. UNCHANGED <<hub, conn, todo>>
  BY DEF InviteTimeout, InviteExpired
<1>3. Good(engine') /\ Later(engine, engine')
  <2>1. CASE InviteTimeout(t)
    <3>1. engine' = engine \/ engine' = Tell(engine, {t.socket}, "group-match:invite-declined")
      BY <2>1 DEF InviteTimeout
    <3>2. engine' = Tell(engine, {t.socket}, "group-match:invite-declined")
             => Good(engine') /\ Later(engine, engine')
      BY TellGood, SameIsLater DEF IInv, Frames
    <3> QED BY <3>1, <3>2, EngineIdle
  <2>2. CASE InviteExpired(t)
    BY <1>1, <2>2, LeaveGroupGood, SameIsLater DEF InviteExpired, IInv
  <2> QED BY <2>1, <2>2
<1>4. TimersOK'
  <2>1. [t EXCEPT !.state = "expired"] \in
            [socket : Sockets, room : RoomIds, state : {"armed", "expired"}]
    BY <1>1
  <2>2. timers' \subseteq timers \cup {[t EXCEPT !.state = "expired"]}
    BY DEF InviteTimeout, InviteExpired
  <2> QED BY <2>1, <2>2 DEF TimersOK, IInv
<1> QED BY <1>2, <1>3, <1>4, Idles DEF IInv, ConnOK

LEMMA ConnectionSteps ==
    ASSUME IInv, NEW s \in Sockets, SlowConsumer(s) \/ Teardown(s) \/ Forget(s)
    PROVE  IInv'
<1>1. Good(engine') /\ Later(engine, engine')
  <2>1. CASE Teardown(s)
    BY <2>1, FullRemoveGood, SameIsLater DEF Teardown, IInv
  <2>2. CASE UNCHANGED engine
    BY <2>2, EngineIdle
  <2> QED BY <2>1, <2>2 DEF SlowConsumer, Forget
<1>2. UNCHANGED <<todo, timers>>
  BY DEF SlowConsumer, Teardown, Forget
<1>3. hub' \subseteq Sockets /\ ConnOK'
  BY DEF SlowConsumer, Teardown, Forget, IInv, ConnOK
<1>4. TimersOK'
  BY <1>2 DEF TimersOK, IInv
<1> QED BY <1>1, <1>2, <1>3, <1>4, Idles

LEMMA CooldownStep ==
    ASSUME IInv, PairForgotten
    PROVE  IInv'
<1>1. Good(engine') /\ Later(engine, engine')
  BY ForgetPairGood DEF PairForgotten, IInv
<1> QED BY <1>1, Quiet, Idles DEF PairForgotten

LEMMA Stutter ==
    ASSUME IInv, UNCHANGED vars
    PROVE  IInv'
BY EngineIdle, Quiet, Idles DEF vars

-----------------------------------------------------------------------------
(* The inductive invariant and what follows from it. *)

LEMMA Step == IInv /\ [Next]_vars => IInv'
<1> SUFFICES ASSUME IInv, [Next]_vars PROVE IInv'
  OBVIOUS
<1>1. ASSUME NEW s \in Sockets, ClientMessage(s) PROVE IInv'
  BY <1>1, QueueMessages, SafetyMessages, LobbyMessages, RoomMessages, AcceptMessage
     DEF ClientMessage
<1>2. ASSUME NEW s \in Sockets, HandlerCall(s) PROVE IInv'
  BY <1>2, LeaveCalls, JoinCalls, SafetyCalls, MatchCalls DEF HandlerCall
<1>3. ASSUME NEW s \in Sockets, SlowConsumer(s) \/ Teardown(s) \/ Forget(s) PROVE IInv'
  BY <1>3, ConnectionSteps
<1>4. ASSUME NEW t \in timers, InviteTimeout(t) \/ InviteExpired(t) PROVE IInv'
  BY <1>4, TimerSteps
<1> QED BY <1>1, <1>2, <1>3, <1>4, CooldownStep, Stutter DEF Next

\* Every reachable state of the server satisfies the inductive invariant.
THEOREM Invariant == Spec => []IInv
BY Start, Step, PTL DEF Spec

\* The maps of the engine, the registry, the calls in progress and the timers
\* always have their types, however many connections and rooms there are.
THEOREM TypeCorrect == Spec => []TypeOK
<1>1. IInv => TypeOK
  <2> SUFFICES ASSUME IInv PROVE TypeOK
    OBVIOUS
  <2>1. ValidCalls(engine) \subseteq EngineCalls
    BY DEF ValidCalls
  <2>2. Seq(ValidCalls(engine)) \subseteq Seq(EngineCalls)
    <3> HIDE DEF ValidCalls
    <3> QED BY <2>1
  <2>3. todo \in [Sockets -> Seq(EngineCalls)]
    BY <2>2 DEF IInv
  <2> QED BY <2>3 DEF IInv, ConnOK, TimersOK, Good, WellFormed, TypeOK
<1> QED BY <1>1, Invariant, PTL

\* No socket is ever mapped to a group room that is gone or in which it has no
\* seat: merges, takeovers of seats and releases clear the mapping of everybody
\* they drop.
THEOREM MappingIsSound == Spec => []MappingSound
<1>1. IInv => MappingSound
  BY DEF IInv, Good, Sound, Seated, MappingSound, room_of
<1> QED BY <1>1, Invariant, PTL

\* The flag in_queue of a live room is set exactly if the room is listed in
\* waiting_groups, and it is listed once: no room is merged with itself.
THEOREM QueueIsSound == Spec => []QueueSound
<1>1. IInv => QueueSound
  BY DEF IInv, Good, Sound, QueueAgrees, ListedOnce, QueueSound
<1> QED BY <1>1, Invariant, PTL

\* A group room ends with its last seat, and nobody sits in it twice.
THEOREM NoRoomIsEmpty == Spec => []NoEmptyRoom
<1>1. IInv => NoEmptyRoom
  BY DEF IInv, Good, Sound, Populated, OneEach, NoEmptyRoom
<1> QED BY <1>1, Invariant, PTL

-----------------------------------------------------------------------------
(* The waiting list.  Whoever waits was compared with everybody ahead of it  *)
(* when it was pushed; the list only loses people after that, blocks and     *)
(* remembered pairs only come, but for the cooldowns that end.               *)

\* The later of two peers searched while the earlier one waited.
Searched(e, a, b) ==
    /\ a.at < b.at /\ "group" \notin {a.prefs.scope, b.prefs.scope}
    /\ b.prefs.allow_same \/ ~CooldownEnds
    => ~may_meet(e, b, a)

\* The engine is a record with the fields of EngineState.
Shaped(e) == DOMAIN e = DOMAIN EmptyEngine

\* Nobody waits twice, everybody waits under its own account, positions do not
\* exceed the length of the list, and no match was missed.
InOrder(e) ==
    /\ e.waiting_peers \subseteq Peers /\ IsFiniteSet(e.waiting_peers)
    /\ OneEach(e.waiting_peers)
    /\ \A p \in e.waiting_peers : /\ p.user = UserOf[p.socket]
                                  /\ p.at <= Cardinality(e.waiting_peers)
    /\ \A a, b \in e.waiting_peers : Searched(e, a, b)

\* What an operation does to the order: blocks are not its business.
OrderKept(e, f) ==
    /\ Shaped(f) /\ f.blocked_pairs = e.blocked_pairs
    /\ InOrder(e) => InOrder(f)

\* An operation that leaves the waiting list alone and forgets no pair.
SameList(e, f) ==
    /\ f.waiting_peers = e.waiting_peers
    /\ e.blocked_pairs \subseteq f.blocked_pairs
    /\ e.recent_pairs \subseteq f.recent_pairs

\* Whether two peers may meet does not depend on where they wait, and more
\* blocks or more remembered pairs make nobody compatible.
LEMMA MeetLess ==
    ASSUME NEW e, NEW f, e.blocked_pairs \subseteq f.blocked_pairs,
           e.recent_pairs \subseteq f.recent_pairs,
           NEW a, NEW b, NEW x, NEW y,
           x.socket = a.socket, x.user = a.user, x.prefs = a.prefs,
           x.session = a.session, y.socket = b.socket, y.user = b.user,
           y.prefs = b.prefs, y.session = b.session,
           may_meet(f, x, y)
    PROVE  may_meet(e, a, b)
<1>1. pair_keys(x, y) = pair_keys(a, b)
  BY DEF pair_keys, user_key, session_key
<1>2. is_recent_pair(e.recent_pairs, a, b) => is_recent_pair(f.recent_pairs, x, y)
  BY <1>1 DEF is_recent_pair
<1>3. is_blocked_pair(e.blocked_pairs, a.user, b.user)
         => is_blocked_pair(f.blocked_pairs, x.user, y.user)
  BY DEF is_blocked_pair
<1>4. pool_ok(x, y) => pool_ok(a, b)
  BY DEF pool_ok
<1> QED BY <1>2, <1>3, <1>4 DEF may_meet, compatible

LEMMA SameListKeeps ==
    ASSUME NEW e, NEW f, SameList(e, f), InOrder(e)
    PROVE  InOrder(f)
<1>1. \A a, b \in e.waiting_peers : may_meet(f, b, a) => may_meet(e, b, a)
  BY MeetLess DEF SameList
<1> QED BY <1>1 DEF InOrder, SameList, Searched

\* Closing the gaps keeps the order of the list.
LEMMA CompactOrder ==
    ASSUME NEW Q, IsFiniteSet(Q), Q \subseteq Peers, OneEach(Q)
    PROVE  \A x \in Compact(Q) :
              /\ x.at <= Cardinality(Compact(Q))
              /\ \E a \in Q :
                    /\ x.socket = a.socket /\ x.user = a.user
                    /\ x.prefs = a.prefs /\ x.session = a.session
                    /\ x.at = Rank(a, Q)
<1> DEFINE f == [x \in Q |-> [x EXCEPT !.at = Rank(x, Q)]]
<1>1. \A x \in Q : Rank(x, Q) \in Nat
  BY RankType
<1>2. \A x \in Q : /\ f[x].socket = x.socket /\ f[x].user = x.user
                   /\ f[x].prefs = x.prefs /\ f[x].session = x.session
                   /\ f[x].at = Rank(x, Q)
  BY <1>1 DEF Peers
<1>3. Compact(Q) = {f[x] : x \in Q}
  BY DEF Compact
<1>4. f \in Surjection(Q, Compact(Q)) /\ f \in Injection(Q, Compact(Q))
  <2>1. f \in [Q -> Compact(Q)]
    BY <1>3
  <2> HIDE DEF f
  <2>2. \A x, y \in Q : f[x] = f[y] => x = y
    BY <1>2 DEF OneEach
  <2>3. \A z \in Compact(Q) : \E x \in Q : f[x] = z
    BY <1>3
  <2> QED BY <2>1, <2>2, <2>3 DEF Surjection, Injection, IsInjective
<1> HIDE DEF f
<1>5. Cardinality(Compact(Q)) = Cardinality(Q)
  BY <1>4, FS_Surjection
<1>6. \A x \in Q : Rank(x, Q) <= Cardinality(Q)
  <2> TAKE x \in Q
  <2>1. {y \in Q : y.at <= x.at} \subseteq Q
    OBVIOUS
  <2> QED BY <2>1, FS_Subset DEF Rank
<1> QED BY <1>2, <1>3, <1>5, <1>6

\* A position later in the compact list was later before.
LEMMA RankOrder ==
    ASSUME NEW Q, IsFiniteSet(Q), Q \subseteq Peers, NEW a \in Q, NEW b \in Q,
           Rank(a, Q) < Rank(b, Q)
    PROVE  a.at < b.at
<1> SUFFICES ASSUME ~(a.at < b.at) PROVE FALSE
  OBVIOUS
<1> DEFINE A == {y \in Q : y.at <= a.at}
           B == {y \in Q : y.at <= b.at}
<1>1. \A y \in Q : y.at \in Nat
  BY DEF Peers
<1>2. B \subseteq A
  BY <1>1
<1>3. IsFiniteSet(A)
  BY FS_Subset
<1> HIDE DEF A, B
<1>4. Cardinality(B) <= Cardinality(A) /\ Cardinality(A) \in Nat /\ Cardinality(B) \in Nat
  BY <1>2, <1>3, FS_Subset, FS_CardinalityType
<1> QED BY <1>4 DEF Rank, A, B

LEMMA DropWaitingOrder ==
    ASSUME NEW e, Shaped(e), NEW s
    PROVE  OrderKept(e, drop_waiting(e, s))
<1> DEFINE Q == {p \in e.waiting_peers : p.socket # s}
           f == drop_waiting(e, s)
<1>1. /\ f.waiting_peers = Compact(Q) /\ f.blocked_pairs = e.blocked_pairs
      /\ f.recent_pairs = e.recent_pairs /\ Shaped(f)
  BY DEF drop_waiting, Shaped, EmptyEngine
<1>2. f = drop_waiting(e, s)
  OBVIOUS
<1> HIDE DEF f
<1> SUFFICES ASSUME InOrder(e) PROVE InOrder(f)
  BY <1>1, <1>2 DEF OrderKept
<1>3. IsFiniteSet(Q) /\ Q \subseteq Peers
  BY FS_Subset DEF InOrder
<1>4. OneEach(Q) /\ Q \subseteq e.waiting_peers
  BY DEF InOrder, OneEach
<1> HIDE DEF Q
<1>5. \A x \in Compact(Q) :
         /\ x.at <= Cardinality(Compact(Q))
         /\ \E a \in Q : /\ x.socket = a.socket /\ x.user = a.user
                         /\ x.prefs = a.prefs /\ x.session = a.session
                         /\ x.at = Rank(a, Q)
  BY <1>3, <1>4, CompactOrder
<1>6. Compact(Q) \subseteq Peers /\ IsFiniteSet(Compact(Q)) /\ OneEach(Compact(Q))
  BY <1>3, <1>4, CompactPeers
<1>7. ASSUME NEW x \in Compact(Q), NEW y \in Compact(Q) PROVE Searched(f, x, y)
  <2>1. PICK a \in Q : /\ x.socket = a.socket /\ x.user = a.user
                       /\ x.prefs = a.prefs /\ x.session = a.session
                       /\ x.at = Rank(a, Q)
    BY <1>5
  <2>2. PICK b \in Q : /\ y.socket = b.socket /\ y.user = b.user
                       /\ y.prefs = b.prefs /\ y.session = b.session
                       /\ y.at = Rank(b, Q)
    BY <1>5
  <2>3. x.at < y.at => a.at < b.at
    BY <1>3, <2>1, <2>2, RankOrder
  <2>4. may_meet(f, y, x) => may_meet(e, b, a)
    BY <1>1, <2>1, <2>2, MeetLess
  <2>5. Searched(e, a, b)
    BY <1>4 DEF InOrder
  <2> QED BY <2>1, <2>2, <2>3, <2>4, <2>5 DEF Searched
<1>8. \A x \in Compact(Q) : x.user = UserOf[x.socket]
  BY <1>4, <1>5 DEF InOrder
<1> QED BY <1>1, <1>5, <1>6, <1>7, <1>8 DEF InOrder

\* An operation that keeps the list, the blocks and the pairs keeps the order.
LEMMA SameOrder ==
    ASSUME NEW e, NEW f, Shaped(f), f.waiting_peers = e.waiting_peers,
           f.blocked_pairs = e.blocked_pairs, e.recent_pairs \subseteq f.recent_pairs
    PROVE  OrderKept(e, f)
BY SameListKeeps DEF OrderKept, SameList

LEMMA OrderChains ==
    ASSUME NEW e, NEW f, NEW g, OrderKept(e, f), OrderKept(f, g)
    PROVE  OrderKept(e, g)
BY DEF OrderKept

LEMMA TellOrder ==
    ASSUME NEW e, Shaped(e), NEW S, NEW frame
    PROVE  OrderKept(e, Tell(e, S, frame))
BY SameOrder DEF Tell, Shaped, EmptyEngine

LEMMA DequeueOrder ==
    ASSUME NEW e, Shaped(e), NEW ids
    PROVE  OrderKept(e, dequeue_groups(e, ids))
<1> DEFINE f == dequeue_groups(e, ids)
<1>1. /\ f.waiting_peers = e.waiting_peers /\ f.blocked_pairs = e.blocked_pairs
      /\ f.recent_pairs = e.recent_pairs /\ Shaped(f)
  BY DEF dequeue_groups, Shaped, EmptyEngine
<1> HIDE DEF f
<1> QED BY <1>1, SameOrder DEF f

LEMMA RemoveFromQueueOrder ==
    ASSUME NEW e, Shaped(e), NEW s
    PROVE  OrderKept(e, remove_from_queue(e, s))
BY DropWaitingOrder, DequeueOrder, OrderChains DEF remove_from_queue, OrderKept

LEMMA LeaveRoomOrder ==
    ASSUME NEW e, Shaped(e), NEW s, NEW notify
    PROVE  OrderKept(e, leave_room(e, s, notify))
<1> DEFINE f == leave_room(e, s, notify)
<1>1. /\ f.waiting_peers = e.waiting_peers /\ f.blocked_pairs = e.blocked_pairs
      /\ f.recent_pairs = e.recent_pairs /\ Shaped(f)
  BY DEF leave_room, Tell, Shaped, EmptyEngine
<1> HIDE DEF f
<1> QED BY <1>1, SameOrder DEF f

LEMMA LeaveGroupOrder ==
    ASSUME NEW e, Shaped(e), NEW s
    PROVE  OrderKept(e, leave_group(e, s))
<1> DEFINE f == leave_group(e, s)
<1>1. /\ f.waiting_peers = e.waiting_peers /\ f.blocked_pairs = e.blocked_pairs
      /\ f.recent_pairs = e.recent_pairs /\ Shaped(f)
  BY DEF leave_group, dissolve, Tell, Shaped, EmptyEngine
<1> HIDE DEF f
<1> QED BY SMTT(30), <1>1, SameOrder DEF f

LEMMA FullRemoveOrder ==
    ASSUME NEW e, Shaped(e), NEW s
    PROVE  OrderKept(e, full_remove(e, s))
<1> DEFINE a == remove_from_queue(e, s)
           b == leave_group(a, s)
<1>1. OrderKept(e, a)
  BY RemoveFromQueueOrder
<1> HIDE DEF a
<1>2. OrderKept(a, b)
  BY <1>1, LeaveGroupOrder DEF OrderKept
<1> HIDE DEF b
<1>3. OrderKept(b, leave_room(b, s, TRUE))
  BY <1>2, LeaveRoomOrder DEF OrderKept
<1> QED BY <1>1, <1>2, <1>3, OrderChains DEF full_remove, a, b

LEMMA NotifyOrder ==
    ASSUME NEW e, Shaped(e), NEW A, NEW B, NEW from
    PROVE  OrderKept(e, notify_group_match(e, A, B, from))
<1> DEFINE f == notify_group_match(e, A, B, from)
<1>1. /\ f.waiting_peers = e.waiting_peers /\ f.blocked_pairs = e.blocked_pairs
      /\ f.recent_pairs = e.recent_pairs /\ Shaped(f)
  BY DEF notify_group_match, Tell, Shaped, EmptyEngine
<1> HIDE DEF f
<1> QED BY <1>1, SameOrder DEF f

LEMMA RememberOrder ==
    ASSUME NEW e, Shaped(e), NEW a, NEW b
    PROVE  OrderKept(e, remember_pair(e, a, b))
<1> DEFINE f == remember_pair(e, a, b)
<1>1. /\ f.waiting_peers = e.waiting_peers /\ f.blocked_pairs = e.blocked_pairs
      /\ e.recent_pairs \subseteq f.recent_pairs /\ Shaped(f)
  BY DEF remember_pair, Shaped, EmptyEngine
<1> HIDE DEF f
<1> QED BY <1>1, SameOrder DEF f

LEMMA PairUpOrder ==
    ASSUME NEW e, Shaped(e), NEW a, NEW b
    PROVE  OrderKept(e, pair_up(e, a, b))
<1> DEFINE f == pair_up(e, a, b)
<1>1. /\ f.waiting_peers = e.waiting_peers /\ f.blocked_pairs = e.blocked_pairs
      /\ e.recent_pairs \subseteq f.recent_pairs /\ Shaped(f)
  BY DEF pair_up, Shaped, EmptyEngine
<1> HIDE DEF f
<1> QED BY <1>1, SameOrder DEF f

LEMMA MergeSoloOrder ==
    ASSUME NEW e, Shaped(e), NEW peer, NEW id
    PROVE  OrderKept(e, merge_solo_with_group(e, peer, id))
<1> DEFINE dropped == drop_waiting(e, peer.socket)
           ready   == dequeue_groups(dropped, {id})
           merged  == notify_group_match(ready, members(ready, id), {peer}, NoRoom)
           g       == merged.group_rooms[id]
           host    == [at |-> 0, socket |-> g.host, user |-> g.host_user,
                       prefs |-> g.prefs, session |-> NoSession]
           final   == remember_pair(merged, peer, host)
<1> SUFFICES OrderKept(e, merged) /\ OrderKept(e, final)
  BY DEF merge_solo_with_group
<1>1. OrderKept(e, dropped)
  BY DropWaitingOrder
<1> HIDE DEF dropped
<1>2. OrderKept(dropped, ready)
  BY <1>1, DequeueOrder DEF OrderKept
<1> HIDE DEF ready
<1>3. OrderKept(ready, merged)
  BY <1>2, NotifyOrder DEF OrderKept
<1> HIDE DEF merged
<1>4. OrderKept(merged, final)
  BY <1>3, RememberOrder DEF OrderKept
<1> HIDE DEF final
<1> QED BY <1>1, <1>2, <1>3, <1>4, OrderChains

LEMMA MergeGroupsOrder ==
    ASSUME NEW e, Shaped(e), NEW a, NEW b
    PROVE  OrderKept(e, merge_groups_and_match(e, a, b))
BY DequeueOrder, NotifyOrder, OrderChains DEF merge_groups_and_match, OrderKept

LEMMA TryMatchOrder ==
    ASSUME NEW e, Shaped(e), NEW id
    PROVE  OrderKept(e, try_match_group(e, id))
<1> DEFINE f == try_match_group(e, id)
<1>1. \/ f = e
      \/ \E b : f = merge_groups_and_match(e, id, b)
      \/ \E p : f = merge_solo_with_group(e, p, id)
      \/ \E A : f = notify_group_match(dequeue_groups(e, {id}), A, {}, id)
  BY DEF try_match_group
<1> SUFFICES OrderKept(e, f)
  OBVIOUS
<1> HIDE DEF f
<1>2. OrderKept(e, e)
  BY DEF OrderKept
<1>3. \A A : OrderKept(e, notify_group_match(dequeue_groups(e, {id}), A, {}, id))
  BY DequeueOrder, NotifyOrder, OrderChains DEF OrderKept
<1> QED BY SMTT(30), <1>1, <1>2, <1>3, MergeGroupsOrder, MergeSoloOrder

LEMMA EnqueueOrder ==
    ASSUME NEW e, Shaped(e), NEW id
    PROVE  OrderKept(e, enqueue_group(e, id))
<1> DEFINE f == enqueue_group(e, id)
<1>1. /\ f.waiting_peers = e.waiting_peers /\ f.blocked_pairs = e.blocked_pairs
      /\ f.recent_pairs = e.recent_pairs /\ Shaped(f)
  BY DEF enqueue_group, Tell, Shaped, EmptyEngine
<1> HIDE DEF f
<1> QED BY <1>1, SameOrder DEF f

LEMMA StartOrder ==
    ASSUME NEW e, Shaped(e), NEW id
    PROVE  OrderKept(e, start_group_match(e, id))
BY EnqueueOrder, TryMatchOrder, OrderChains DEF start_group_match, OrderKept

LEMMA HeartbeatOrder ==
    ASSUME NEW e, Shaped(e), NEW s
    PROVE  OrderKept(e, heartbeat(e, s))
<1> DEFINE f == heartbeat(e, s)
<1>1. \/ f = e
      \/ \E p, id : f = merge_solo_with_group(e, p, id)
      \/ \E id : f = try_match_group(e, id)
  BY DEF heartbeat
<1> SUFFICES OrderKept(e, f)
  OBVIOUS
<1> HIDE DEF f
<1>2. OrderKept(e, e)
  BY DEF OrderKept
<1> QED BY <1>1, <1>2, MergeSoloOrder, TryMatchOrder

LEMMA CreateOrder ==
    ASSUME NEW e, Shaped(e), NEW s, NEW user, NEW prefs, NEW skip
    PROVE  OrderKept(e, create_group_match_room(e, s, user, prefs, skip))
<1> DEFINE left  == leave_group(e, s)
           apart == leave_room(left, s, TRUE)
           free  == IF skip THEN left ELSE apart
           f     == create_group_match_room(e, s, user, prefs, skip)
<1>1. OrderKept(e, left)
  BY LeaveGroupOrder
<1> HIDE DEF left
<1>2. OrderKept(left, apart)
  BY <1>1, LeaveRoomOrder DEF OrderKept
<1> HIDE DEF apart
<1>3. OrderKept(e, free)
  BY <1>1, <1>2, OrderChains
<1> HIDE DEF free
<1>4. /\ f.waiting_peers = free.waiting_peers /\ f.blocked_pairs = free.blocked_pairs
      /\ f.recent_pairs = free.recent_pairs /\ Shaped(f)
  BY <1>3 DEF create_group_match_room, free, left, apart, Tell, OrderKept, Shaped,
              EmptyEngine
<1>5. OrderKept(free, f)
  <2> HIDE DEF f
  <2> QED BY <1>4, SameOrder
<1> QED BY <1>3, <1>5, OrderChains

LEMMA AddParticipantOrder ==
    ASSUME NEW e, Shaped(e), NEW id, NEW s, NEW user, NEW prefs
    PROVE  OrderKept(e, add_participant_to_group(e, id, s, user, prefs))
<1> DEFINE out     == remove_from_queue(e, s)
           other   == IF e.rooms_by_socket[s] = NoPair THEN NoSocket ELSE e.partners[s]
           apart   == [out EXCEPT
                         !.partners = IF e.rooms_by_socket[s] = NoPair THEN @
                                      ELSE Clear(@, {s, other}, NoSocket),
                         !.rooms_by_socket = Clear(@, {s, other}, NoPair)]
           free    == Tell(apart, {other}, "room:peer-left")
           others  == {p \in members(free, id) : p.socket # s}
           mine    == members(free, id) \ others
           seat    == [peer_of(s, user, prefs) EXCEPT
                         !.at = IF mine = {} THEN NextAt(others)
                                ELSE (CHOOSE p \in mine : TRUE).at]
           taken   == [free EXCEPT !.group_rooms[id].participants = others \cup {seat},
                                   !.group_room_of_socket[s] = id]
           seated  == Tell(taken, {s}, "group-match:created")
           queued  == IF seated.group_rooms[id].in_queue THEN seated
                      ELSE enqueue_group(seated, id)
           f       == add_participant_to_group(e, id, s, user, prefs)
<1>1. f = free \/ f = seated \/ f = try_match_group(queued, id)
  BY DEF add_participant_to_group
<1> SUFFICES OrderKept(e, f)
  OBVIOUS
<1> HIDE DEF f
<1>2. OrderKept(e, out)
  BY RemoveFromQueueOrder
<1> HIDE DEF out, other
<1>3. /\ free.waiting_peers = out.waiting_peers /\ free.blocked_pairs = out.blocked_pairs
      /\ free.recent_pairs = out.recent_pairs /\ Shaped(free)
  BY <1>2 DEF Tell, OrderKept, Shaped, EmptyEngine
<1> HIDE DEF free
<1>4. OrderKept(e, free)
  BY <1>2, <1>3, SameOrder, OrderChains
<1> HIDE DEF others, seat
<1>5. /\ seated.waiting_peers = free.waiting_peers
      /\ seated.blocked_pairs = free.blocked_pairs
      /\ seated.recent_pairs = free.recent_pairs /\ Shaped(seated)
  BY <1>4 DEF Tell, OrderKept, Shaped, EmptyEngine
<1> HIDE DEF seated
<1>6. OrderKept(e, seated)
  BY <1>4, <1>5, SameOrder, OrderChains
<1>7. OrderKept(e, queued)
  BY <1>5, <1>6, EnqueueOrder, OrderChains
<1> HIDE DEF queued
<1>8. OrderKept(e, try_match_group(queued, id))
  BY <1>7, TryMatchOrder, OrderChains DEF OrderKept
<1> QED BY <1>1, <1>4, <1>6, <1>8

\* The only place a peer is pushed: it met nobody it might have met.
LEMMA PushWaitingOrder ==
    ASSUME NEW e, Shaped(e), NEW peer \in Peers, peer.user = UserOf[peer.socket],
           peer.socket \notin SocketsOf(e.waiting_peers), solo_candidates(e, peer) = {}
    PROVE  OrderKept(e, push_waiting(e, peer))
<1> DEFINE seat == [peer EXCEPT !.at = NextAt(e.waiting_peers)]
           f == push_waiting(e, peer)
<1>1. /\ f.waiting_peers = e.waiting_peers \cup {seat}
      /\ f.blocked_pairs = e.blocked_pairs
      /\ f.recent_pairs = e.recent_pairs /\ Shaped(f)
  BY DEF push_waiting, Tell, Shaped, EmptyEngine
<1>2. f = push_waiting(e, peer)
  OBVIOUS
<1> HIDE DEF f
<1> SUFFICES ASSUME InOrder(e) PROVE InOrder(f)
  BY <1>1, <1>2 DEF OrderKept
<1> DEFINE Q == e.waiting_peers
<1>3. /\ Q \subseteq Peers /\ IsFiniteSet(Q) /\ OneEach(Q)
      /\ \A p \in Q : p.user = UserOf[p.socket] /\ p.at <= Cardinality(Q)
      /\ \A a, b \in Q : Searched(e, a, b)
  BY DEF InOrder
<1>4. /\ seat \in Peers /\ seat.socket = peer.socket /\ seat.user = peer.user
      /\ seat.prefs = peer.prefs /\ seat.session = peer.session
      /\ seat.at = Cardinality(Q) + 1 /\ Cardinality(Q) \in Nat
  BY <1>3, FS_CardinalityType DEF Peers, NextAt
<1>5. \A p \in Q : p.socket # seat.socket
  BY <1>4 DEF SocketsOf
<1> HIDE DEF seat
<1>6. seat \notin Q
  BY <1>5
<1>7. IsFiniteSet(Q \cup {seat}) /\ Cardinality(Q \cup {seat}) = Cardinality(Q) + 1
  BY <1>3, <1>6, FS_AddElement
<1>8. ASSUME NEW a \in Q PROVE Searched(f, a, seat)
  <2>1. "group" \notin {a.prefs.scope, peer.prefs.scope} => ~may_meet(e, peer, a)
    BY DEF solo_candidates
  <2>2. may_meet(f, seat, a) => may_meet(e, peer, a)
    BY <1>1, <1>4, MeetLess
  <2> QED BY <1>4, <2>1, <2>2 DEF Searched
<1>9. ASSUME NEW a \in Q PROVE ~(seat.at < a.at) /\ ~(seat.at < seat.at)
  BY <1>3, <1>4 DEF Peers
<1>10. ASSUME NEW a \in Q, NEW b \in Q PROVE Searched(f, a, b)
  <2>1. may_meet(f, b, a) => may_meet(e, b, a)
    BY <1>1, MeetLess
  <2> QED BY <1>3, <2>1 DEF Searched
<1>11. \A a, b \in Q \cup {seat} : Searched(f, a, b)
  <2>1. ~(seat.at < seat.at)
    BY <1>4
  <2> QED BY <1>8, <1>9, <1>10, <2>1 DEF Searched
<1>12. OneEach(Q \cup {seat})
  BY <1>3, <1>5 DEF OneEach
<1>13. \A p \in Q \cup {seat} :
          p.user = UserOf[p.socket] /\ p.at <= Cardinality(Q \cup {seat})
  <2>1. \A p \in Q : p.at \in Nat
    BY <1>3 DEF Peers
  <2> QED BY <1>3, <1>4, <1>7, <2>1
<1> QED BY <1>1, <1>3, <1>4, <1>7, <1>11, <1>12, <1>13 DEF InOrder

\* Nobody with this socket waits after remove_from_queue.
LEMMA DroppedIsGone ==
    ASSUME NEW e, Shaped(e), InOrder(e), NEW s
    PROVE  s \notin SocketsOf(remove_from_queue(e, s).waiting_peers)
<1> DEFINE Q == {p \in e.waiting_peers : p.socket # s}
           f == remove_from_queue(e, s)
<1>1. f.waiting_peers = Compact(Q)
  BY DEF remove_from_queue, drop_waiting, dequeue_groups, Shaped, EmptyEngine
<1>2. IsFiniteSet(Q) /\ Q \subseteq Peers
  BY FS_Subset DEF InOrder
<1>3. SocketsOf(Compact(Q)) = SocketsOf(Q)
  <2> HIDE DEF Q
  <2> QED BY <1>2, CompactPeers
<1> HIDE DEF f
<1> QED BY <1>1, <1>3 DEF SocketsOf, f

\* What join_queue does before it looks for somebody.
LEMMA BeforeJoinOrder ==
    ASSUME NEW e, Shaped(e), NEW s, NEW idle,
           idle = [leave_group(leave_room(remove_from_queue(e, s), s, TRUE), s)
                      EXCEPT !.peer_meta = @ \cup {s}]
    PROVE  /\ OrderKept(e, idle)
           /\ InOrder(e) => s \notin SocketsOf(idle.waiting_peers)
<1> DEFINE out   == remove_from_queue(e, s)
           apart == leave_room(out, s, TRUE)
           away  == leave_group(apart, s)
<1>1. OrderKept(e, out)
  BY RemoveFromQueueOrder
<1>2. InOrder(e) => s \notin SocketsOf(out.waiting_peers)
  BY DroppedIsGone
<1> HIDE DEF out
<1>3. OrderKept(out, apart) /\ apart.waiting_peers = out.waiting_peers
  BY ZenonT(40), <1>1, LeaveRoomOrder DEF OrderKept, leave_room, Tell, Shaped, EmptyEngine
<1> HIDE DEF apart
<1>4. OrderKept(apart, away) /\ away.waiting_peers = apart.waiting_peers
  BY <1>3, LeaveGroupOrder
     DEF OrderKept, leave_group, dissolve, Tell, Shaped, EmptyEngine
<1>5. idle = [away EXCEPT !.peer_meta = @ \cup {s}]
  BY DEF out, apart
<1> HIDE DEF away
<1>6. /\ idle.waiting_peers = away.waiting_peers /\ Shaped(idle)
      /\ idle.blocked_pairs = away.blocked_pairs /\ idle.recent_pairs = away.recent_pairs
  BY <1>4, <1>5 DEF OrderKept, Shaped, EmptyEngine
<1>7. OrderKept(e, idle)
  BY ONLY <1>1, <1>3, <1>4, <1>6, SameOrder, OrderChains
<1> QED BY <1>2, <1>3, <1>4, <1>6, <1>7

LEMMA JoinQueueOrder ==
    ASSUME NEW e, Shaped(e), NEW s \in Sockets, NEW prefs \in Preferences
    PROVE  OrderKept(e, join_queue(e, s, UserOf[s], prefs))
<1> DEFINE me     == peer_of(s, UserOf[s], prefs)
           idle   == [leave_group(leave_room(remove_from_queue(e, s), s, TRUE), s)
                         EXCEPT !.peer_meta = @ \cup {s}]
           solos  == solo_candidates(idle, me)
           f      == join_queue(e, s, UserOf[s], prefs)
<1>1. \/ \E c : f = pair_up(remember_pair(drop_waiting(idle, c.socket), me, c),
                            s, c.socket)
      \/ \E id : f = merge_solo_with_group(idle, me, id)
      \/ solos = {} /\ f = push_waiting(idle, me)
  BY DEF join_queue
<1> SUFFICES OrderKept(e, f)
  OBVIOUS
<1> HIDE DEF f
<1>2. me \in Peers /\ me.socket = s /\ me.user = UserOf[s]
  BY PeerOfType, UserOfAssumption DEF peer_of
<1> HIDE DEF me
<1>3. OrderKept(e, idle) /\ (InOrder(e) => s \notin SocketsOf(idle.waiting_peers))
  BY BeforeJoinOrder
<1>4. Shaped(idle)
  BY <1>3 DEF OrderKept
<1> HIDE DEF idle
<1>5. ASSUME NEW c, f = pair_up(remember_pair(drop_waiting(idle, c.socket), me, c),
                                s, c.socket)
      PROVE  OrderKept(e, f)
  <2> DEFINE without == drop_waiting(idle, c.socket)
             noted   == remember_pair(without, me, c)
  <2>1. OrderKept(idle, without)
    BY <1>4, DropWaitingOrder
  <2> HIDE DEF without
  <2>2. OrderKept(without, noted)
    BY <2>1, RememberOrder DEF OrderKept
  <2> HIDE DEF noted
  <2>3. OrderKept(noted, pair_up(noted, s, c.socket))
    BY <2>2, PairUpOrder DEF OrderKept
  <2> QED BY <1>3, <1>5, <2>1, <2>2, <2>3, OrderChains DEF noted, without
<1>6. ASSUME NEW id, f = merge_solo_with_group(idle, me, id)
      PROVE  OrderKept(e, f)
  BY <1>3, <1>4, <1>6, MergeSoloOrder, OrderChains
<1>7. ASSUME solos = {}, f = push_waiting(idle, me)
      PROVE  OrderKept(e, f)
  <2>1. CASE InOrder(e)
    <3>1. OrderKept(idle, f)
      BY <1>2, <1>3, <1>4, <1>7, <2>1, PushWaitingOrder
    <3> QED BY <1>3, <3>1, OrderChains
  <2>2. CASE ~InOrder(e)
    <3>1. Shaped(f) /\ f.blocked_pairs = idle.blocked_pairs
      BY <1>4, <1>7 DEF push_waiting, Tell, Shaped, EmptyEngine
    <3> QED BY <1>3, <2>2, <3>1 DEF OrderKept
  <2> QED BY <2>1, <2>2
<1> QED BY <1>1, <1>5, <1>6, <1>7

LEMMA MatchUsersOrder ==
    ASSUME NEW e, Shaped(e), NEW left, NEW right
    PROVE  OrderKept(e, match_users(e, left, right))
<1> DEFINE f == leave_all(e, left \o right)
<1>1. /\ f.waiting_peers = e.waiting_peers /\ f.blocked_pairs = e.blocked_pairs
      /\ f.recent_pairs = e.recent_pairs /\ Shaped(f)
  BY DEF leave_all, Shaped, EmptyEngine
<1>2. match_users(e, left, right) = pair_up(f, left[1], right[1])
  BY DEF match_users
<1> HIDE DEF f
<1>3. OrderKept(e, f)
  BY <1>1, SameOrder
<1> QED BY SMTT(30), <1>2, <1>3, PairUpOrder, OrderChains DEF OrderKept

\* What a step of the server does to the list, besides blocks and cooldowns.
Waits == Shaped(engine) /\ InOrder(engine)

LEMMA OrderedStep ==
    ASSUME Waits, OrderKept(engine, engine')
    PROVE  Waits'
BY DEF Waits, OrderKept

LEMMA JoinedOrder ==
    ASSUME Waits, NEW s \in Sockets, NEW p \in Preferences, NEW rest, Joined(s, p, rest)
    PROVE  Waits'
BY JoinQueueOrder, OrderedStep DEF Joined, Waits

LEMMA MessageOrder ==
    ASSUME Waits, NEW s \in Sockets, ClientMessage(s)
    PROVE  Waits'
<1> USE DEF Waits
<1>1. CASE QueueJoin(s)
  BY <1>1, JoinedOrder, PrefsOfAssumption DEF QueueJoin
<1>2. CASE RoomNext(s)
  BY <1>2, LeaveRoomOrder, OrderedStep DEF RoomNext
<1>3. CASE RoomLeave(s) \/ GroupMatchLeave(s)
  BY <1>3, RemoveFromQueueOrder, OrderedStep DEF RoomLeave, GroupMatchLeave
<1>4. CASE QueueHeartbeat(s)
  BY <1>4, HeartbeatOrder, OrderedStep DEF QueueHeartbeat
<1>5. CASE GroupMatchCreate(s) \/ CreateAndInvite(s)
  BY <1>5, CreateOrder, OrderedStep DEF GroupMatchCreate, CreateAndInvite
<1>6. CASE GroupMatchInviteDecline(s)
  BY <1>6, TellOrder, OrderedStep DEF GroupMatchInviteDecline
<1>7. CASE UNCHANGED engine
  BY <1>7
<1> QED BY <1>1, <1>2, <1>3, <1>4, <1>5, <1>6, <1>7
       DEF ClientMessage, Report, Block, GroupMatchJoin, GroupMatchStart,
           InvitationAccept

\* A block and the end of a cooldown change what the list is compared with.
LEMMA BlockOrder ==
    ASSUME Waits, NEW S, engine' = [engine EXCEPT !.blocked_pairs = @ \cup S]
    PROVE  Waits'
<1>1. SameList(engine, engine') /\ Shaped(engine')
  BY DEF Waits, Shaped, EmptyEngine, SameList
<1> QED BY <1>1, SameListKeeps DEF Waits

\* Once cooldowns may end nothing is promised to those who search with a
\* memory, and whoever searches without one never consulted it.
LEMMA ForgottenOrder ==
    ASSUME Waits, PairForgotten
    PROVE  Waits'
<1>1. PICK key \in engine.recent_pairs :
         engine' = [engine EXCEPT !.recent_pairs = @ \ {key}]
  BY DEF PairForgotten
<1>2. /\ Shaped(engine') /\ engine'.waiting_peers = engine.waiting_peers
      /\ engine'.blocked_pairs = engine.blocked_pairs
  BY <1>1 DEF Waits, Shaped, EmptyEngine
<1>3. ASSUME NEW a \in engine.waiting_peers, NEW b \in engine.waiting_peers,
             Searched(engine, a, b)
      PROVE  Searched(engine', a, b)
  <2>1. b.prefs.allow_same /\ may_meet(engine', b, a) => may_meet(engine, b, a)
    BY <1>2 DEF may_meet, compatible
  <2> QED BY <1>3, <2>1 DEF Searched, PairForgotten
<1> QED BY <1>2, <1>3 DEF Waits, InOrder

LEMMA CallOrder ==
    ASSUME IInv, Waits, NEW s \in Sockets, HandlerCall(s)
    PROVE  Waits'
<1>1. CASE LeaveRoomCall(s)
  BY <1>1, LeaveRoomOrder, OrderedStep DEF LeaveRoomCall, Waits
<1>2. CASE LeaveGroupCall(s)
  BY <1>2, LeaveGroupOrder, OrderedStep DEF LeaveGroupCall, Waits
<1>3. CASE JoinQueueCall(s)
  <2>1. Head(todo[s]).prefs \in Preferences
    BY <1>3, NextCall DEF JoinQueueCall, Calls, EngineCalls
  <2> QED BY <1>3, <2>1, JoinedOrder DEF JoinQueueCall
<1>4. CASE AddParticipantCall(s)
  BY <1>4, AddParticipantOrder, OrderedStep DEF AddParticipantCall, Waits
<1>5. CASE StartGroupCall(s)
  BY <1>5, StartOrder, OrderedStep DEF StartGroupCall, Waits
<1>6. CASE BlockPairCall(s)
  BY <1>6, BlockOrder DEF BlockPairCall
<1>7. CASE MatchUsersCall(s)
  BY <1>7, MatchUsersOrder, OrderedStep DEF MatchUsersCall, Waits
<1>8. CASE AnnounceCall(s)
  BY <1>8, TellOrder, OrderedStep DEF AnnounceCall, Waits
<1>9. CASE UNCHANGED engine
  BY <1>9 DEF Waits
<1> QED BY <1>1, <1>2, <1>3, <1>4, <1>5, <1>6, <1>7, <1>8, <1>9
       DEF HandlerCall, ReadPartnerCall, ReadGroupCall

LEMMA WaitsStart == Init => Waits
<1> SUFFICES ASSUME Init PROVE Waits
  OBVIOUS
<1>1. engine.waiting_peers = {} /\ Shaped(engine)
  BY DEF Init, EmptyEngine, Shaped
<1> QED BY <1>1, FS_EmptySet DEF Waits, InOrder, OneEach

LEMMA WaitsStep == IInv /\ Waits /\ [Next]_vars => Waits'
<1> SUFFICES ASSUME IInv, Waits, [Next]_vars PROVE Waits'
  OBVIOUS
<1>1. ASSUME NEW s \in Sockets, SlowConsumer(s) \/ Teardown(s) \/ Forget(s) PROVE Waits'
  <2>1. CASE Teardown(s)
    BY <2>1, FullRemoveOrder, OrderedStep DEF Teardown, Waits
  <2>2. CASE UNCHANGED engine
    BY <2>2 DEF Waits
  <2> QED BY <1>1, <2>1, <2>2 DEF SlowConsumer, Forget
<1>2. ASSUME NEW t \in timers, InviteTimeout(t) \/ InviteExpired(t) PROVE Waits'
  <2>1. CASE InviteExpired(t)
    BY <2>1, LeaveGroupOrder, OrderedStep DEF InviteExpired, Waits
  <2>2. CASE engine' = Tell(engine, {t.socket}, "group-match:invite-declined")
    BY <2>2, TellOrder, OrderedStep DEF Waits
  <2>3. CASE UNCHANGED engine
    BY <2>3 DEF Waits
  <2> QED BY <1>2, <2>1, <2>2, <2>3 DEF InviteTimeout
<1>3. CASE UNCHANGED vars
  BY <1>3 DEF Waits, vars
<1> QED BY <1>1, <1>2, <1>3, MessageOrder, CallOrder, ForgottenOrder DEF Next

\* Whoever waits may not be matched with anybody ahead of it in the list: no
\* join, leave, merge, teardown, block or takeover lets a match be missed that
\* was there to be made, and none puts a socket into the list twice.
THEOREM NoMatchIsMissed == Spec => []NoMissedMatch
<1>1. Spec => []Waits
  BY Invariant, WaitsStart, WaitsStep, PTL DEF Spec
<1>2. Waits => NoMissedMatch
  BY DEF Waits, InOrder, Searched, NoMissedMatch
<1> QED BY <1>1, <1>2, PTL

-----------------------------------------------------------------------------
(***************************************************************************)
(* One-to-one matching, for every number of connections: as long as nobody *)
(* opens a lobby or answers a direct invitation, the engine's maps agree,  *)
(* who waits is idle, who is gone leaves no trace, the server implements   *)
(* the specification Pairing, and a block separates two accounts.          *)
(***************************************************************************)
NoGroups(e) ==
    /\ \A id \in RoomIds : ~Live(e, id)
    /\ e.waiting_groups = {}

\* Both maps pair s with t.
Matched(e, s, t) ==
    /\ e.partners[t] = s
    /\ e.rooms_by_socket[s] # NoPair
    /\ {e.rooms_by_socket[s].a, e.rooms_by_socket[s].b} = {s, t}
    /\ e.rooms_by_socket[t] = e.rooms_by_socket[s]

\* PartnersAgree, of any engine state.
Agree(e) ==
    \A s \in Sockets :
        IF e.partners[s] = NoSocket THEN e.rooms_by_socket[s] = NoPair
        ELSE Matched(e, s, e.partners[s])

\* Who waits does so once and has no partner.
Idle(e) ==
    /\ OneEach(e.waiting_peers)
    /\ \A s \in SocketsOf(e.waiting_peers) : e.partners[s] = NoSocket

Apart(e) == Good(e) /\ NoGroups(e) /\ Agree(e) /\ Idle(e)

\* The match of s ends for both ends.
Freed(e, s) == Clear(e.partners, {s, e.partners[s]}, NoSocket)

\* What the operations do to partners, waiting people and meta data.
Stays(e, f) ==
    /\ f.partners = e.partners /\ f.rooms_by_socket = e.rooms_by_socket
    /\ f.waiting_peers = e.waiting_peers /\ f.peer_meta = e.peer_meta

Quits(e, f, s) ==
    /\ f.partners = e.partners /\ f.peer_meta = e.peer_meta
    /\ SocketsOf(f.waiting_peers) = SocketsOf(e.waiting_peers) \ {s}

Ends(e, f, s) ==
    /\ f.partners = Freed(e, s) /\ f.peer_meta = e.peer_meta \ {s}
    /\ f.waiting_peers = e.waiting_peers

Vanishes(e, f, s) ==
    /\ f.partners = Freed(e, s) /\ f.peer_meta = e.peer_meta \ {s}
    /\ SocketsOf(f.waiting_peers) = SocketsOf(e.waiting_peers) \ {s}

Joins(e, f, s) ==
    /\ f.peer_meta = e.peer_meta \cup {s}
    /\ \/ /\ f.partners = Freed(e, s)
          /\ SocketsOf(f.waiting_peers) = SocketsOf(e.waiting_peers) \cup {s}
       \/ \E t \in SocketsOf(e.waiting_peers) \ {s} :
             /\ f.partners = [Freed(e, s) EXCEPT ![s] = t, ![t] = s]
             /\ SocketsOf(f.waiting_peers) = SocketsOf(e.waiting_peers) \ {s, t}

-----------------------------------------------------------------------------
(* Engine operations without group rooms. *)

LEMMA Unmapped ==
    ASSUME NEW e, Apart(e), NEW s \in Sockets
    PROVE  e.group_room_of_socket[s] = NoRoom /\ leave_group(e, s) = e
<1>1. e.group_room_of_socket[s] = NoRoom
  <2>1. e.group_room_of_socket[s] \in RoomIds \cup {NoRoom}
    BY DEF Apart, Good, WellFormed, EngineStates
  <2> QED BY <2>1 DEF Apart, Good, Sound, Seated, NoGroups
<1> QED BY <1>1 DEF leave_group

\* An operation that touches neither rooms nor pairs.
LEMMA StayApart ==
    ASSUME NEW e, Apart(e), NEW f, Good(f), Stays(e, f),
           f.group_rooms = e.group_rooms, f.waiting_groups = e.waiting_groups
    PROVE  Apart(f)
<1>1. NoGroups(f)
  BY DEF Apart, NoGroups, Live
<1>2. Agree(f) /\ Idle(f)
  BY DEF Apart, Stays, Agree, Matched, Idle
<1> QED BY <1>1, <1>2 DEF Apart

LEMMA TellApart ==
    ASSUME NEW e, Apart(e), NEW S, NEW frame \in Frames
    PROVE  Apart(Tell(e, S, frame)) /\ Stays(e, Tell(e, S, frame))
<1> DEFINE f == Tell(e, S, frame)
<1>1. e \in EngineStates /\ Good(f)
  BY TellGood DEF Apart, Good, WellFormed
<1>2. /\ Stays(e, f) /\ f.group_rooms = e.group_rooms
      /\ f.waiting_groups = e.waiting_groups
  BY <1>1 DEF Tell, Stays, EngineStates
<1>3. f = Tell(e, S, frame)
  OBVIOUS
<1> HIDE DEF f
<1> QED BY <1>1, <1>2, <1>3, StayApart

\* Without s in the queue the rest is as it was.
LEMMA DropApart ==
    ASSUME NEW e, Apart(e), NEW s, NEW f, Good(f), NoGroups(f),
           f.partners = e.partners, f.rooms_by_socket = e.rooms_by_socket,
           f.peer_meta = e.peer_meta,
           f.waiting_peers = Compact({p \in e.waiting_peers : p.socket # s})
    PROVE  Apart(f) /\ Quits(e, f, s)
<1> DEFINE Q == {p \in e.waiting_peers : p.socket # s}
<1>1. e.waiting_peers \subseteq Peers /\ IsFiniteSet(e.waiting_peers)
  BY DEF Apart, Good, WellFormed, Finite, EngineStates
<1>2. IsFiniteSet(Q) /\ Q \subseteq Peers /\ OneEach(Q)
  BY <1>1, FS_Subset DEF Apart, Idle, OneEach
<1>3. SocketsOf(Compact(Q)) = SocketsOf(Q) /\ OneEach(Compact(Q))
  BY <1>2, CompactPeers
<1>4. SocketsOf(Q) = SocketsOf(e.waiting_peers) \ {s}
  BY DEF SocketsOf
<1>5. f.waiting_peers = Compact(Q)
  OBVIOUS
<1> HIDE DEF Q
<1>6. Quits(e, f, s)
  BY <1>3, <1>4, <1>5 DEF Quits
<1>7. Agree(f)
  BY DEF Apart, Agree, Matched
<1>8. Idle(f)
  BY <1>3, <1>4, <1>5 DEF Apart, Idle
<1> QED BY <1>6, <1>7, <1>8 DEF Apart

LEMMA RemoveFromQueueApart ==
    ASSUME NEW e, Apart(e), NEW s
    PROVE  /\ Apart(remove_from_queue(e, s)) /\ Quits(e, remove_from_queue(e, s), s)
           /\ remove_from_queue(e, s).rooms_by_socket = e.rooms_by_socket
<1> DEFINE d == drop_waiting(e, s)
           f == remove_from_queue(e, s)
<1>1. e \in EngineStates /\ Queued(e) = {} /\ Good(f)
  BY RemoveFromQueueGood DEF Apart, Good, WellFormed, NoGroups, Queued
<1>2. f = dequeue_groups(d, {})
  BY <1>1 DEF remove_from_queue
<1>3. /\ d.group_rooms = e.group_rooms /\ d.waiting_groups = {}
      /\ d.partners = e.partners /\ d.rooms_by_socket = e.rooms_by_socket
      /\ d.peer_meta = e.peer_meta
      /\ d.waiting_peers = Compact({p \in e.waiting_peers : p.socket # s})
  BY <1>1 DEF drop_waiting, EngineStates, Apart, NoGroups
<1>4. d \in EngineStates
  BY DropWaitingGood DEF Apart, Good, WellFormed
<1> HIDE DEF d, f
<1>5. /\ f.partners = e.partners /\ f.rooms_by_socket = e.rooms_by_socket
      /\ f.peer_meta = e.peer_meta
      /\ f.waiting_peers = Compact({p \in e.waiting_peers : p.socket # s})
      /\ f.waiting_groups = Compact({})
      /\ \A id \in RoomIds : ~Live(f, id)
  BY <1>1, <1>2, <1>3, <1>4 DEF dequeue_groups, EngineStates, Live, Apart, NoGroups
<1>6. NoGroups(f)
  BY <1>5 DEF NoGroups, Compact
<1> QED BY <1>1, <1>5, <1>6, DropApart DEF f

\* A match ends in both maps at once.
LEMMA CutApart ==
    ASSUME NEW e, Apart(e), NEW s \in Sockets, NEW f, Good(f), NoGroups(f),
           f.partners = Freed(e, s), f.waiting_peers = e.waiting_peers,
           f.rooms_by_socket = Clear(e.rooms_by_socket, {s, e.partners[s]}, NoPair)
    PROVE  Apart(f)
<1>1. /\ DOMAIN e.partners = Sockets /\ DOMAIN e.rooms_by_socket = Sockets
      /\ \A x \in Sockets : e.partners[x] \in Sockets \cup {NoSocket}
      /\ e.waiting_peers \subseteq Peers
  BY DEF Apart, Good, WellFormed, EngineStates
<1>2. \A x \in Sockets :
         /\ f.partners[x] = IF x \in {s, e.partners[s]} THEN NoSocket ELSE e.partners[x]
         /\ f.rooms_by_socket[x] = IF x \in {s, e.partners[s]} THEN NoPair
                                   ELSE e.rooms_by_socket[x]
  BY <1>1 DEF Freed, Clear
<1>3. \A x \in Sockets : x \notin {s, e.partners[s]} =>
         e.partners[x] \notin {s, e.partners[s]} \/ e.partners[x] = NoSocket
  BY <1>1, NullAssumption DEF Apart, Agree, Matched
<1>4. Agree(f)
  <2>1. \A x \in Sockets : f.partners[x] = NoSocket => f.rooms_by_socket[x] = NoPair
    BY <1>2 DEF Apart, Agree
  <2> SUFFICES ASSUME NEW x \in Sockets, f.partners[x] # NoSocket
               PROVE  Matched(f, x, f.partners[x])
    BY <2>1 DEF Agree
  <2>2. x \notin {s, e.partners[s]} /\ f.partners[x] = e.partners[x]
        /\ f.rooms_by_socket[x] = e.rooms_by_socket[x]
    BY <1>2
  <2>3. e.partners[x] \in Sockets /\ e.partners[x] \notin {s, e.partners[s]}
    BY <1>1, <1>3, <2>2
  <2>4. /\ f.partners[e.partners[x]] = e.partners[e.partners[x]]
        /\ f.rooms_by_socket[e.partners[x]] = e.rooms_by_socket[e.partners[x]]
    BY <1>2, <2>3
  <2> QED BY SMTT(30), <2>2, <2>3, <2>4 DEF Apart, Agree, Matched
<1>5. Idle(f)
  <2>1. SocketsOf(f.waiting_peers) \subseteq Sockets
    BY <1>1 DEF SocketsOf, Peers
  <2> QED BY <1>2, <2>1 DEF Apart, Idle
<1> QED BY <1>4, <1>5 DEF Apart

LEMMA LeaveRoomApart ==
    ASSUME NEW e, Apart(e), NEW s \in Sockets, NEW notify \in BOOLEAN
    PROVE  Apart(leave_room(e, s, notify)) /\ Ends(e, leave_room(e, s, notify), s)
<1> DEFINE mate    == e.partners[s]
           room    == e.rooms_by_socket[s]
           ends    == IF room = NoPair THEN {} ELSE {room.a, room.b}
           left    == [e EXCEPT
                         !.partners = Clear(@, {s, mate}, NoSocket),
                         !.rooms_by_socket = Clear(@, {s} \cup ends, NoPair),
                         !.peer_meta = @ \ {s}]
           f       == leave_room(e, s, notify)
<1>1. e \in EngineStates /\ Good(f)
  BY LeaveRoomGood DEF Apart, Good, WellFormed
<1>2. f = left \/ f = Tell(left, {mate}, "room:peer-left")
  BY DEF leave_room
<1>3. /\ left.partners = Freed(e, s)
      /\ left.rooms_by_socket = Clear(e.rooms_by_socket, {s} \cup ends, NoPair)
      /\ left.peer_meta = e.peer_meta \ {s} /\ left.waiting_peers = e.waiting_peers
      /\ left.group_rooms = e.group_rooms /\ left.waiting_groups = e.waiting_groups
      /\ DOMAIN left = DOMAIN e
  BY <1>1 DEF EngineStates, Freed
<1>4. \A S : Clear(e.rooms_by_socket, S, NoPair)
               = Clear(e.rooms_by_socket, S \cap Sockets, NoPair)
  BY <1>1 DEF EngineStates, Clear
<1>5. ({s} \cup ends) \cap Sockets = {s, mate} \cap Sockets
  BY NullAssumption DEF Apart, Agree, Matched
<1>6. left.rooms_by_socket = Clear(e.rooms_by_socket, {s, mate}, NoPair)
  BY ZenonT(40), <1>3, <1>4, <1>5
<1> HIDE DEF left, f, ends
<1>7. /\ f.partners = Freed(e, s) /\ f.peer_meta = e.peer_meta \ {s}
      /\ f.rooms_by_socket = Clear(e.rooms_by_socket, {s, mate}, NoPair)
      /\ f.waiting_peers = e.waiting_peers
      /\ f.group_rooms = e.group_rooms /\ f.waiting_groups = e.waiting_groups
  BY <1>1, <1>2, <1>3, <1>6 DEF Tell, EngineStates
<1>8. NoGroups(f)
  BY <1>7 DEF Apart, NoGroups, Live
<1>9. Apart(f)
  BY <1>1, <1>7, <1>8, CutApart
<1> QED BY <1>7, <1>9 DEF Ends, f

LEMMA FullRemoveApart ==
    ASSUME NEW e, Apart(e), NEW s \in Sockets
    PROVE  Apart(full_remove(e, s)) /\ Vanishes(e, full_remove(e, s), s)
<1> DEFINE a == remove_from_queue(e, s)
           f == leave_room(a, s, TRUE)
<1>1. Apart(a) /\ Quits(e, a, s)
  BY RemoveFromQueueApart
<1> HIDE DEF a
<1>2. leave_group(a, s) = a
  BY <1>1, Unmapped
<1>3. Apart(f) /\ Ends(a, f, s)
  BY <1>1, LeaveRoomApart
<1>4. full_remove(e, s) = f
  BY <1>2 DEF full_remove, a
<1> HIDE DEF f
<1> QED BY <1>1, <1>3, <1>4 DEF Quits, Ends, Vanishes, Freed

\* A new match of two people without partners.
LEMMA MeetApart ==
    ASSUME NEW e, Apart(e), NEW s \in Sockets, NEW t \in Sockets, s # t,
           e.partners[s] = NoSocket, e.partners[t] = NoSocket,
           NEW room \in Pairs, room.a = s, room.b = t, NEW f, Good(f), NoGroups(f),
           f.partners = [e.partners EXCEPT ![s] = t, ![t] = s],
           f.rooms_by_socket = [e.rooms_by_socket EXCEPT ![s] = room, ![t] = room],
           OneEach(f.waiting_peers),
           SocketsOf(f.waiting_peers) \subseteq SocketsOf(e.waiting_peers) \ {s, t}
    PROVE  Apart(f)
<1>1. /\ DOMAIN e.partners = Sockets /\ DOMAIN e.rooms_by_socket = Sockets
      /\ \A x \in Sockets : e.partners[x] \in Sockets \cup {NoSocket}
      /\ SocketsOf(f.waiting_peers) \subseteq Sockets
  BY DEF Apart, Good, WellFormed, EngineStates, SocketsOf, Peers
<1>2. \A x \in Sockets :
         /\ f.partners[x] = IF x = t THEN s ELSE IF x = s THEN t ELSE e.partners[x]
         /\ f.rooms_by_socket[x] = IF x \in {s, t} THEN room ELSE e.rooms_by_socket[x]
  BY <1>1
<1>3. \A x \in Sockets \ {s, t} : e.partners[x] \notin {s, t}
  BY <1>1, NullAssumption DEF Apart, Agree, Matched
<1>4. Agree(f)
  <2>1. \A x \in Sockets : f.partners[x] = NoSocket => f.rooms_by_socket[x] = NoPair
    BY <1>2, NullAssumption DEF Apart, Agree
  <2>2. Matched(f, s, t) /\ Matched(f, t, s)
    BY <1>2, PairAssumption DEF Matched
  <2>3. ASSUME NEW x \in Sockets \ {s, t}, e.partners[x] # NoSocket
        PROVE  Matched(f, x, e.partners[x])
    <3>1. e.partners[x] \in Sockets \ {s, t}
      BY <1>1, <1>3, <2>3
    <3>2. /\ f.partners[e.partners[x]] = e.partners[e.partners[x]]
          /\ f.rooms_by_socket[e.partners[x]] = e.rooms_by_socket[e.partners[x]]
          /\ f.rooms_by_socket[x] = e.rooms_by_socket[x]
      BY <1>2, <3>1
    <3> QED BY <2>3, <3>2 DEF Apart, Agree, Matched
  <2> QED BY <1>2, <2>1, <2>2, <2>3 DEF Agree
<1>5. Idle(f)
  BY <1>1, <1>2 DEF Apart, Idle
<1> QED BY <1>4, <1>5 DEF Apart

\* The meta data of s is written next to the maps.
LEMMA MetaApart ==
    ASSUME NEW e, Apart(e), NEW s \in Sockets, NEW f,
           f = [e EXCEPT !.peer_meta = @ \cup {s}]
    PROVE  /\ Apart(f) /\ f.partners = e.partners
           /\ f.waiting_peers = e.waiting_peers
           /\ f.peer_meta = e.peer_meta \cup {s} /\ SameCounters(e, f)
<1>1. e \in EngineStates /\ IsFiniteSet(e.waiting_peers)
  BY DEF Apart, Good, WellFormed, Finite
<1>2. f \in EngineStates
  BY <1>1 DEF EngineStates
<1>3. /\ f.partners = e.partners /\ f.rooms_by_socket = e.rooms_by_socket
      /\ f.waiting_peers = e.waiting_peers /\ f.group_rooms = e.group_rooms
      /\ f.waiting_groups = e.waiting_groups
      /\ f.group_room_of_socket = e.group_room_of_socket
      /\ f.peer_meta = e.peer_meta \cup {s}
      /\ SameCounters(e, f) /\ Later(e, f)
  BY <1>1 DEF EngineStates, SameCounters, Later
<1>4. Good(f)
  BY <1>1, <1>2, <1>3, QuietStep DEF Apart
<1>5. NoGroups(f) /\ Agree(f) /\ Idle(f)
  BY <1>3 DEF Apart, NoGroups, Live, Agree, Matched, Idle
<1> QED BY <1>3, <1>4, <1>5 DEF Apart

\* Everything join_queue does before it looks for somebody.
LEMMA BeforeJoin ==
    ASSUME NEW e, Apart(e), NEW s \in Sockets, NEW idle,
           idle = [leave_group(leave_room(remove_from_queue(e, s), s, TRUE), s)
                      EXCEPT !.peer_meta = @ \cup {s}]
    PROVE  /\ Apart(idle) /\ idle.partners = Freed(e, s)
           /\ SocketsOf(idle.waiting_peers) = SocketsOf(e.waiting_peers) \ {s}
           /\ idle.peer_meta = e.peer_meta \cup {s} /\ SameCounters(e, idle)
<1> DEFINE out   == remove_from_queue(e, s)
           apart == leave_room(out, s, TRUE)
<1>1. /\ Apart(out) /\ Quits(e, out, s) /\ SameCounters(e, out)
  BY RemoveFromQueueApart, RemoveFromQueueGood DEF Apart
<1> HIDE DEF out
<1>2. /\ Apart(apart) /\ Ends(out, apart, s) /\ SameCounters(out, apart)
  BY <1>1, LeaveRoomApart, LeaveRoomGood DEF Apart
<1> HIDE DEF apart
<1>3. idle = [apart EXCEPT !.peer_meta = @ \cup {s}]
  BY <1>2, Unmapped DEF out, apart
<1>4. /\ Apart(idle) /\ idle.partners = apart.partners
      /\ idle.waiting_peers = apart.waiting_peers
      /\ idle.peer_meta = apart.peer_meta \cup {s} /\ SameCounters(apart, idle)
  BY ONLY <1>2, <1>3, s \in Sockets, MetaApart
<1> QED BY ONLY <1>1, <1>2, <1>4 DEF Quits, Ends, Freed, SameCounters

\* The three steps of a join that finds somebody, and the one of a join that
\* does not.
LEMMA DropWaitingApart ==
    ASSUME NEW e, Apart(e), NEW s
    PROVE  /\ Apart(drop_waiting(e, s)) /\ Quits(e, drop_waiting(e, s), s)
           /\ SameCounters(e, drop_waiting(e, s))
<1> DEFINE f == drop_waiting(e, s)
<1>1. e \in EngineStates /\ Good(f) /\ SameCounters(e, f)
  BY DropWaitingGood DEF Apart, Good, WellFormed
<1>2. /\ f.partners = e.partners /\ f.rooms_by_socket = e.rooms_by_socket
      /\ f.peer_meta = e.peer_meta /\ f.group_rooms = e.group_rooms
      /\ f.waiting_groups = e.waiting_groups
      /\ f.waiting_peers = Compact({p \in e.waiting_peers : p.socket # s})
  BY <1>1 DEF drop_waiting, EngineStates
<1> SUFFICES Apart(f) /\ Quits(e, f, s)
  BY <1>1
<1> HIDE DEF f
<1>3. NoGroups(f)
  BY <1>2 DEF Apart, NoGroups, Live
<1> QED BY <1>1, <1>2, <1>3, DropApart

LEMMA RememberApart ==
    ASSUME NEW e, Apart(e), NEW a \in Peers, NEW b \in Peers
    PROVE  /\ Apart(remember_pair(e, a, b)) /\ Stays(e, remember_pair(e, a, b))
           /\ SameCounters(e, remember_pair(e, a, b))
<1> DEFINE f == remember_pair(e, a, b)
<1>1. e \in EngineStates /\ Good(f) /\ SameCounters(e, f)
  BY RememberPairGood DEF Apart, Good, WellFormed, Peers
<1>2. /\ Stays(e, f) /\ f.group_rooms = e.group_rooms
      /\ f.waiting_groups = e.waiting_groups
  BY <1>1 DEF remember_pair, Stays, EngineStates
<1> SUFFICES Apart(f) /\ Stays(e, f)
  BY <1>1
<1> HIDE DEF f
<1> QED BY <1>1, <1>2, StayApart

LEMMA PairUpApart ==
    ASSUME NEW e, Apart(e), NEW s \in Sockets, NEW t \in Sockets, s # t,
           e.room_seq < MaxRooms,
           e.partners[s] = NoSocket, e.partners[t] = NoSocket,
           s \notin SocketsOf(e.waiting_peers), t \notin SocketsOf(e.waiting_peers)
    PROVE  LET f == pair_up(e, s, t)
           IN  /\ Apart(f) /\ f.partners = [e.partners EXCEPT ![s] = t, ![t] = s]
               /\ f.waiting_peers = e.waiting_peers /\ f.peer_meta = e.peer_meta
<1> DEFINE f == pair_up(e, s, t)
           room == [id |-> <<"room", e.room_seq + 1>>, a |-> s, b |-> t]
<1>1. e \in EngineStates /\ Good(f)
  BY PairUpGood DEF Apart, Good, WellFormed
<1>2. room \in Pairs /\ room.a = s /\ room.b = t
  <2>1. e.room_seq + 1 \in 1..MaxRooms
    BY <1>1, MaxRoomsAssumption DEF EngineStates
  <2> QED BY <2>1 DEF Pairs, RoomIds
<1>3. /\ f.partners = [e.partners EXCEPT ![s] = t, ![t] = s]
      /\ f.rooms_by_socket = [e.rooms_by_socket EXCEPT ![s] = room, ![t] = room]
      /\ f.waiting_peers = e.waiting_peers /\ f.peer_meta = e.peer_meta
      /\ f.group_rooms = e.group_rooms /\ f.waiting_groups = e.waiting_groups
  BY <1>1 DEF pair_up, EngineStates
<1> SUFFICES Apart(f)
  BY <1>3
<1> HIDE DEF f, room
<1>4. NoGroups(f) /\ OneEach(f.waiting_peers)
  BY <1>3 DEF Apart, NoGroups, Live, Idle
<1> QED BY <1>1, <1>2, <1>3, <1>4, MeetApart

LEMMA PushApart ==
    ASSUME NEW e, Apart(e), NEW peer \in Peers,
           peer.socket \notin SocketsOf(e.waiting_peers),
           e.partners[peer.socket] = NoSocket
    PROVE  LET f == push_waiting(e, peer)
           IN  /\ Apart(f) /\ f.partners = e.partners /\ f.peer_meta = e.peer_meta
               /\ SocketsOf(f.waiting_peers)
                      = SocketsOf(e.waiting_peers) \cup {peer.socket}
<1> DEFINE seat == [peer EXCEPT !.at = NextAt(e.waiting_peers)]
           f == push_waiting(e, peer)
<1>1. e \in EngineStates /\ Good(f)
  BY PushWaitingGood DEF Apart, Good, WellFormed
<1>2. seat.socket = peer.socket
  BY DEF Peers
<1>3. /\ f.partners = e.partners /\ f.rooms_by_socket = e.rooms_by_socket
      /\ f.waiting_peers = e.waiting_peers \cup {seat} /\ f.peer_meta = e.peer_meta
      /\ f.group_rooms = e.group_rooms /\ f.waiting_groups = e.waiting_groups
  BY <1>1 DEF push_waiting, Tell, EngineStates
<1> HIDE DEF f, seat
<1>4. SocketsOf(f.waiting_peers) = SocketsOf(e.waiting_peers) \cup {peer.socket}
  BY <1>2, <1>3 DEF SocketsOf
<1>5. NoGroups(f) /\ Agree(f)
  BY <1>3 DEF Apart, NoGroups, Live, Agree, Matched
<1>6. OneEach(f.waiting_peers)
  BY <1>2, <1>3 DEF OneEach, SocketsOf, Apart, Idle
<1>7. Idle(f)
  BY <1>3, <1>4, <1>6 DEF Apart, Idle
<1>8. Apart(f)
  BY <1>1, <1>5, <1>7 DEF Apart
<1> QED BY <1>3, <1>4, <1>8 DEF f

\* A join ends the match of s, and then claims one waiting person or waits.
LEMMA JoinApart ==
    ASSUME NEW e, Apart(e), NEW s \in Sockets, NEW user \in Users \cup {NoUser},
           NEW prefs \in Preferences, e.room_seq < MaxRooms
    PROVE  /\ Apart(join_queue(e, s, user, prefs))
           /\ Joins(e, join_queue(e, s, user, prefs), s)
<1> DEFINE me     == peer_of(s, user, prefs)
           idle   == [leave_group(leave_room(remove_from_queue(e, s), s, TRUE), s)
                         EXCEPT !.peer_meta = @ \cup {s}]
           solos  == solo_candidates(idle, me)
           score  == [c \in solos |-> interest_score(prefs.interests, c.prefs.interests)]
           chosen == Best(solos, score)
           without == drop_waiting(idle, chosen.socket)
           noted  == remember_pair(without, me, chosen)
           f      == join_queue(e, s, user, prefs)
<1>1. me \in Peers /\ me.socket = s
  BY PeerOfType DEF peer_of
<1>2. /\ Apart(idle) /\ idle.partners = Freed(e, s)
      /\ SocketsOf(idle.waiting_peers) = SocketsOf(e.waiting_peers) \ {s}
      /\ idle.peer_meta = e.peer_meta \cup {s} /\ SameCounters(e, idle)
  BY BeforeJoin
<1>3. groups_for_solo(idle, me) = {}
  BY <1>2 DEF groups_for_solo, Apart, NoGroups
<1>4. \/ solos # {} /\ f = pair_up(noted, s, chosen.socket)
      \/ f = push_waiting(idle, me)
  BY <1>3 DEF join_queue
<1>5. \A c \in solos : c \in idle.waiting_peers /\ c.socket # s
  BY <1>1 DEF solo_candidates, may_meet, compatible
<1>6. idle.partners[s] = NoSocket /\ s \notin SocketsOf(idle.waiting_peers)
  BY <1>2 DEF Freed, Clear, Apart, Good, WellFormed, EngineStates
<1> SUFFICES Apart(f) /\ Joins(e, f, s)
  OBVIOUS
<1> HIDE DEF f, me, idle
<1>7. CASE f = push_waiting(idle, me)
  <2>1. /\ Apart(f) /\ f.partners = idle.partners /\ f.peer_meta = idle.peer_meta
        /\ SocketsOf(f.waiting_peers) = SocketsOf(idle.waiting_peers) \cup {s}
    BY <1>1, <1>2, <1>6, <1>7, PushApart
  <2> QED BY <1>2, <2>1 DEF Joins
<1>8. CASE solos # {} /\ f = pair_up(noted, s, chosen.socket)
  <2>1. IsFiniteSet(solos) /\ \A c \in solos : c \in Peers /\ c.at \in Nat
    <3>1. solos \subseteq idle.waiting_peers
      BY <1>5
    <3> HIDE DEF solos
    <3> QED BY <1>2, <3>1, FS_Subset
            DEF Apart, Good, WellFormed, Finite, EngineStates, Peers
  <2>2. \A c \in solos : score[c] \in Nat
    BY InterestScoreType DEF Preferences
  <2> HIDE DEF score, solos
  <2>3. chosen \in solos
    BY <1>8, <2>1, <2>2, BestIsCandidate
  <2> HIDE DEF chosen
  <2>4. /\ chosen \in Peers /\ chosen.socket \in Sockets \ {s}
        /\ chosen.socket \in SocketsOf(idle.waiting_peers)
    BY <1>5, <2>1, <2>3 DEF Peers, SocketsOf
  <2>5. idle.partners[chosen.socket] = NoSocket
    BY <1>2, <2>4 DEF Apart, Idle
  <2>6. /\ Apart(without) /\ Quits(idle, without, chosen.socket)
        /\ SameCounters(idle, without)
    BY <1>2, DropWaitingApart
  <2> HIDE DEF without
  <2>7. Apart(noted) /\ Stays(without, noted) /\ SameCounters(without, noted)
    BY <1>1, <2>4, <2>6, RememberApart
  <2> HIDE DEF noted
  <2>8. /\ noted.partners = idle.partners /\ noted.peer_meta = idle.peer_meta
        /\ SocketsOf(noted.waiting_peers)
               = SocketsOf(idle.waiting_peers) \ {chosen.socket}
        /\ noted.room_seq < MaxRooms
    BY <1>2, <2>6, <2>7 DEF Quits, Stays, SameCounters
  <2>9. /\ Apart(f)
        /\ f.partners = [noted.partners EXCEPT ![s] = chosen.socket, ![chosen.socket] = s]
        /\ f.waiting_peers = noted.waiting_peers /\ f.peer_meta = noted.peer_meta
    BY <1>6, <1>8, <2>4, <2>5, <2>7, <2>8, PairUpApart
  <2>10. SocketsOf(f.waiting_peers) = SocketsOf(e.waiting_peers) \ {s, chosen.socket}
    BY <1>2, <2>8, <2>9
  <2>11. chosen.socket \in SocketsOf(e.waiting_peers) \ {s}
    BY <1>2, <2>4
  <2> QED BY <1>2, <2>8, <2>9, <2>10, <2>11 DEF Joins
<1> QED BY <1>4, <1>7, <1>8

\* Without rooms a heartbeat finds nothing.
LEMMA HeartbeatApart ==
    ASSUME NEW e, Apart(e), NEW s \in Sockets
    PROVE  heartbeat(e, s) = e
<1>1. \A p : groups_for_solo(e, p) = {}
  BY DEF groups_for_solo, Apart, NoGroups
<1> QED BY <1>1, Unmapped DEF heartbeat

-----------------------------------------------------------------------------
(* The invariant of a server that makes 1:1 matches only. *)

\* No connection opens a lobby or answers a direct invitation.
PairsOnly ==
    \A s \in Sockets : MessagesOf[s] \cap
        {"group-match:create", "group-match:create-and-invite", "invitation:accept"} = {}

PairOps == {"leave_room", "leave_group", "join_queue", "block_pair",
            "read_partner", "read_group", "announce"}

PairCalls == {c \in EngineCalls : c.op \in PairOps}

\* The handler of a connection that was removed is done, and nothing in the
\* engine names the connection.
Removed(s) ==
    /\ todo[s] = << >>
    /\ s \notin SocketsOf(engine.waiting_peers) /\ s \notin engine.peer_meta
    /\ engine.partners[s] = NoSocket

PairInv ==
    /\ IInv
    /\ Apart(engine)
    /\ timers = {}
    /\ \A s \in Sockets : todo[s] \in Seq(PairCalls)
    /\ \A s \in Sockets : conn[s] # "open" => Removed(s)

\* What the specification Pairing says of a step of the server.
AbstractStep == [OneToOne!Next]_(OneToOne!vars)

LEMMA SameFreed ==
    ASSUME PairInv, NEW s \in Sockets
    PROVE  OneToOne!Freed(s) = Freed(engine, s)
BY DEF PairInv, Apart, Good, WellFormed, EngineStates, OneToOne!Freed, Freed, Clear

\* What an operation on behalf of a handler does to the pairs, seen from above.
Effect(s) ==
    \/ Stays(engine, engine')
    \/ \E x \in Sockets : Ends(engine, engine', x) \/ Quits(engine, engine', x)
    \/ conn[s] = "open" /\ Joins(engine, engine', s)

LEMMA EffectIsAbstract ==
    ASSUME PairInv, NEW s \in Sockets, Effect(s), UNCHANGED conn
    PROVE  AbstractStep
<1>1. CASE Stays(engine, engine')
  BY <1>1 DEF Stays, AbstractStep, OneToOne!vars
<1>2. CASE \E x \in Sockets : Ends(engine, engine', x)
  <2>1. PICK x \in Sockets : Ends(engine, engine', x)
    BY <1>2
  <2>2. OneToOne!End(x)
    BY <2>1, SameFreed DEF Ends, OneToOne!End
  <2> QED BY <2>2 DEF AbstractStep, OneToOne!Next
<1>3. CASE \E x \in Sockets : Quits(engine, engine', x)
  <2>1. PICK x \in Sockets : Quits(engine, engine', x)
    BY <1>3
  <2>2. OneToOne!Cancel(x)
    BY <2>1 DEF Quits, OneToOne!Cancel
  <2> QED BY <2>2 DEF AbstractStep, OneToOne!Next
<1>4. CASE conn[s] = "open" /\ Joins(engine, engine', s)
  <2>1. CASE /\ engine'.partners = Freed(engine, s)
             /\ SocketsOf(engine'.waiting_peers)
                    = SocketsOf(engine.waiting_peers) \cup {s}
    <3>1. OneToOne!Wait(s)
      BY <1>4, <2>1, SameFreed DEF OneToOne!Wait
    <3> QED BY <3>1 DEF AbstractStep, OneToOne!Next
  <2>2. CASE \E t \in SocketsOf(engine.waiting_peers) \ {s} :
               /\ engine'.partners = [Freed(engine, s) EXCEPT ![s] = t, ![t] = s]
               /\ SocketsOf(engine'.waiting_peers)
                      = SocketsOf(engine.waiting_peers) \ {s, t}
    <3>1. PICK t \in SocketsOf(engine.waiting_peers) \ {s} :
               /\ engine'.partners = [Freed(engine, s) EXCEPT ![s] = t, ![t] = s]
               /\ SocketsOf(engine'.waiting_peers)
                      = SocketsOf(engine.waiting_peers) \ {s, t}
      BY <2>2
    <3>2. t \in Sockets
      BY DEF PairInv, Apart, Good, WellFormed, EngineStates, SocketsOf, Peers
    <3>3. OneToOne!Meet(s, t)
      BY <1>4, <3>1, SameFreed DEF OneToOne!Meet
    <3> QED BY <3>2, <3>3 DEF AbstractStep, OneToOne!Next
  <2> QED BY <1>4, <2>1, <2>2 DEF Joins
<1> QED BY <1>1, <1>2, <1>3, <1>4 DEF Effect

\* Nor does it give a removed connection anything back.
LEMMA EffectKeepsRemoved ==
    ASSUME PairInv, NEW s \in Sockets, Effect(s),
           NEW x \in Sockets, conn[x] # "open"
    PROVE  /\ x \notin SocketsOf(engine'.waiting_peers) /\ x \notin engine'.peer_meta
           /\ engine'.partners[x] = NoSocket
<1>1. /\ x \notin SocketsOf(engine.waiting_peers) /\ x \notin engine.peer_meta
      /\ engine.partners[x] = NoSocket
  BY DEF PairInv, Removed
<1>2. DOMAIN engine.partners = Sockets
  BY DEF PairInv, Apart, Good, WellFormed, EngineStates
<1>3. \A y : Freed(engine, y)[x] = NoSocket
  BY <1>1, <1>2 DEF Freed, Clear
<1>4. \A y : DOMAIN Freed(engine, y) = Sockets
  BY <1>2 DEF Freed, Clear
<1>5. CASE \/ Stays(engine, engine')
          \/ \E y \in Sockets : Ends(engine, engine', y) \/ Quits(engine, engine', y)
  BY <1>1, <1>3, <1>5 DEF Stays, Ends, Quits
<1>6. CASE conn[s] = "open" /\ Joins(engine, engine', s)
  BY <1>1, <1>3, <1>4, <1>6 DEF Joins
<1> QED BY <1>5, <1>6 DEF Effect

\* A step of an open connection's handler.
LEMMA Handled ==
    ASSUME PairInv, IInv', NEW s \in Sockets, conn[s] = "open",
           NEW calls \in Seq(PairCalls), todo' = [todo EXCEPT ![s] = calls],
           UNCHANGED <<conn, timers>>, Apart(engine'), Effect(s)
    PROVE  PairInv' /\ AbstractStep
<1>1. AbstractStep
  BY EffectIsAbstract
<1>2. DOMAIN todo = Sockets
  BY DEF PairInv, IInv
<1>3. \A x \in Sockets : todo'[x] \in Seq(PairCalls)
  BY <1>2 DEF PairInv
<1>4. \A x \in Sockets : conn'[x] # "open" => Removed(x)'
  <2> SUFFICES ASSUME NEW x \in Sockets, conn[x] # "open"
               PROVE  Removed(x)'
    OBVIOUS
  <2>1. todo'[x] = << >>
    BY <1>2 DEF PairInv, Removed
  <2> QED BY <2>1, EffectKeepsRemoved DEF Removed
<1> QED BY <1>1, <1>3, <1>4 DEF PairInv


-----------------------------------------------------------------------------
(* Every step of such a server. *)

\* The calls its handlers queue.
LEMMA PairCallTypes ==
    /\ \A s \in Sockets, n \in BOOLEAN : CallLeave(s, n) \in PairCalls
    /\ \A s \in Sockets : CallLeaveGroup(s) \in PairCalls
    /\ \A p \in Preferences : CallJoin(p) \in PairCalls
    /\ \A u, v \in Users : CallBlock(u, v) \in PairCalls
    /\ \A o \in {"report", "block"} : CallPartner(o) \in PairCalls
    /\ \A o \in {"report", "block"}, t \in Sockets \cup {NoSocket} :
          CallGroup(o, t) \in PairCalls
    /\ \A S \in SUBSET Sockets : CallAnnounce(S) \in PairCalls
<1>1. \A s \in Sockets, n \in BOOLEAN : CallLeave(s, n) \in PairCalls
  BY DEF CallLeave, PairCalls, PairOps, EngineCalls
<1>2. \A s \in Sockets : CallLeaveGroup(s) \in PairCalls
  BY DEF CallLeaveGroup, PairCalls, PairOps, EngineCalls
<1>3. \A p \in Preferences : CallJoin(p) \in PairCalls
  BY DEF CallJoin, PairCalls, PairOps, EngineCalls
<1>4. \A u, v \in Users : CallBlock(u, v) \in PairCalls
  BY DEF CallBlock, PairCalls, PairOps, EngineCalls
<1>5. \A o \in {"report", "block"} : CallPartner(o) \in PairCalls
  BY DEF CallPartner, PairCalls, PairOps, EngineCalls
<1>6. \A o \in {"report", "block"}, t \in Sockets \cup {NoSocket} :
         CallGroup(o, t) \in PairCalls
  BY DEF CallGroup, PairCalls, PairOps, EngineCalls
<1>7. \A S \in SUBSET Sockets : CallAnnounce(S) \in PairCalls
  BY DEF CallAnnounce, PairCalls, PairOps, EngineCalls
<1> QED BY <1>1, <1>2, <1>3, <1>4, <1>5, <1>6, <1>7

\* A handler that still has calls to make belongs to an open connection.
LEMMA NextPairCall ==
    ASSUME PairInv, NEW s \in Sockets, todo[s] # << >>
    PROVE  /\ Head(todo[s]) \in EngineCalls /\ Head(todo[s]).op \in PairOps
           /\ Tail(todo[s]) \in Seq(PairCalls) /\ conn[s] = "open"
<1>1. todo[s] \in Seq(PairCalls) /\ conn[s] = "open"
  BY DEF PairInv, Removed
<1>2. Head(todo[s]) \in PairCalls /\ Tail(todo[s]) \in Seq(PairCalls)
  <2> HIDE DEF PairCalls
  <2> QED BY <1>1
<1> QED BY <1>1, <1>2 DEF PairCalls

\* A step that leaves the engine alone.
LEMMA Untouched ==
    ASSUME PairInv, NEW s \in Sockets, UNCHANGED engine
    PROVE  Apart(engine') /\ Effect(s)
<1>1. Apart(engine')
  BY DEF PairInv
<1>2. Stays(engine, engine')
  BY DEF Stays
<1> QED BY <1>1, <1>2 DEF Effect

LEMMA PairJoined ==
    ASSUME PairInv, IInv', NEW s \in Sockets, conn[s] = "open",
           NEW p \in Preferences, NEW rest \in Seq(PairCalls), Joined(s, p, rest),
           UNCHANGED <<conn, timers>>
    PROVE  PairInv' /\ AbstractStep
<1> DEFINE room  == engine'.rooms_by_socket[s]
           calls == IF room = NoPair THEN rest
                    ELSE <<CallAnnounce({room.a, room.b})>> \o rest
<1>1. UserOf[s] \in Users \cup {NoUser}
  BY UserOfAssumption
<1>2. Apart(engine') /\ Joins(engine, engine', s)
  <2>1. /\ Apart(engine) /\ engine.room_seq < MaxRooms
        /\ engine' = join_queue(engine, s, UserOf[s], p)
    BY DEF PairInv, Joined, RoomLeft
  <2> QED BY <1>1, <2>1, JoinApart
<1>3. room # NoPair => {room.a, room.b} \subseteq Sockets
  BY <1>2 DEF Apart, Good, WellFormed, EngineStates, Pairs
<1>4. calls \in Seq(PairCalls)
  BY <1>3, PairCallTypes, ShortSequences
<1>5. todo' = [todo EXCEPT ![s] = calls]
  BY DEF Joined, Then
<1> HIDE DEF calls
<1>6. Effect(s)
  BY <1>2 DEF Effect
<1> QED BY <1>2, <1>4, <1>5, <1>6, Handled

LEMMA PairQueueMessages ==
    ASSUME PairInv, IInv', NEW s \in Sockets,
           QueueJoin(s) \/ RoomNext(s) \/ RoomLeave(s) \/ QueueHeartbeat(s)
    PROVE  PairInv' /\ AbstractStep
<1>1. conn[s] = "open" /\ UNCHANGED <<conn, timers>> /\ Apart(engine)
  BY DEF QueueJoin, RoomNext, RoomLeave, QueueHeartbeat, Receive, PairInv
<1>2. CASE QueueJoin(s)
  <2>1. PICK p \in PrefsOf[s] : Joined(s, p, << >>)
    BY <1>2 DEF QueueJoin
  <2>2. p \in Preferences /\ << >> \in Seq(PairCalls)
    BY PrefsOfAssumption, ShortSequences
  <2> QED BY <1>1, <2>1, <2>2, PairJoined
<1>3. CASE RoomNext(s)
  <2>1. PICK p \in PrefsOf[s] : todo' = [todo EXCEPT ![s] = <<CallJoin(p)>>]
    BY <1>3 DEF RoomNext, Then
  <2>2. <<CallJoin(p)>> \in Seq(PairCalls)
    BY PrefsOfAssumption, PairCallTypes, ShortSequences
  <2>3. Apart(engine') /\ Ends(engine, engine', s)
    BY <1>1, <1>3, LeaveRoomApart DEF RoomNext
  <2> QED BY <1>1, <2>1, <2>2, <2>3, Handled DEF Effect
<1>4. CASE RoomLeave(s)
  <2>1. <<CallLeave(s, TRUE)>> \in Seq(PairCalls)
    BY PairCallTypes, ShortSequences
  <2>2. Apart(engine') /\ Quits(engine, engine', s)
    BY <1>1, <1>4, RemoveFromQueueApart DEF RoomLeave
  <2>3. todo' = [todo EXCEPT ![s] = <<CallLeave(s, TRUE)>>]
    BY <1>4 DEF RoomLeave, Then
  <2> QED BY <1>1, <2>1, <2>2, <2>3, Handled DEF Effect
<1>5. CASE QueueHeartbeat(s)
  <2>1. UNCHANGED engine
    BY <1>1, <1>5, HeartbeatApart DEF QueueHeartbeat
  <2>2. todo' = [todo EXCEPT ![s] = << >>] /\ << >> \in Seq(PairCalls)
    BY <1>5, ShortSequences DEF QueueHeartbeat, Receive, PairInv, IInv
  <2> QED BY <1>1, <2>1, <2>2, Untouched, Handled
<1> QED BY <1>2, <1>3, <1>4, <1>5

LEMMA PairSafetyMessages ==
    ASSUME PairInv, IInv', NEW s \in Sockets,
           Report(s) \/ Block(s) \/ GroupMatchLeave(s)
    PROVE  PairInv' /\ AbstractStep
<1>1. conn[s] = "open" /\ UNCHANGED <<conn, timers>> /\ Apart(engine)
  BY DEF Report, Block, GroupMatchLeave, Receive, PairInv
<1>2. CASE Report(s)
  <2>1. /\ <<CallPartner("report")>> \in Seq(PairCalls)
        /\ todo' = [todo EXCEPT ![s] = <<CallPartner("report")>>]
    BY <1>2, PairCallTypes, ShortSequences DEF Report, Then
  <2> QED BY <1>1, <1>2, <2>1, Untouched, Handled DEF Report
<1>3. CASE Block(s)
  <2>1. \/ todo' = [todo EXCEPT ![s] = <<CallPartner("block")>>]
        \/ /\ UserOf[s] # NoUser
           /\ \E u \in resolve_target_user(s) : todo' =
                 [todo EXCEPT ![s] = <<CallBlock(UserOf[s], u), CallPartner("block")>>]
    BY <1>3 DEF Block, Then
  <2>2. resolve_target_user(s) \subseteq Users
    BY DEF resolve_target_user
  <2>3. UserOf[s] # NoUser => UserOf[s] \in Users
    BY UserOfAssumption
  <2>4. \E calls \in Seq(PairCalls) : todo' = [todo EXCEPT ![s] = calls]
    BY <2>1, <2>2, <2>3, PairCallTypes, ShortSequences
  <2> QED BY <1>1, <1>3, <2>4, Untouched, Handled DEF Block
<1>4. CASE GroupMatchLeave(s)
  <2>1. /\ <<CallLeaveGroup(s)>> \in Seq(PairCalls)
        /\ todo' = [todo EXCEPT ![s] = <<CallLeaveGroup(s)>>]
    BY <1>4, PairCallTypes, ShortSequences DEF GroupMatchLeave, Then
  <2>2. Apart(engine') /\ Quits(engine, engine', s)
    BY <1>1, <1>4, RemoveFromQueueApart DEF GroupMatchLeave
  <2> QED BY <1>1, <2>1, <2>2, Handled DEF Effect
<1> QED BY <1>2, <1>3, <1>4

\* No room, no lobby: the other messages are not sent or are refused.
LEMMA OtherMessages ==
    ASSUME PairsOnly, PairInv, NEW s \in Sockets
    PROVE  /\ ~GroupMatchCreate(s) /\ ~CreateAndInvite(s) /\ ~InvitationAccept(s)
           /\ ~GroupMatchJoin(s) /\ ~GroupMatchInviteDecline(s) /\ ~GroupMatchStart(s)
<1>1. ~GroupMatchCreate(s) /\ ~CreateAndInvite(s) /\ ~InvitationAccept(s)
  BY DEF PairsOnly, GroupMatchCreate, CreateAndInvite, InvitationAccept, Receive
<1>2. \A id \in RoomIds : ~Live(engine, id)
  BY DEF PairInv, Apart, NoGroups
<1>3. ~GroupMatchJoin(s) /\ ~GroupMatchInviteDecline(s) /\ ~GroupMatchStart(s)
  BY <1>2 DEF GroupMatchJoin, GroupMatchInviteDecline, GroupMatchStart
<1> QED BY <1>1, <1>3

LEMMA PairLeaveCalls ==
    ASSUME PairInv, IInv', NEW s \in Sockets,
           LeaveRoomCall(s) \/ LeaveGroupCall(s) \/ JoinQueueCall(s) \/ AnnounceCall(s)
    PROVE  PairInv' /\ AbstractStep
<1>1. /\ Head(todo[s]) \in EngineCalls /\ Tail(todo[s]) \in Seq(PairCalls)
      /\ conn[s] = "open" /\ UNCHANGED <<conn, timers>> /\ Apart(engine)
  BY NextPairCall
     DEF LeaveRoomCall, LeaveGroupCall, JoinQueueCall, AnnounceCall, Calls, PairInv
<1>2. CASE LeaveRoomCall(s)
  <2>1. Head(todo[s]).who \in Sockets /\ Head(todo[s]).notify \in BOOLEAN
    BY <1>1, <1>2 DEF LeaveRoomCall, Calls, EngineCalls
  <2>2. Apart(engine') /\ Ends(engine, engine', Head(todo[s]).who)
    BY <1>1, <1>2, <2>1, LeaveRoomApart DEF LeaveRoomCall
  <2>3. todo' = [todo EXCEPT ![s] = Tail(todo[s])]
    BY <1>2 DEF LeaveRoomCall, Done
  <2>4. Effect(s)
    BY <2>1, <2>2 DEF Effect
  <2> QED BY <1>1, <2>2, <2>3, <2>4, Handled
<1>3. CASE LeaveGroupCall(s)
  <2>1. Head(todo[s]).who \in Sockets
    BY <1>1, <1>3 DEF LeaveGroupCall, Calls, EngineCalls
  <2>2. UNCHANGED engine
    BY <1>1, <1>3, <2>1, Unmapped DEF LeaveGroupCall
  <2>3. todo' = [todo EXCEPT ![s] = Tail(todo[s])]
    BY <1>3 DEF LeaveGroupCall, Done
  <2> QED BY <1>1, <2>2, <2>3, Untouched, Handled
<1>4. CASE JoinQueueCall(s)
  <2>1. Head(todo[s]).prefs \in Preferences
    BY <1>1, <1>4 DEF JoinQueueCall, Calls, EngineCalls
  <2> QED BY <1>1, <1>4, <2>1, PairJoined DEF JoinQueueCall
<1>5. CASE AnnounceCall(s)
  <2>1. Apart(engine') /\ Stays(engine, engine')
    BY <1>1, <1>5, TellApart DEF AnnounceCall, Frames
  <2>2. todo' = [todo EXCEPT ![s] = Tail(todo[s])]
    BY <1>5 DEF AnnounceCall, Done
  <2> QED BY <1>1, <2>1, <2>2, Handled DEF Effect
<1> QED BY <1>2, <1>3, <1>4, <1>5


LEMMA PairSafetyCalls ==
    ASSUME PairInv, IInv', NEW s \in Sockets,
           BlockPairCall(s) \/ ReadPartnerCall(s) \/ ReadGroupCall(s)
    PROVE  PairInv' /\ AbstractStep
<1>1. /\ Head(todo[s]) \in EngineCalls /\ Tail(todo[s]) \in Seq(PairCalls)
      /\ conn[s] = "open" /\ UNCHANGED <<conn, timers>> /\ Apart(engine)
  BY NextPairCall DEF BlockPairCall, ReadPartnerCall, ReadGroupCall, Calls, PairInv
<1>2. CASE BlockPairCall(s)
  <2>1. engine' = [engine EXCEPT !.blocked_pairs = @ \cup {Head(todo[s]).pair}]
    BY <1>2 DEF BlockPairCall
  <2>2. engine \in EngineStates /\ Good(engine')
    BY <1>1 DEF IInv, Apart, Good, WellFormed
  <2>3. /\ Stays(engine, engine') /\ engine'.group_rooms = engine.group_rooms
        /\ engine'.waiting_groups = engine.waiting_groups
    BY <2>1, <2>2 DEF EngineStates, Stays
  <2>4. Apart(engine')
    BY <1>1, <2>2, <2>3, StayApart
  <2>5. todo' = [todo EXCEPT ![s] = Tail(todo[s])]
    BY <1>2 DEF BlockPairCall, Done
  <2> QED BY <1>1, <2>3, <2>4, <2>5, Handled DEF Effect
<1>3. CASE ReadPartnerCall(s)
  <2>1. Head(todo[s]).order \in {"report", "block"}
    BY <1>1, <1>3 DEF ReadPartnerCall, Calls, EngineCalls
  <2>2. engine.partners[s] \in Sockets \cup {NoSocket}
    BY <1>1 DEF Apart, Good, WellFormed, EngineStates
  <2>3. <<CallGroup(Head(todo[s]).order, engine.partners[s])>> \in Seq(PairCalls)
    BY <2>1, <2>2, PairCallTypes, ShortSequences
  <2>4. UNCHANGED engine /\ todo' = [todo EXCEPT ![s] =
            <<CallGroup(Head(todo[s]).order, engine.partners[s])>>]
    BY <1>3 DEF ReadPartnerCall, Then
  <2> QED BY <1>1, <2>3, <2>4, Untouched, Handled
<1>4. CASE ReadGroupCall(s)
  <2> DEFINE group == IF engine.group_room_of_socket[s] = NoRoom THEN << >>
                      ELSE <<CallLeaveGroup(s)>>
             leave == <<CallLeave(s, TRUE)>>
             last  == LeaveRead(Head(todo[s]).partner)
             calls == (IF Head(todo[s]).order = "report" THEN leave \o group
                       ELSE group \o leave) \o last
  <2>1. Head(todo[s]).partner \in Sockets \cup {NoSocket}
    BY <1>1, <1>4 DEF ReadGroupCall, Calls, EngineCalls
  <2>2. group \in Seq(PairCalls) /\ leave \in Seq(PairCalls)
    BY PairCallTypes, ShortSequences
  <2>3. last \in Seq(PairCalls)
    BY <2>1, PairCallTypes, ShortSequences DEF LeaveRead
  <2>4. UNCHANGED engine /\ todo' = [todo EXCEPT ![s] = calls]
    BY <1>4 DEF ReadGroupCall, Then
  <2> HIDE DEF group, leave, last
  <2>5. calls \in Seq(PairCalls)
    BY <2>2, <2>3, ShortSequences
  <2> HIDE DEF calls
  <2> QED BY <1>1, <2>4, <2>5, Untouched, Handled
<1> QED BY <1>2, <1>3, <1>4

\* No handler gets as far as a lobby or a direct match.
LEMMA OtherCalls ==
    ASSUME PairInv, NEW s \in Sockets
    PROVE  ~AddParticipantCall(s) /\ ~StartGroupCall(s) /\ ~MatchUsersCall(s)
BY NextPairCall DEF PairOps, AddParticipantCall, StartGroupCall, MatchUsersCall, Calls

LEMMA TeardownStep ==
    ASSUME PairInv, IInv', NEW s \in Sockets, Teardown(s)
    PROVE  PairInv' /\ AbstractStep
<1>1. /\ conn[s] = "open" /\ todo[s] = << >> /\ UNCHANGED <<todo, timers>>
      /\ conn' = [conn EXCEPT ![s] = "closing"]
  BY DEF Teardown
<1>2. DOMAIN conn = Sockets /\ DOMAIN engine.partners = Sockets
  BY DEF PairInv, IInv, ConnOK, Apart, Good, WellFormed, EngineStates
<1>3. Apart(engine') /\ Vanishes(engine, engine', s)
  BY FullRemoveApart DEF PairInv, Teardown
<1>4. {x \in Sockets : conn'[x] # "open"} = {x \in Sockets : conn[x] # "open"} \cup {s}
  BY <1>1, <1>2
<1>5. OneToOne!Vanish(s)
  BY <1>3, <1>4, SameFreed DEF Vanishes, OneToOne!Vanish
<1>6. AbstractStep
  BY <1>5 DEF AbstractStep, OneToOne!Next
<1>7. ASSUME NEW x \in Sockets, conn'[x] # "open" PROVE Removed(x)'
  <2>1. x = s \/ Removed(x)
    BY <1>1, <1>2, <1>7 DEF PairInv
  <2> QED BY <1>1, <1>2, <1>3, <2>1 DEF Vanishes, Freed, Clear, Removed
<1> QED BY <1>1, <1>3, <1>6, <1>7 DEF PairInv

LEMMA RegistrySteps ==
    ASSUME PairInv, IInv', NEW s \in Sockets, SlowConsumer(s) \/ Forget(s)
    PROVE  PairInv' /\ AbstractStep
<1>1. UNCHANGED <<engine, todo, timers>>
  BY DEF SlowConsumer, Forget
<1>2. DOMAIN conn = Sockets
  BY DEF PairInv, IInv, ConnOK
<1>3. \A x \in Sockets : conn'[x] # "open" <=> conn[x] # "open"
  BY <1>2 DEF SlowConsumer, Forget
<1>4. \A x \in Sockets : conn'[x] # "open" => Removed(x)'
  BY <1>1, <1>3 DEF PairInv, Removed
<1>5. AbstractStep
  BY <1>1, <1>3 DEF AbstractStep, OneToOne!vars
<1> QED BY <1>1, <1>4, <1>5 DEF PairInv

LEMMA PairForgottenStep ==
    ASSUME PairInv, IInv', PairForgotten
    PROVE  PairInv' /\ AbstractStep
<1>1. /\ UNCHANGED <<conn, todo, timers>>
      /\ \E key : engine' = [engine EXCEPT !.recent_pairs = @ \ {key}]
  BY DEF PairForgotten
<1>2. engine \in EngineStates /\ Good(engine') /\ Apart(engine)
  BY DEF PairInv, IInv, Good, WellFormed
<1>3. /\ Stays(engine, engine') /\ engine'.group_rooms = engine.group_rooms
      /\ engine'.waiting_groups = engine.waiting_groups
  BY <1>1, <1>2 DEF EngineStates, Stays
<1>4. Apart(engine')
  BY <1>2, <1>3, StayApart
<1>5. \A x \in Sockets : conn'[x] # "open" => Removed(x)'
  BY <1>1, <1>3 DEF PairInv, Stays, Removed
<1>6. AbstractStep
  BY <1>1, <1>3 DEF AbstractStep, OneToOne!vars, Stays
<1> QED BY <1>1, <1>4, <1>5, <1>6 DEF PairInv

LEMMA PairStart == Init => PairInv /\ OneToOne!Init
<1> SUFFICES ASSUME Init PROVE PairInv /\ OneToOne!Init
  OBVIOUS
<1>1. IInv /\ engine = EmptyEngine /\ Good(engine)
  BY Start, EmptyIsGood DEF Init
<1>2. /\ engine.partners = [s \in Sockets |-> NoSocket]
      /\ engine.rooms_by_socket = [s \in Sockets |-> NoPair]
      /\ engine.waiting_peers = {} /\ engine.waiting_groups = {}
      /\ engine.group_rooms = [id \in RoomIds |-> NoGroup]
  BY <1>1 DEF EmptyEngine
<1>3. SocketsOf(engine.waiting_peers) = {}
  BY <1>2 DEF SocketsOf
<1>4. Apart(engine)
  BY <1>1, <1>2, <1>3 DEF Apart, NoGroups, Live, Agree, Idle, OneEach
<1>5. \A s \in Sockets : conn[s] = "open" /\ todo[s] = << >>
  BY DEF Init
<1>6. timers = {} /\ \A s \in Sockets : todo[s] \in Seq(PairCalls)
  BY <1>5, ShortSequences DEF Init
<1>7. PairInv
  BY <1>1, <1>4, <1>5, <1>6 DEF PairInv
<1>8. OneToOne!Init
  BY <1>2, <1>3, <1>5 DEF OneToOne!Init
<1> QED BY <1>7, <1>8

LEMMA PairStep ==
    ASSUME PairsOnly, PairInv, [Next]_vars
    PROVE  PairInv' /\ AbstractStep
<1>1. IInv'
  BY Step DEF PairInv
<1>2. ASSUME NEW s \in Sockets, ClientMessage(s) PROVE PairInv' /\ AbstractStep
  BY <1>1, <1>2, PairQueueMessages, PairSafetyMessages, OtherMessages DEF ClientMessage
<1>3. ASSUME NEW s \in Sockets, HandlerCall(s) PROVE PairInv' /\ AbstractStep
  BY <1>1, <1>3, PairLeaveCalls, PairSafetyCalls, OtherCalls DEF HandlerCall
<1>4. ASSUME NEW s \in Sockets, SlowConsumer(s) \/ Teardown(s) \/ Forget(s)
      PROVE  PairInv' /\ AbstractStep
  BY <1>1, <1>4, TeardownStep, RegistrySteps
<1>5. timers = {}
  BY DEF PairInv
<1>6. CASE UNCHANGED vars
  <2>1. PairInv'
    BY <1>1, <1>6 DEF vars, PairInv, Removed
  <2>2. AbstractStep
    BY <1>6 DEF vars, AbstractStep, OneToOne!vars
  <2> QED BY <2>1, <2>2
<1> QED BY <1>1, <1>2, <1>3, <1>4, <1>5, <1>6, PairForgottenStep DEF Next

-----------------------------------------------------------------------------
(* What follows. *)

LEMMA PairInvariant ==
    ASSUME PairsOnly
    PROVE  Spec => []PairInv
<1>1. Init => PairInv
  BY PairStart
<1>2. PairInv /\ [Next]_vars => PairInv'
  BY PairStep
<1> QED BY <1>1, <1>2, PTL DEF Spec

\* Without lobbies and direct invitations the server implements Pairing,
\* whatever its handlers interleave: no step makes two matches, ends two, or
\* ends half of one, and nobody is matched after its connection was removed.
THEOREM ServerImplementsPairing ==
    ASSUME PairsOnly
    PROVE  Spec => PairingKept
<1>1. Init => OneToOne!Init
  BY PairStart
<1>2. PairInv /\ [Next]_vars => [OneToOne!Next]_(OneToOne!vars)
  BY PairStep DEF AbstractStep
<1> QED BY <1>1, <1>2, PairInvariant, PTL DEF Spec, PairingKept, OneToOne!Spec

\* The two maps of 1:1 matches always describe one symmetric pairing.
THEOREM MapsAgree ==
    ASSUME PairsOnly
    PROVE  Spec => []PartnersAgree
<1>1. PairInv => PartnersAgree
  BY DEF PairInv, Apart, Agree, Matched, PartnersAgree, partner, pair
<1> QED BY <1>1, PairInvariant, PTL

\* Nobody waits twice, or while in a match: no two joins claim the same peer.
THEOREM QueueIsIdle ==
    ASSUME PairsOnly
    PROVE  Spec => []WaitingIsIdle
<1>1. PairInv => WaitingIsIdle
  <2> SUFFICES ASSUME PairInv PROVE WaitingIsIdle
    OBVIOUS
  <2>1. \A s \in Sockets : engine.group_room_of_socket[s] = NoRoom
    BY Unmapped DEF PairInv
  <2> QED BY <2>1
          DEF PairInv, Apart, Idle, OneEach, WaitingIsIdle, Waiting, partner, room_of
<1> QED BY <1>1, PairInvariant, PTL

\* A connection that was removed has left the queue, its match and the meta
\* data, and is nobody's partner.
THEOREM RemovedLeavesNoTrace ==
    ASSUME PairsOnly
    PROVE  Spec => []NoTrace
<1>1. PairInv => NoTrace
  <2> SUFFICES ASSUME PairInv, NEW s \in Sockets, conn[s] # "open"
               PROVE  /\ ~Waiting(s) /\ s \notin engine.peer_meta
                      /\ partner(s) = NoSocket /\ pair(s) = NoPair
                      /\ \A t \in Sockets : partner(t) # s
                      /\ room_of(s) = NoRoom
                      /\ \A id \in RoomIds : ~Live(engine, id)
    BY DEF NoTrace
  <2>1. /\ s \notin SocketsOf(engine.waiting_peers) /\ s \notin engine.peer_meta
        /\ engine.partners[s] = NoSocket
    BY DEF PairInv, Removed
  <2>2. Agree(engine) /\ \A id \in RoomIds : ~Live(engine, id)
    BY DEF PairInv, Apart, NoGroups
  <2>3. engine.group_room_of_socket[s] = NoRoom
    BY Unmapped DEF PairInv
  <2>4. engine.rooms_by_socket[s] = NoPair
    BY <2>1, <2>2 DEF Agree
  <2>5. \A t \in Sockets : engine.partners[t] # s
    BY <2>1, <2>2, NullAssumption DEF Agree, Matched
  <2> QED BY <2>1, <2>2, <2>3, <2>4, <2>5 DEF Waiting, partner, pair, room_of
<1> QED BY <1>1, PairInvariant, PTL

-----------------------------------------------------------------------------
(* Blocks.  A block is recorded by one engine call and the match it concerns *)
(* is ended by a later one; no join makes such a match.                      *)

\* No account is signed in to in two tabs: a block given in one of them does
\* not end the match of the other.
OneTab ==
    \A s, t \in Sockets : UserOf[s] \in Users /\ UserOf[s] = UserOf[t] => s = t

\* The calls take x out of its match.
WillLeave(calls, x) ==
    \E c \in Range(calls) :
        \/ c.op \in {"read_partner", "read_group"}
        \/ c.op = "leave_room" /\ c.who = x

\* A block is given by its own handler, which goes on to read the partner.
BlockFirst(calls, s) ==
    \/ \A c \in Range(calls) : c.op # "block_pair"
    \/ \E u \in Users : calls = <<CallBlock(UserOf[s], u), CallPartner("block")>>

Blocked(s, t) == {UserOf[s], UserOf[t]} \in engine.blocked_pairs

BlocksEnd ==
    \A s \in Sockets : partner(s) # NoSocket /\ Blocked(s, partner(s))
        => WillLeave(todo[s], s) \/ WillLeave(todo[partner(s)], partner(s))

BlockInv ==
    /\ PairInv /\ Waits /\ BlocksEnd
    /\ \A s \in Sockets : BlockFirst(todo[s], s)

LEMMA CallsInOrder ==
    ASSUME NEW V
    PROVE  /\ Range(<< >>) = {}
           /\ \A a : Range(<<a>>) = {a}
           /\ \A a, b : Range(<<a, b>>) = {a, b}
           /\ \A q, r \in Seq(V) : Range(q \o r) = Range(q) \cup Range(r)
           /\ \A q \in Seq(V) : q # << >> => Range(q) = {Head(q)} \cup Range(Tail(q))
<1>1. \A q, r \in Seq(V) : Range(q \o r) = Range(q) \cup Range(r)
  <2> SUFFICES ASSUME NEW q \in Seq(V), NEW r \in Seq(V)
               PROVE  Range(q \o r) = Range(q) \cup Range(r)
    OBVIOUS
  <2>1. Range(q \o r) \subseteq Range(q) \cup Range(r)
    BY DEF Range
  <2>2. \A i \in DOMAIN q : i \in DOMAIN (q \o r) /\ (q \o r)[i] = q[i]
    OBVIOUS
  <2>3. \A i \in DOMAIN r :
           Len(q) + i \in DOMAIN (q \o r) /\ (q \o r)[Len(q) + i] = r[i]
    OBVIOUS
  <2> QED BY ZenonT(40), <2>1, <2>2, <2>3 DEF Range
<1>2. \A q \in Seq(V) : q # << >> => Range(q) = {Head(q)} \cup Range(Tail(q))
  <2> SUFFICES ASSUME NEW q \in Seq(V), q # << >>
               PROVE  Range(q) = {Head(q)} \cup Range(Tail(q))
    OBVIOUS
  <2>1. 1 \in DOMAIN q /\ Head(q) = q[1]
    OBVIOUS
  <2>2. \A i \in DOMAIN Tail(q) : i + 1 \in DOMAIN q /\ Tail(q)[i] = q[i + 1]
    OBVIOUS
  <2>3. \A i \in DOMAIN q : i = 1 \/ (i - 1 \in DOMAIN Tail(q) /\ q[i] = Tail(q)[i - 1])
    OBVIOUS
  <2> QED BY <2>1, <2>2, <2>3 DEF Range
<1>3. Range(<< >>) = {} /\ \A a : Range(<<a>>) = {a}
  BY DEF Range
<1>4. \A a, b : Range(<<a, b>>) = {a, b}
  <2> TAKE a, b
  <2>1. DOMAIN <<a, b>> = {1, 2}
    OBVIOUS
  <2> QED BY <2>1 DEF Range
<1> QED BY <1>1, <1>2, <1>3, <1>4

\* No match is made across a block, and no match outlives its handler's calls.
LEMMA BlockKept ==
    ASSUME BlockInv, PairInv', Waits', NEW s \in Sockets, NEW calls,
           todo' = [todo EXCEPT ![s] = calls],
           engine'.blocked_pairs = engine.blocked_pairs,
           \A x \in Sockets : \/ engine'.partners[x] \in {engine.partners[x], NoSocket}
                              \/ ~Blocked(x, engine'.partners[x]),
           \/ WillLeave(todo[s], s) => WillLeave(calls, s)
           \/ engine'.partners[s] = NoSocket,
           BlockFirst(calls, s)
    PROVE  BlockInv'
<1>1. DOMAIN todo = Sockets /\ \A x \in Sockets : engine'.partners[x] \in Sockets \cup {NoSocket}
  BY DEF BlockInv, PairInv, IInv, Good, WellFormed, EngineStates
<1>2. \A x \in Sockets : engine'.partners[x] # NoSocket
         => engine'.partners[engine'.partners[x]] = x
  BY DEF PairInv, Apart, Agree, Matched
<1>3. BlocksEnd'
  <2> SUFFICES ASSUME NEW x \in Sockets, engine'.partners[x] # NoSocket,
                      Blocked(x, engine'.partners[x])
               PROVE  \/ WillLeave(todo'[x], x)
                      \/ WillLeave(todo'[engine'.partners[x]], engine'.partners[x])
    BY DEF BlocksEnd, Blocked, partner
  <2>1. engine'.partners[x] = engine.partners[x] /\ engine'.partners[x] \in Sockets
    BY <1>1
  <2>2. \/ WillLeave(todo[x], x)
        \/ WillLeave(todo[engine'.partners[x]], engine'.partners[x])
    BY <2>1 DEF BlockInv, BlocksEnd, partner
  <2>3. s \in {x, engine'.partners[x]} => engine'.partners[s] # NoSocket
    BY <1>2, <2>1, NullAssumption
  <2>4. \A y \in {x, engine'.partners[x]} : WillLeave(todo[y], y) => WillLeave(todo'[y], y)
    BY <1>1, <2>1, <2>3
  <2> QED BY <2>2, <2>4
<1>4. \A x \in Sockets : BlockFirst(todo'[x], x)
  BY <1>1 DEF BlockInv
<1> QED BY <1>3, <1>4 DEF BlockInv

\* The candidate a join chooses is one of those it may meet.
LEMMA ChosenIsSolo ==
    ASSUME NEW e, Good(e), NEW me, NEW prefs \in Preferences, NEW solos,
           solos = solo_candidates(e, me), solos # {}
    PROVE  Best(solos, [c \in solos |-> interest_score(prefs.interests, c.prefs.interests)])
               \in solos
<1> DEFINE score == [c \in solos |-> interest_score(prefs.interests, c.prefs.interests)]
<1>1. solos \subseteq e.waiting_peers
  BY DEF solo_candidates
<1>2. IsFiniteSet(solos) /\ \A c \in solos : c.at \in Nat
  BY <1>1, FS_Subset DEF Good, WellFormed, Finite, EngineStates, Peers
<1>3. \A c \in solos : score[c] \in Nat
  BY InterestScoreType DEF Preferences
<1> HIDE DEF score
<1>4. Best(solos, score) \in solos
  BY <1>2, <1>3, BestIsCandidate
<1> QED BY <1>4 DEF score

\* A join makes no match across a block.
LEMMA JoinIsUnblocked ==
    ASSUME NEW e, Apart(e), Shaped(e), InOrder(e), NEW s \in Sockets,
           NEW prefs \in Preferences, e.room_seq < MaxRooms, NEW f,
           f = join_queue(e, s, UserOf[s], prefs)
    PROVE  /\ f.blocked_pairs = e.blocked_pairs
           /\ \A x \in Sockets :
                 \/ f.partners[x] \in {e.partners[x], NoSocket}
                 \/ {UserOf[x], UserOf[f.partners[x]]} \notin e.blocked_pairs
<1> DEFINE me     == peer_of(s, UserOf[s], prefs)
           idle   == [leave_group(leave_room(remove_from_queue(e, s), s, TRUE), s)
                         EXCEPT !.peer_meta = @ \cup {s}]
           solos  == solo_candidates(idle, me)
           chosen == Best(solos, [c \in solos |->
                         interest_score(prefs.interests, c.prefs.interests)])
           noted  == remember_pair(drop_waiting(idle, chosen.socket), me, chosen)
<1>1. UserOf[s] \in Users \cup {NoUser} /\ me.user = UserOf[s] /\ me.socket = s
  BY UserOfAssumption DEF peer_of
<1>3. Apart(idle) /\ OrderKept(e, idle)
  BY BeforeJoin, BeforeJoinOrder
<1>4. f.blocked_pairs = e.blocked_pairs
  BY JoinQueueOrder DEF OrderKept
<1>5. groups_for_solo(idle, me) = {}
  BY <1>3 DEF groups_for_solo, Apart, NoGroups
<1>6. \/ solos # {} /\ f = pair_up(noted, s, chosen.socket)
      \/ f = push_waiting(idle, me)
  BY <1>5 DEF join_queue
<1>7. Apart(idle) /\ idle.partners = Freed(e, s)
  BY BeforeJoin
<1>8. \A c \in solos : c \in idle.waiting_peers /\ may_meet(idle, me, c)
  BY DEF solo_candidates
<1>9. me \in Peers
  BY <1>1, PeerOfType
<1> HIDE DEF me, idle
<1>10. solos # {} => chosen \in solos
  BY <1>7, ChosenIsSolo DEF Apart
<1> HIDE DEF solos, chosen
<1>11. e.partners \in [Sockets -> Sockets \cup {NoSocket}]
  BY DEF Apart, Good, WellFormed, EngineStates
<1>12. \A x \in Sockets : Freed(e, s)[x] \in {e.partners[x], NoSocket}
  BY <1>11 DEF Freed, Clear
<1>13. CASE f = push_waiting(idle, me)
  <2>1. f.partners = idle.partners
    BY <1>7, <1>13 DEF push_waiting, Tell, Apart, Good, WellFormed, EngineStates
  <2> QED BY <1>4, <1>7, <1>12, <2>1
<1>14. CASE solos # {} /\ f = pair_up(noted, s, chosen.socket)
  <2> DEFINE t == chosen.socket
  <2>1. chosen \in idle.waiting_peers /\ may_meet(idle, me, chosen)
    BY <1>8, <1>10, <1>14
  <2>2. chosen \in Peers /\ t \in Sockets /\ t # s
    BY <1>1, <1>7, <2>1 DEF Apart, Good, WellFormed, EngineStates, Peers, may_meet, compatible
  <2>3. chosen.user = UserOf[t]
    BY <1>3, <1>7, <2>1 DEF OrderKept, InOrder
  <2>4. ~is_blocked_pair(e.blocked_pairs, UserOf[s], UserOf[t])
    BY <1>1, <1>3, <2>1, <2>3 DEF may_meet, compatible, OrderKept
  <2>5. e.blocked_pairs \subseteq SUBSET Users
    BY DEF Apart, Good, WellFormed, EngineStates
  <2>6. {UserOf[s], UserOf[t]} \notin e.blocked_pairs
    BY <2>4, <2>5 DEF is_blocked_pair
  <2>7. noted.partners = idle.partners /\ noted \in EngineStates
    <3> DEFINE without == drop_waiting(idle, chosen.socket)
    <3>1. Apart(without) /\ without.partners = idle.partners
      BY <1>7, DropWaitingApart DEF Quits
    <3> HIDE DEF without
    <3>2. /\ Apart(remember_pair(without, me, chosen))
          /\ Stays(without, remember_pair(without, me, chosen))
      BY <1>9, <2>2, <3>1, RememberApart
    <3>3. noted = remember_pair(without, me, chosen)
      BY DEF without
    <3> HIDE DEF noted
    <3> QED BY <3>1, <3>2, <3>3 DEF Stays, Apart, Good, WellFormed
  <2> HIDE DEF noted
  <2>8. f.partners = [noted.partners EXCEPT ![s] = t, ![t] = s]
    BY <1>14, <2>7 DEF pair_up, EngineStates
  <2>9. \A x \in Sockets : f.partners[x] = IF x = t THEN s ELSE IF x = s THEN t
                                           ELSE Freed(e, s)[x]
    BY <1>7, <1>11, <2>7, <2>8 DEF Freed, Clear
  <2>10. {UserOf[t], UserOf[s]} = {UserOf[s], UserOf[t]}
    OBVIOUS
  <2> HIDE DEF t
  <2> QED BY <1>4, <1>12, <2>6, <2>9, <2>10
<1> QED BY <1>6, <1>13, <1>14

\* Operations other than a join only end matches.
LEMMA FewerMatches ==
    ASSUME PairInv, NEW y,
           \/ Stays(engine, engine') \/ Quits(engine, engine', y)
           \/ Ends(engine, engine', y) \/ Vanishes(engine, engine', y)
    PROVE  /\ \A x \in Sockets : engine'.partners[x] \in {engine.partners[x], NoSocket}
           /\ Ends(engine, engine', y) /\ y \in Sockets => engine'.partners[y] = NoSocket
<1>1. DOMAIN engine.partners = Sockets
  BY DEF PairInv, Apart, Good, WellFormed, EngineStates
<1> QED BY <1>1 DEF Stays, Quits, Ends, Vanishes, Freed, Clear

\* Between messages a handler has no calls left, and leaves nothing behind.
LEMMA NoCallsLeft ==
    \A s : ~WillLeave(<< >>, s) /\ BlockFirst(<< >>, s)
BY CallsInOrder DEF WillLeave, BlockFirst

\* One call is done, or a join adds the announcement of its match.
LEMMA RestOfCalls ==
    ASSUME BlockInv, NEW s \in Sockets, todo[s] # << >>,
           Head(todo[s]).op \notin {"read_partner", "read_group"},
           NEW told, NEW calls,
           calls = Tail(todo[s]) \/ calls = <<CallAnnounce(told)>> \o Tail(todo[s])
    PROVE  /\ BlockFirst(calls, s)
           /\ \/ WillLeave(todo[s], s) => WillLeave(calls, s)
              \/ Head(todo[s]).op = "leave_room" /\ Head(todo[s]).who = s
           /\ Head(todo[s]).op = "block_pair" /\ calls = Tail(todo[s])
                  => /\ WillLeave(calls, s)
                     /\ \E u \in Users : Head(todo[s]).pair = {UserOf[s], u}
<1> DEFINE V     == PairCalls \cup {CallAnnounce(told)}
           first == <<CallAnnounce(told)>>
           rest  == Tail(todo[s])
<1>1. todo[s] \in Seq(V) /\ rest \in Seq(V)
  <2>1. todo[s] \in Seq(PairCalls) /\ PairCalls \subseteq V
    BY DEF BlockInv, PairInv
  <2> HIDE DEF V, PairCalls
  <2> QED BY <2>1
<1>2. Range(todo[s]) = {Head(todo[s])} \cup Range(rest)
  <2> HIDE DEF V
  <2> QED BY <1>1, CallsInOrder
<1>3. first \in Seq(V) /\ Range(first) = {CallAnnounce(told)}
  BY CallsInOrder
<1>4. \/ Range(calls) = Range(rest)
      \/ Range(calls) = {CallAnnounce(told)} \cup Range(rest)
  <2>1. calls = rest \/ calls = first \o rest
    OBVIOUS
  <2> HIDE DEF V, first, rest
  <2>2. Range(first \o rest) = Range(first) \cup Range(rest)
    BY <1>1, <1>3, CallsInOrder
  <2> QED BY <1>3, <2>1, <2>2
<1>5. CallAnnounce(told).op = "announce"
  BY DEF CallAnnounce
<1>6. \/ WillLeave(todo[s], s) => WillLeave(calls, s)
      \/ Head(todo[s]).op = "leave_room" /\ Head(todo[s]).who = s
  BY <1>2, <1>4 DEF WillLeave
<1>7. CASE \A c \in Range(todo[s]) : c.op # "block_pair"
  <2>1. BlockFirst(calls, s) /\ Head(todo[s]).op # "block_pair"
    BY <1>2, <1>4, <1>5, <1>7 DEF BlockFirst
  <2> QED BY <1>6, <2>1
<1>8. CASE \E u \in Users : todo[s] = <<CallBlock(UserOf[s], u), CallPartner("block")>>
  <2>1. PICK u \in Users : todo[s] = <<CallBlock(UserOf[s], u), CallPartner("block")>>
    BY <1>8
  <2>2. Head(todo[s]) = CallBlock(UserOf[s], u) /\ Tail(todo[s]) = <<CallPartner("block")>>
    BY <2>1
  <2>3. Range(Tail(todo[s])) = {CallPartner("block")}
    BY <2>2, CallsInOrder
  <2>4. CallPartner("block") \in Range(calls) /\ \A c \in Range(calls) : c.op # "block_pair"
    BY <1>4, <1>5, <2>3 DEF CallPartner
  <2>5. BlockFirst(calls, s)
    BY <2>4 DEF BlockFirst
  <2>6. WillLeave(calls, s)
    BY <2>4 DEF WillLeave, CallPartner
  <2>7. Head(todo[s]).pair = {UserOf[s], u}
    BY <2>2 DEF CallBlock
  <2> QED BY <1>6, <2>5, <2>6, <2>7
<1>9. BlockFirst(todo[s], s)
  BY DEF BlockInv
<1> QED BY <1>7, <1>8, <1>9 DEF BlockFirst

LEMMA JoinedUnblocked ==
    ASSUME BlockInv, NEW s \in Sockets, NEW p \in Preferences, NEW rest, Joined(s, p, rest)
    PROVE  /\ engine'.blocked_pairs = engine.blocked_pairs
           /\ \A x \in Sockets : \/ engine'.partners[x] \in {engine.partners[x], NoSocket}
                                 \/ ~Blocked(x, engine'.partners[x])
           /\ \E told : \/ todo' = [todo EXCEPT ![s] = rest]
                        \/ todo' = [todo EXCEPT ![s] = <<CallAnnounce(told)>> \o rest]
<1>1. /\ Apart(engine) /\ Shaped(engine) /\ InOrder(engine)
      /\ engine.room_seq < MaxRooms /\ engine' = join_queue(engine, s, UserOf[s], p)
  BY DEF BlockInv, PairInv, Waits, Joined, RoomLeft
<1>2. /\ engine'.blocked_pairs = engine.blocked_pairs
      /\ \A x \in Sockets :
            \/ engine'.partners[x] \in {engine.partners[x], NoSocket}
            \/ {UserOf[x], UserOf[engine'.partners[x]]} \notin engine.blocked_pairs
  BY <1>1, JoinIsUnblocked
<1>3. \E told : \/ todo' = [todo EXCEPT ![s] = rest]
                \/ todo' = [todo EXCEPT ![s] = <<CallAnnounce(told)>> \o rest]
  BY DEF Joined, Then
<1> QED BY <1>2, <1>3 DEF Blocked

LEMMA MessageBlocks ==
    ASSUME PairsOnly, BlockInv, PairInv', Waits', NEW s \in Sockets, ClientMessage(s)
    PROVE  BlockInv'
<1>1. PairInv /\ Apart(engine) /\ Waits /\ Shaped(engine)
  BY DEF BlockInv, PairInv, Waits
<1>2. todo[s] = << >> /\ ~WillLeave(todo[s], s) /\ DOMAIN todo = Sockets
  <2>1. todo[s] = << >>
    BY <1>1, OtherMessages
       DEF ClientMessage, QueueJoin, RoomNext, RoomLeave, QueueHeartbeat, Report, Block,
           GroupMatchLeave, Receive
  <2> QED BY <2>1, <1>1, NoCallsLeft DEF PairInv, IInv
<1>3. CASE QueueJoin(s)
  <2>1. PICK p \in PrefsOf[s] : Joined(s, p, << >>)
    BY <1>3 DEF QueueJoin
  <2>2. PICK told : \/ todo' = [todo EXCEPT ![s] = << >>]
                    \/ todo' = [todo EXCEPT ![s] = <<CallAnnounce(told)>> \o << >>]
    BY <2>1, JoinedUnblocked, PrefsOfAssumption
  <2>3. <<CallAnnounce(told)>> \o << >> = <<CallAnnounce(told)>>
    OBVIOUS
  <2>4. BlockFirst(<<CallAnnounce(told)>>, s)
    BY CallsInOrder DEF BlockFirst, CallAnnounce
  <2>5. PICK calls : todo' = [todo EXCEPT ![s] = calls] /\ BlockFirst(calls, s)
    BY <2>2, <2>3, <2>4, NoCallsLeft
  <2> QED BY <1>2, <2>1, <2>5, JoinedUnblocked, PrefsOfAssumption, BlockKept
<1>4. CASE RoomNext(s)
  <2>1. PICK p \in PrefsOf[s] : todo' = [todo EXCEPT ![s] = <<CallJoin(p)>>]
    BY <1>4 DEF RoomNext, Then
  <2>2. BlockFirst(<<CallJoin(p)>>, s)
    BY CallsInOrder DEF BlockFirst, CallJoin
  <2>3. /\ Ends(engine, engine', s)
        /\ engine'.blocked_pairs = engine.blocked_pairs
    BY <1>1, <1>4, LeaveRoomApart, LeaveRoomOrder DEF RoomNext, OrderKept
  <2> QED BY <1>1, <1>2, <2>1, <2>2, <2>3, FewerMatches, BlockKept
<1>5. CASE RoomLeave(s) \/ GroupMatchLeave(s)
  <2>1. PICK c \in {CallLeave(s, TRUE), CallLeaveGroup(s)} :
           todo' = [todo EXCEPT ![s] = <<c>>]
    BY <1>5 DEF RoomLeave, GroupMatchLeave, Then
  <2>2. BlockFirst(<<c>>, s)
    BY CallsInOrder DEF BlockFirst, CallLeave, CallLeaveGroup
  <2>3. /\ Quits(engine, engine', s)
        /\ engine'.blocked_pairs = engine.blocked_pairs
    BY <1>1, <1>5, RemoveFromQueueApart, RemoveFromQueueOrder
       DEF RoomLeave, GroupMatchLeave, OrderKept
  <2> QED BY <1>1, <1>2, <2>1, <2>2, <2>3, FewerMatches, BlockKept
<1>6. CASE UNCHANGED <<engine, todo>>
  BY <1>6 DEF BlockInv, BlocksEnd, Blocked, partner
<1>7. CASE QueueHeartbeat(s)
  <2>1. UNCHANGED <<engine, todo>>
    BY <1>1, <1>7, HeartbeatApart DEF QueueHeartbeat
  <2> QED BY <1>6, <2>1
<1>8. CASE Report(s) \/ Block(s)
  <2>1. UNCHANGED engine
    BY <1>8 DEF Report, Block
  <2>2. PICK calls : todo' = [todo EXCEPT ![s] = calls] /\ BlockFirst(calls, s)
    <3>1. \/ \E o \in {"report", "block"} : todo' = [todo EXCEPT ![s] = <<CallPartner(o)>>]
          \/ \E u \in resolve_target_user(s) : todo' =
                [todo EXCEPT ![s] = <<CallBlock(UserOf[s], u), CallPartner("block")>>]
      BY <1>8 DEF Report, Block, Then
    <3>2. \A o \in {"report", "block"} : BlockFirst(<<CallPartner(o)>>, s)
      BY CallsInOrder DEF BlockFirst, CallPartner
    <3>3. \A u \in resolve_target_user(s) :
             BlockFirst(<<CallBlock(UserOf[s], u), CallPartner("block")>>, s)
      BY DEF BlockFirst, resolve_target_user
    <3> QED BY <3>1, <3>2, <3>3
  <2>3. \A x \in Sockets : engine'.partners[x] \in {engine.partners[x], NoSocket}
    BY <2>1
  <2> QED BY <1>2, <2>1, <2>2, <2>3, BlockKept
<1> QED BY <1>1, <1>3, <1>4, <1>5, <1>7, <1>8, OtherMessages DEF ClientMessage

\* The match across a new block is the caller's own, and the call after this one
\* goes on to end it.
LEMMA BlockCallBlocks ==
    ASSUME OneTab, BlockInv, PairInv', Waits', NEW s \in Sockets, BlockPairCall(s)
    PROVE  BlockInv'
<1> DEFINE calls == Tail(todo[s])
<1>1. /\ todo[s] # << >> /\ Head(todo[s]).op = "block_pair"
      /\ todo' = [todo EXCEPT ![s] = calls]
  BY DEF BlockPairCall, Calls, Done
<1>2. /\ BlockFirst(calls, s) /\ WillLeave(calls, s)
      /\ \E u \in Users : Head(todo[s]).pair = {UserOf[s], u}
  BY <1>1, RestOfCalls
<1> HIDE DEF calls
<1>3. engine \in EngineStates /\ DOMAIN todo = Sockets
  BY DEF BlockInv, PairInv, IInv, Good, WellFormed
<1>4. /\ engine'.blocked_pairs = engine.blocked_pairs \cup {Head(todo[s]).pair}
      /\ engine'.partners = engine.partners
  BY <1>3 DEF BlockPairCall, EngineStates
<1>5. ASSUME NEW x \in Sockets, engine'.partners[x] # NoSocket,
             {UserOf[x], UserOf[engine'.partners[x]]} \in engine'.blocked_pairs
      PROVE  \/ WillLeave(todo'[x], x)
             \/ WillLeave(todo'[engine'.partners[x]], engine'.partners[x])
  <2> DEFINE y == engine.partners[x]
  <2>1. y \in Sockets /\ engine'.partners[x] = y
    BY <1>3, <1>4, <1>5 DEF EngineStates
  <2> HIDE DEF y
  <2>2. \/ {UserOf[x], UserOf[y]} \in engine.blocked_pairs
        \/ {UserOf[x], UserOf[y]} = Head(todo[s]).pair
    BY <1>4, <1>5, <2>1
  <2>3. CASE {UserOf[x], UserOf[y]} \in engine.blocked_pairs
    <3>1. WillLeave(todo[x], x) \/ WillLeave(todo[y], y)
      BY <1>4, <1>5, <2>1, <2>3 DEF BlockInv, BlocksEnd, Blocked, partner
    <3>2. \A z \in {x, y} : WillLeave(todo[z], z) => WillLeave(todo'[z], z)
      BY <1>1, <1>2, <1>3, <2>1
    <3> QED BY <2>1, <3>1, <3>2
  <2>4. CASE {UserOf[x], UserOf[y]} = Head(todo[s]).pair
    <3>1. PICK u \in Users : {UserOf[x], UserOf[y]} = {UserOf[s], u}
      BY <1>2, <2>4
    <3>2. Head(todo[s]).pair \subseteq Users
      BY <1>1, NextPairCall DEF BlockInv, EngineCalls
    <3>3. x = s \/ y = s
      BY <2>1, <2>4, <3>1, <3>2 DEF OneTab
    <3> QED BY <1>1, <1>2, <1>3, <2>1, <3>3
  <2> QED BY <2>2, <2>3, <2>4
<1>6. BlocksEnd'
  BY <1>5 DEF BlocksEnd, Blocked, partner
<1>7. \A x \in Sockets : BlockFirst(todo'[x], x)
  BY <1>1, <1>2, <1>3 DEF BlockInv
<1> QED BY <1>6, <1>7 DEF BlockInv

LEMMA CallBlocks ==
    ASSUME OneTab, BlockInv, PairInv', Waits', NEW s \in Sockets, HandlerCall(s)
    PROVE  BlockInv'
<1>1. PairInv /\ Apart(engine) /\ Waits /\ Shaped(engine)
  BY DEF BlockInv, PairInv, Waits
<1>2. todo[s] # << >> /\ Head(todo[s]) \in EngineCalls
  <2>1. todo[s] # << >>
    BY <1>1, OtherCalls
       DEF HandlerCall, Calls, LeaveRoomCall, LeaveGroupCall, JoinQueueCall,
           BlockPairCall, ReadPartnerCall, ReadGroupCall, AnnounceCall
  <2> QED BY <1>1, <2>1, NextPairCall
<1>3. CASE LeaveRoomCall(s)
  <2> DEFINE who == Head(todo[s]).who
  <2>1. /\ who \in Sockets /\ Head(todo[s]).notify \in BOOLEAN
        /\ Head(todo[s]).op = "leave_room"
    BY <1>2, <1>3 DEF LeaveRoomCall, Calls, EngineCalls
  <2>2. Ends(engine, engine', who) /\ engine'.blocked_pairs = engine.blocked_pairs
    BY <1>1, <1>3, <2>1, LeaveRoomApart, LeaveRoomOrder DEF LeaveRoomCall, OrderKept
  <2>3. todo' = [todo EXCEPT ![s] = Tail(todo[s])]
    BY <1>3 DEF LeaveRoomCall, Done
  <2>4. /\ \A x \in Sockets : engine'.partners[x] \in {engine.partners[x], NoSocket}
        /\ engine'.partners[who] = NoSocket
    BY <1>1, <2>1, <2>2, FewerMatches
  <2>5. /\ BlockFirst(Tail(todo[s]), s)
        /\ \/ WillLeave(todo[s], s) => WillLeave(Tail(todo[s]), s)
           \/ who = s
    BY <1>2, <2>1, RestOfCalls
  <2> QED BY <2>2, <2>3, <2>4, <2>5, BlockKept
<1>4. CASE LeaveGroupCall(s) \/ AnnounceCall(s)
  <2>1. Head(todo[s]).op \in {"leave_group", "announce"}
    BY <1>4 DEF LeaveGroupCall, AnnounceCall, Calls
  <2>2. /\ engine'.partners = engine.partners
        /\ engine'.blocked_pairs = engine.blocked_pairs
    <3>1. CASE LeaveGroupCall(s)
      <4>1. Head(todo[s]).who \in Sockets
        BY <1>2, <3>1 DEF LeaveGroupCall, Calls, EngineCalls
      <4> QED BY <1>1, <3>1, <4>1, Unmapped DEF LeaveGroupCall
    <3>2. CASE AnnounceCall(s)
      BY <1>1, <3>2, TellApart, TellOrder DEF AnnounceCall, Frames, Stays, OrderKept
    <3> QED BY <1>4, <3>1, <3>2
  <2>3. todo' = [todo EXCEPT ![s] = Tail(todo[s])]
    BY <1>4 DEF LeaveGroupCall, AnnounceCall, Done
  <2>4. /\ BlockFirst(Tail(todo[s]), s)
        /\ WillLeave(todo[s], s) => WillLeave(Tail(todo[s]), s)
    BY <1>2, <2>1, RestOfCalls
  <2>5. \A x \in Sockets : engine'.partners[x] \in {engine.partners[x], NoSocket}
    BY <2>2
  <2> QED BY <2>2, <2>3, <2>4, <2>5, BlockKept
<1>5. CASE JoinQueueCall(s)
  <2>1. Head(todo[s]).prefs \in Preferences /\ Head(todo[s]).op = "join_queue"
    BY <1>2, <1>5 DEF JoinQueueCall, Calls, EngineCalls
  <2>2. Joined(s, Head(todo[s]).prefs, Tail(todo[s]))
    BY <1>5 DEF JoinQueueCall
  <2>3. PICK told :
           \/ todo' = [todo EXCEPT ![s] = Tail(todo[s])]
           \/ todo' = [todo EXCEPT ![s] = <<CallAnnounce(told)>> \o Tail(todo[s])]
    BY <2>1, <2>2, JoinedUnblocked
  <2>4. PICK calls : /\ calls = Tail(todo[s]) \/ calls = <<CallAnnounce(told)>> \o Tail(todo[s])
                     /\ todo' = [todo EXCEPT ![s] = calls]
    BY <2>3
  <2>5. /\ BlockFirst(calls, s)
        /\ WillLeave(todo[s], s) => WillLeave(calls, s)
    BY <1>2, <2>1, <2>4, RestOfCalls
  <2> QED BY <2>1, <2>2, <2>4, <2>5, JoinedUnblocked, BlockKept
<1>6. CASE ReadPartnerCall(s)
  <2> DEFINE calls == <<CallGroup(Head(todo[s]).order, engine.partners[s])>>
  <2>1. UNCHANGED engine /\ todo' = [todo EXCEPT ![s] = calls]
    BY <1>6 DEF ReadPartnerCall, Then
  <2>2. BlockFirst(calls, s) /\ WillLeave(calls, s)
    BY CallsInOrder DEF BlockFirst, WillLeave, CallGroup
  <2>3. \A x \in Sockets : engine'.partners[x] \in {engine.partners[x], NoSocket}
    BY <2>1
  <2> QED BY <2>1, <2>2, <2>3, BlockKept
<1>7. CASE ReadGroupCall(s)
  <2> DEFINE group == IF engine.group_room_of_socket[s] = NoRoom THEN << >>
                      ELSE <<CallLeaveGroup(s)>>
             leave == <<CallLeave(s, TRUE)>>
             last  == LeaveRead(Head(todo[s]).partner)
             calls == (IF Head(todo[s]).order = "report" THEN leave \o group
                       ELSE group \o leave) \o last
  <2>1. engine.group_room_of_socket[s] = NoRoom
    BY <1>1, Unmapped
  <2>2. calls = leave \o last
    BY <2>1
  <2>3. last = << >> \/ last = <<CallLeave(Head(todo[s]).partner, FALSE)>>
    BY DEF LeaveRead
  <2>4. UNCHANGED engine /\ todo' = [todo EXCEPT ![s] = calls]
    BY <1>7 DEF ReadGroupCall, Then
  <2>5. Range(calls) = Range(leave) \cup Range(last)
    <3> DEFINE a == CallLeave(s, TRUE)
               b == CallLeave(Head(todo[s]).partner, FALSE)
               V == {a, b}
    <3>1. leave \in Seq(V) /\ last \in Seq(V)
      <4>1. leave = <<a>> /\ (last = << >> \/ last = <<b>>)
        BY <2>3
      <4>2. <<a>> \in Seq(V) /\ <<b>> \in Seq(V) /\ << >> \in Seq(V)
        BY ShortSequences
      <4> QED BY <4>1, <4>2
    <3> HIDE DEF calls, leave, last, V
    <3> QED BY <2>2, <3>1, CallsInOrder
  <2>6. BlockFirst(calls, s) /\ WillLeave(calls, s)
    <3>1. \A c \in Range(last) : c.op = "leave_room"
      BY <2>3, CallsInOrder DEF CallLeave
    <3>2. Range(leave) = {CallLeave(s, TRUE)}
      BY CallsInOrder
    <3> HIDE DEF calls, leave, last
    <3>3. \A c \in Range(calls) : c.op = "leave_room"
      BY <2>5, <3>1, <3>2 DEF CallLeave
    <3>4. CallLeave(s, TRUE) \in Range(calls)
      BY <2>5, <3>2
    <3>5. WillLeave(calls, s)
      BY <3>4 DEF WillLeave, CallLeave
    <3> QED BY <3>3, <3>5 DEF BlockFirst
  <2> HIDE DEF calls
  <2>7. \A x \in Sockets : engine'.partners[x] \in {engine.partners[x], NoSocket}
    BY <2>4
  <2> QED BY <2>4, <2>6, <2>7, BlockKept
<1> QED BY <1>1, <1>3, <1>4, <1>5, <1>6, <1>7, OtherCalls, BlockCallBlocks DEF HandlerCall

LEMMA BlockStep ==
    ASSUME PairsOnly, OneTab, BlockInv, [Next]_vars
    PROVE  BlockInv'
<1>1. PairInv' /\ Waits' /\ PairInv /\ engine \in EngineStates
  BY PairStep, WaitsStep DEF BlockInv, PairInv, IInv, Good, WellFormed
<1>2. ASSUME NEW s \in Sockets, Teardown(s) PROVE BlockInv'
  <2>1. todo[s] = << >> /\ todo' = [todo EXCEPT ![s] = << >>]
    BY <1>1, <1>2 DEF Teardown, PairInv, IInv
  <2>2. Vanishes(engine, engine', s) /\ engine'.blocked_pairs = engine.blocked_pairs
    BY <1>1, <1>2, FullRemoveApart, FullRemoveOrder
       DEF Teardown, PairInv, BlockInv, Waits, OrderKept
  <2> QED BY <1>1, <2>1, <2>2, FewerMatches, NoCallsLeft, BlockKept
<1>3. CASE /\ UNCHANGED todo /\ engine'.partners = engine.partners
           /\ engine'.blocked_pairs = engine.blocked_pairs
  BY <1>1, <1>3 DEF BlockInv, BlocksEnd, Blocked, partner
<1>4. CASE PairForgotten
  BY <1>1, <1>3, <1>4 DEF PairForgotten, EngineStates
<1>5. ASSUME NEW s \in Sockets, SlowConsumer(s) \/ Forget(s) PROVE BlockInv'
  BY <1>3, <1>5 DEF SlowConsumer, Forget
<1>6. timers = {}
  BY DEF BlockInv, PairInv
<1> QED BY <1>1, <1>2, <1>3, <1>4, <1>5, <1>6, MessageBlocks, CallBlocks DEF Next, vars

LEMMA BlockStart == Init => BlockInv
<1> SUFFICES ASSUME Init PROVE BlockInv
  OBVIOUS
<1>1. PairInv /\ Waits
  BY PairStart, WaitsStart
<1>2. \A s \in Sockets : partner(s) = NoSocket /\ todo[s] = << >>
  BY DEF Init, EmptyEngine, partner
<1> QED BY <1>1, <1>2, NoCallsLeft DEF BlockInv, BlocksEnd

\* Where only 1:1 matches are made and no account has two tabs, a match across
\* a block is about to be left by one of its ends, in whatever order the calls
\* of its two handlers, of other joins and of other blocks are served.
THEOREM BlocksSeparate ==
    ASSUME PairsOnly, OneTab
    PROVE  Spec => []BlockedApart
<1>1. Init => BlockInv
  BY BlockStart
<1>2. BlockInv /\ [Next]_vars => BlockInv'
  BY BlockStep
<1>3. BlockInv => BlockedApart
  BY DEF BlockInv, BlocksEnd, Blocked, BlockedApart, WillLeave, Range
<1> QED BY <1>1, <1>2, <1>3, PTL DEF Spec

-----------------------------------------------------------------------------
(* Releases.  Only leave_group takes a mapping away: from its caller in      *)
(* silence, from the others of a room it ends with room:peer-left.           *)

\* The part of the engine's shape these proofs rest on.
Framed(e) ==
    /\ Shaped(e) /\ hub \subseteq Sockets
    /\ e.group_room_of_socket \in [Sockets -> RoomIds \cup {NoRoom}]
    /\ e.told \in [Sockets -> Frames] /\ e.room_seq \in 0..MaxRooms

\* t has a group room, or the last it heard is that it was left.
Heard(e, t) == e.group_room_of_socket[t] # NoRoom \/ e.told[t] = "room:peer-left"

\* Nobody but x loses a room from e to f without hearing of it.
Loud(e, f, x) == \A t \in hub \ {x} : Heard(e, t) => Heard(f, t)

\* Nobody loses a room from e to f at all.
SeatsKept(e, f) ==
    \A t \in Sockets : e.group_room_of_socket[t] # NoRoom => f.group_room_of_socket[t] # NoRoom

\* An operation that prepares a match or a seat.
Prepares(e, f) == Framed(f) /\ f.room_seq = e.room_seq

LEMMA LoudChains ==
    ASSUME NEW e, NEW f, NEW g, NEW x, Loud(e, f, x), Loud(f, g, x)
    PROVE  Loud(e, g, x)
BY DEF Loud

LEMMA SeatsChain ==
    ASSUME NEW e, NEW f, NEW g, SeatsKept(e, f), SeatsKept(f, g)
    PROVE  SeatsKept(e, g)
BY DEF SeatsKept

\* The same mappings and the same frames.
LEMMA SameIsLoud ==
    ASSUME NEW e, NEW f, NEW x, f.group_room_of_socket = e.group_room_of_socket,
           f.told = e.told
    PROVE  SeatsKept(e, f) /\ Loud(e, f, x)
BY DEF SeatsKept, Loud, Heard

LEMMA GoodIsFramed ==
    ASSUME NEW e, Good(e), hub \subseteq Sockets
    PROVE  Framed(e)
BY DEF Good, WellFormed, EngineStates, EmptyEngine, Framed, Shaped

LEMMA TellSeats ==
    ASSUME NEW e, Framed(e), NEW S, NEW frame \in Frames
    PROVE  LET f == Tell(e, S, frame)
           IN  /\ Prepares(e, f) /\ f.group_room_of_socket = e.group_room_of_socket
               /\ \A t \in Sockets : f.told[t] = IF t \in S \cap hub THEN frame ELSE e.told[t]
               /\ SeatsKept(e, f)
BY DEF Framed, Shaped, EmptyEngine, Tell, Prepares, SeatsKept

LEMMA DropWaitingSeats ==
    ASSUME NEW e, Framed(e), NEW s, NEW x
    PROVE  LET f == drop_waiting(e, s)
           IN  Prepares(e, f) /\ SeatsKept(e, f) /\ Loud(e, f, x)
<1> DEFINE f == drop_waiting(e, s)
<1>1. /\ f.group_room_of_socket = e.group_room_of_socket /\ f.told = e.told
      /\ f.room_seq = e.room_seq /\ Shaped(f)
  BY DEF drop_waiting, Framed, Shaped, EmptyEngine
<1> HIDE DEF f
<1> QED BY <1>1, SameIsLoud DEF Prepares, Framed, f

LEMMA DequeueSeats ==
    ASSUME NEW e, Framed(e), NEW ids, NEW x
    PROVE  LET f == dequeue_groups(e, ids)
           IN  Prepares(e, f) /\ SeatsKept(e, f) /\ Loud(e, f, x)
<1> DEFINE f == dequeue_groups(e, ids)
<1>1. /\ f.group_room_of_socket = e.group_room_of_socket /\ f.told = e.told
      /\ f.room_seq = e.room_seq /\ Shaped(f)
  BY DEF dequeue_groups, Framed, Shaped, EmptyEngine
<1> HIDE DEF f
<1> QED BY <1>1, SameIsLoud DEF Prepares, Framed, f

LEMMA RemoveFromQueueSeats ==
    ASSUME NEW e, Framed(e), NEW s, NEW x
    PROVE  LET f == remove_from_queue(e, s)
           IN  Prepares(e, f) /\ SeatsKept(e, f) /\ Loud(e, f, x)
BY DropWaitingSeats, DequeueSeats, SeatsChain, LoudChains DEF remove_from_queue, Prepares

LEMMA LeaveRoomSeats ==
    ASSUME NEW e, Framed(e), NEW s, NEW notify, NEW x
    PROVE  LET f == leave_room(e, s, notify)
           IN  Prepares(e, f) /\ SeatsKept(e, f) /\ Loud(e, f, x)
<1> DEFINE f == leave_room(e, s, notify)
<1>1. /\ f.group_room_of_socket = e.group_room_of_socket
      /\ f.room_seq = e.room_seq /\ Shaped(f)
      /\ f.told \in [Sockets -> Frames]
      /\ \A t \in Sockets : f.told[t] \in {e.told[t], "room:peer-left"}
  BY DEF leave_room, Tell, Framed, Shaped, EmptyEngine, Frames
<1> HIDE DEF f
<1>2. Prepares(e, f) /\ SeatsKept(e, f)
  BY <1>1 DEF Prepares, SeatsKept, Framed
<1>3. Loud(e, f, x)
  BY <1>1 DEF Loud, Heard, Framed
<1> QED BY <1>2, <1>3 DEF f

\* Whom a room it ends releases is told; the caller is not.
LEMMA LeaveGroupSeats ==
    ASSUME NEW e, Framed(e), NEW s \in Sockets
    PROVE  LET f == leave_group(e, s)
           IN  Prepares(e, f) /\ Loud(e, f, s)
<1> DEFINE id       == e.group_room_of_socket[s]
           unmapped == [e EXCEPT !.group_room_of_socket[s] = NoRoom]
           f        == leave_group(e, s)
<1>1. /\ Shaped(unmapped) /\ unmapped.room_seq = e.room_seq /\ unmapped.told = e.told
      /\ unmapped.group_room_of_socket \in [Sockets -> RoomIds \cup {NoRoom}]
      /\ \A t \in Sockets \ {s} :
            unmapped.group_room_of_socket[t] = e.group_room_of_socket[t]
  BY SMTT(30) DEF Framed, Shaped, EmptyEngine
<1>2. \/ f = e \/ f = unmapped
      \/ \E S : f = dissolve(unmapped, id, S)
      \/ \E g : f = [unmapped EXCEPT !.group_rooms[id] = g]
  BY ZenonT(40) DEF leave_group
<1> SUFFICES Prepares(e, f) /\ Loud(e, f, s)
  OBVIOUS
<1> HIDE DEF f, unmapped
<1>3. CASE f = e
  BY <1>3 DEF Prepares, Loud
<1>4. CASE \/ f = unmapped
           \/ \E g : f = [unmapped EXCEPT !.group_rooms[id] = g]
  <2>1. /\ f.group_room_of_socket = unmapped.group_room_of_socket
        /\ f.told = e.told /\ f.room_seq = e.room_seq /\ Shaped(f)
    BY <1>1, <1>4 DEF Shaped, EmptyEngine
  <2> QED BY <1>1, <2>1 DEF Prepares, Framed, Loud, Heard
<1>5. CASE \E S : f = dissolve(unmapped, id, S)
  <2>1. PICK S : f = dissolve(unmapped, id, S)
    BY <1>5
  <2>2. /\ f.group_room_of_socket = Clear(unmapped.group_room_of_socket, S, NoRoom)
        /\ f.told = [t \in Sockets |->
               IF t \in S \cap hub THEN "room:peer-left" ELSE e.told[t]]
        /\ f.room_seq = e.room_seq /\ Shaped(f)
    BY <1>1, <2>1 DEF dissolve, Tell, Shaped, EmptyEngine
  <2>3. \A t \in Sockets : f.group_room_of_socket[t] =
            IF t \in S THEN NoRoom ELSE unmapped.group_room_of_socket[t]
    BY <1>1, <2>2 DEF Clear
  <2>4. f.group_room_of_socket \in [Sockets -> RoomIds \cup {NoRoom}]
    BY <1>1, <2>2 DEF Clear
  <2>5. f.told \in [Sockets -> Frames]
    BY <2>2 DEF Framed, Frames
  <2>6. Prepares(e, f)
    BY <2>2, <2>4, <2>5 DEF Prepares, Framed
  <2>7. Loud(e, f, s)
    BY <1>1, <2>2, <2>3 DEF Loud, Heard, Framed
  <2> QED BY <2>6, <2>7
<1> QED BY <1>2, <1>3, <1>4, <1>5

\* Who takes part in the match of sides A and B.
Lineup(A, B) == lineup({p \in A : p.socket \in hub}, {p \in B : p.socket \in hub})

\* Those who keep their seats in the room `id' when `people' move out.
StayBehind(e, id, people) ==
    {p \in members(e, id) :
        ~(p.socket \in SocketsOf(people) /\ e.group_room_of_socket[p.socket] = id)}

\* From e to f `people' move to a fresh room and are told so; the rooms in
\* Emptied disappear.
MovesOut(e, f, people, g, Emptied, frame) ==
    LET new == <<"room", e.room_seq + 1>>
    IN  /\ g.participants = people /\ f.blocked_pairs = e.blocked_pairs
        /\ f.group_room_of_socket = [s \in Sockets |->
              IF s \in SocketsOf(people) THEN new ELSE e.group_room_of_socket[s]]
        /\ f.told = [s \in Sockets |->
              IF s \in SocketsOf(people) \cap hub THEN frame ELSE e.told[s]]
        /\ f.group_rooms = [id \in RoomIds |->
              IF id = new THEN g
              ELSE IF Live(e, id) /\ id \notin Emptied
              THEN [e.group_rooms[id] EXCEPT
                      !.participants = Compact(StayBehind(e, id, people))]
              ELSE NoGroup]

LEMMA NotifyIs ==
    ASSUME NEW e, Shaped(e), NEW A, NEW B, NEW from
    PROVE  LET f == notify_group_match(e, A, B, from)
           IN  f = e \/ \E g, Emptied, frame : MovesOut(e, f, Lineup(A, B), g, Emptied, frame)
<1> DEFINE people == lineup({p \in A : p.socket \in hub}, {p \in B : p.socket \in hub})
           moved  == SocketsOf(people)
           new    == <<"room", e.room_seq + 1>>
           Staying(id) == {p \in members(e, id) :
               ~(p.socket \in moved /\ e.group_room_of_socket[p.socket] = id)}
           Emptied == {id \in RoomIds : Live(e, id) /\ Staying(id) = {}}
           first  == FirstOf(people)
           keep   == from # NoRoom /\ Live(e, from) /\ Staying(from) # {}
           g == [host |-> first.socket, host_user |-> first.user,
                 scope |-> IF keep THEN e.group_rooms[from].scope ELSE "all",
                 prefs |-> IF keep THEN e.group_rooms[from].prefs ELSE first.prefs,
                 participants |-> people, in_queue |-> from # NoRoom, matched |-> TRUE]
           Q == Compact(Without(e.waiting_groups, Emptied))
           rooms == [id \in RoomIds |->
                   CASE id = new -> g
                     [] id # new /\ id \in Emptied -> NoGroup
                     [] id # new /\ id \notin Emptied /\ Live(e, id) ->
                           [e.group_rooms[id] EXCEPT !.participants = Compact(Staying(id))]
                     [] OTHER -> NoGroup]
           map == [s \in Sockets |->
                   IF s \in moved THEN new ELSE e.group_room_of_socket[s]]
           m == [e EXCEPT
               !.room_seq = @ + 1, !.group_rooms = rooms, !.group_room_of_socket = map,
               !.partners = Clear(@, stale_pairs(e, people).partners, NoSocket),
               !.rooms_by_socket = Clear(@, stale_pairs(e, people).rooms, NoPair),
               !.waiting_groups = IF from # NoRoom
                   THEN Q \cup {[at |-> NextAt(Q), id |-> new]} ELSE Q]
           frame == IF from # NoRoom THEN "queue:waiting" ELSE "group-match:matched"
           told  == [s \in Sockets |-> IF s \in moved \cap hub THEN frame ELSE e.told[s]]
           f     == notify_group_match(e, A, B, from)
<1>1. f = IF Cardinality(people) < 2 THEN e ELSE Tell(m, moved, frame)
  BY DEF notify_group_match, Without
<1>2. rooms = [id \in RoomIds |->
                 IF id = new THEN g
                 ELSE IF Live(e, id) /\ id \notin Emptied
                 THEN [e.group_rooms[id] EXCEPT !.participants = Compact(Staying(id))]
                 ELSE NoGroup]
  <2> HIDE DEF g, new, Emptied, Staying
  <2> QED OBVIOUS
<1>3. g.participants = people
  OBVIOUS
<1> HIDE DEF g, Emptied, frame, f, rooms, map, Q
<1>4. /\ m.group_rooms = rooms /\ m.group_room_of_socket = map
      /\ m.blocked_pairs = e.blocked_pairs /\ m.told = e.told /\ Shaped(m)
  BY DEF Shaped, EmptyEngine
<1> HIDE DEF m, people
<1>5. LET t == Tell(m, moved, frame)
      IN  /\ t.group_rooms = rooms /\ t.group_room_of_socket = map
          /\ t.blocked_pairs = e.blocked_pairs /\ t.told = told
  <2> DEFINE t == Tell(m, moved, frame)
  <2>1. t.told = told
    BY <1>4 DEF Tell, Shaped, EmptyEngine
  <2> QED BY <1>4, <2>1 DEF Tell, Shaped, EmptyEngine
<1>6. CASE f = e
  BY <1>6 DEF f
<1>7. CASE f = Tell(m, moved, frame)
  <2>1. f.group_rooms = rooms /\ f.group_room_of_socket = map
        /\ f.blocked_pairs = e.blocked_pairs /\ f.told = told
    BY <1>5, <1>7
  <2> HIDE DEF told
  <2>2. /\ f.group_room_of_socket = [s \in Sockets |->
              IF s \in SocketsOf(people) THEN <<"room", e.room_seq + 1>>
              ELSE e.group_room_of_socket[s]]
        /\ f.told = [s \in Sockets |->
              IF s \in SocketsOf(people) \cap hub THEN frame ELSE e.told[s]]
    BY <2>1 DEF map, told
  <2>3. f.group_rooms = [id \in RoomIds |->
              IF id = <<"room", e.room_seq + 1>> THEN g
              ELSE IF Live(e, id) /\ id \notin Emptied
              THEN [e.group_rooms[id] EXCEPT
                      !.participants = Compact(StayBehind(e, id, people))]
              ELSE NoGroup]
    BY <1>2, <2>1 DEF StayBehind
  <2>4. MovesOut(e, f, people, g, Emptied, frame)
    BY <1>3, <2>1, <2>2, <2>3 DEF MovesOut
  <2>5. people = Lineup(A, B)
    BY DEF people, Lineup
  <2> QED BY <2>4, <2>5 DEF f
<1> QED BY <1>1, <1>6, <1>7

\* A merge moves people to the new room and leaves the others where they are.
LEMMA NotifySeats ==
    ASSUME NEW e, Framed(e), e.room_seq < MaxRooms, NEW A, NEW B, NEW from, NEW x
    PROVE  LET f == notify_group_match(e, A, B, from)
           IN  SeatsKept(e, f) /\ Loud(e, f, x)
<1> DEFINE f   == notify_group_match(e, A, B, from)
           new == <<"room", e.room_seq + 1>>
<1>1. new \in RoomIds /\ new # NoRoom
  <2>1. new \in RoomIds
    BY MaxRoomsAssumption DEF Framed, RoomIds
  <2> QED BY <2>1, RoomAssumption
<1>2. f = e \/ \E g, Emptied, frame : MovesOut(e, f, Lineup(A, B), g, Emptied, frame)
  BY NotifyIs DEF Framed
<1> SUFFICES SeatsKept(e, f) /\ Loud(e, f, x)
  OBVIOUS
<1> HIDE DEF f
<1>3. CASE f = e
  BY <1>3 DEF SeatsKept, Loud
<1>4. CASE \E g, Emptied, frame : MovesOut(e, f, Lineup(A, B), g, Emptied, frame)
  <2>1. PICK people, g, Emptied, frame : MovesOut(e, f, people, g, Emptied, frame)
    BY <1>4
  <2>2. \A t \in Sockets : f.group_room_of_socket[t] =
           IF t \in SocketsOf(people) THEN new ELSE e.group_room_of_socket[t]
    BY <2>1 DEF MovesOut
  <2>3. \A t \in Sockets : t \notin SocketsOf(people) => f.told[t] = e.told[t]
    BY <2>1 DEF MovesOut
  <2> HIDE DEF new
  <2> QED BY <1>1, <2>2, <2>3 DEF SeatsKept, Loud, Heard, Framed
<1> QED BY <1>2, <1>3, <1>4

LEMMA RememberSeats ==
    ASSUME NEW e, Shaped(e), NEW a, NEW b, NEW x
    PROVE  LET f == remember_pair(e, a, b)
           IN  SeatsKept(e, f) /\ Loud(e, f, x) /\ Shaped(f)
<1> DEFINE f == remember_pair(e, a, b)
<1>1. f.group_room_of_socket = e.group_room_of_socket /\ f.told = e.told /\ Shaped(f)
  BY DEF remember_pair, Shaped, EmptyEngine
<1> HIDE DEF f
<1> QED BY <1>1, SameIsLoud DEF f

LEMMA PairUpSeats ==
    ASSUME NEW e, Shaped(e), NEW a, NEW b, NEW x
    PROVE  LET f == pair_up(e, a, b)
           IN  SeatsKept(e, f) /\ Loud(e, f, x)
<1> DEFINE f == pair_up(e, a, b)
<1>1. f.group_room_of_socket = e.group_room_of_socket /\ f.told = e.told
  BY DEF pair_up, Shaped, EmptyEngine
<1> HIDE DEF f
<1> QED BY <1>1, SameIsLoud DEF f
LEMMA MergeSoloSeats ==
    ASSUME NEW e, Framed(e), e.room_seq < MaxRooms, NEW peer, NEW id, NEW x
    PROVE  LET f == merge_solo_with_group(e, peer, id)
           IN  SeatsKept(e, f) /\ Loud(e, f, x)
<1> DEFINE dropped == drop_waiting(e, peer.socket)
           ready   == dequeue_groups(dropped, {id})
           merged  == notify_group_match(ready, members(ready, id), {peer}, NoRoom)
           g       == merged.group_rooms[id]
           host    == [at |-> 0, socket |-> g.host, user |-> g.host_user,
                       prefs |-> g.prefs, session |-> NoSession]
           final   == remember_pair(merged, peer, host)
           f       == merge_solo_with_group(e, peer, id)
<1>1. f = merged \/ f = final
  BY DEF merge_solo_with_group
<1> SUFFICES SeatsKept(e, f) /\ Loud(e, f, x)
  OBVIOUS
<1> HIDE DEF f
<1>2. Prepares(e, dropped) /\ SeatsKept(e, dropped) /\ Loud(e, dropped, x)
  BY DropWaitingSeats
<1> HIDE DEF dropped
<1>3. Prepares(dropped, ready) /\ SeatsKept(dropped, ready) /\ Loud(dropped, ready, x)
  BY <1>2, DequeueSeats DEF Prepares
<1> HIDE DEF ready
<1>4. SeatsKept(ready, merged) /\ Loud(ready, merged, x) /\ Shaped(merged)
  <2>1. Framed(ready) /\ ready.room_seq < MaxRooms
    BY <1>2, <1>3 DEF Prepares
  <2>2. Shaped(merged)
    BY <2>1, NotifyOrder DEF OrderKept, Framed
  <2> QED BY <2>1, <2>2, NotifySeats
<1> HIDE DEF merged
<1>5. SeatsKept(merged, final) /\ Loud(merged, final, x)
  BY <1>4, RememberSeats
<1> HIDE DEF final
<1>6. SeatsKept(e, merged) /\ Loud(e, merged, x)
  BY <1>2, <1>3, <1>4, SeatsChain, LoudChains
<1>7. SeatsKept(e, final) /\ Loud(e, final, x)
  BY <1>5, <1>6, SeatsChain, LoudChains
<1> QED BY <1>1, <1>6, <1>7

\* A notification of a room that was taken off the list first.
LEMMA DequeuedMatchSeats ==
    ASSUME NEW e, Framed(e), e.room_seq < MaxRooms, NEW ids, NEW A, NEW B, NEW from
    PROVE  SeatsKept(e, notify_group_match(dequeue_groups(e, ids), A, B, from))
<1> DEFINE ready == dequeue_groups(e, ids)
<1>1. Prepares(e, ready) /\ SeatsKept(e, ready)
  BY DequeueSeats
<1> HIDE DEF ready
<1>2. SeatsKept(ready, notify_group_match(ready, A, B, from))
  BY <1>1, NotifySeats DEF Prepares
<1> QED BY <1>1, <1>2, SeatsChain DEF ready

LEMMA TryMatchSeats ==
    ASSUME NEW e, Framed(e), e.room_seq < MaxRooms, NEW id
    PROVE  SeatsKept(e, try_match_group(e, id))
<1> DEFINE f == try_match_group(e, id)
<1>1. \/ f = e
      \/ \E b : f = merge_groups_and_match(e, id, b)
      \/ \E p : f = merge_solo_with_group(e, p, id)
      \/ \E A : f = notify_group_match(dequeue_groups(e, {id}), A, {}, id)
  BY DEF try_match_group
<1> SUFFICES SeatsKept(e, f)
  OBVIOUS
<1> HIDE DEF f
<1>2. SeatsKept(e, e)
  BY DEF SeatsKept
<1>3. \A b : SeatsKept(e, merge_groups_and_match(e, id, b))
  BY DequeuedMatchSeats DEF merge_groups_and_match
<1>4. \A p : SeatsKept(e, merge_solo_with_group(e, p, id))
  BY MergeSoloSeats
<1>5. \A A : SeatsKept(e, notify_group_match(dequeue_groups(e, {id}), A, {}, id))
  BY DequeuedMatchSeats
<1> QED BY SMTT(30), <1>1, <1>2, <1>3, <1>4, <1>5

LEMMA EnqueueSeats ==
    ASSUME NEW e, Framed(e), NEW id
    PROVE  LET f == enqueue_group(e, id) IN Prepares(e, f) /\ SeatsKept(e, f)
<1> DEFINE pushed == [e EXCEPT !.waiting_groups =
                         @ \cup {[at |-> NextAt(@), id |-> id]}]
           marked == [pushed EXCEPT !.group_rooms[id].in_queue = TRUE]
           S      == SocketsOf(members(e, id))
           f      == enqueue_group(e, id)
<1>1. f = pushed \/ f = Tell(marked, S, "queue:waiting")
  BY DEF enqueue_group
<1> SUFFICES Prepares(e, f) /\ SeatsKept(e, f)
  OBVIOUS
<1> HIDE DEF f, S
<1>2. Prepares(e, pushed) /\ SeatsKept(e, pushed)
  BY DEF Prepares, Framed, Shaped, EmptyEngine, SeatsKept
<1>3. Prepares(e, marked) /\ SeatsKept(e, marked)
  BY DEF Prepares, Framed, Shaped, EmptyEngine, SeatsKept
<1> HIDE DEF pushed, marked
<1>4. LET g == Tell(marked, S, "queue:waiting")
      IN  Prepares(marked, g) /\ SeatsKept(marked, g)
  BY <1>3, TellSeats DEF Frames, Prepares
<1> QED BY <1>1, <1>2, <1>3, <1>4, SeatsChain DEF Prepares

LEMMA StartSeats ==
    ASSUME NEW e, Framed(e), e.room_seq < MaxRooms, NEW id
    PROVE  SeatsKept(e, start_group_match(e, id))
<1>1. SeatsKept(e, e)
  BY DEF SeatsKept
<1> DEFINE queued == enqueue_group(e, id)
<1>2. Prepares(e, queued) /\ SeatsKept(e, queued)
  BY EnqueueSeats
<1> HIDE DEF queued
<1>3. SeatsKept(queued, try_match_group(queued, id))
  BY <1>2, TryMatchSeats DEF Prepares
<1> QED BY <1>1, <1>2, <1>3, SeatsChain DEF start_group_match, queued

LEMMA HeartbeatSeats ==
    ASSUME NEW e, Framed(e), e.room_seq < MaxRooms, NEW s
    PROVE  SeatsKept(e, heartbeat(e, s))
<1> DEFINE f == heartbeat(e, s)
<1>1. \/ f = e
      \/ \E p, id : f = merge_solo_with_group(e, p, id)
      \/ \E id : f = try_match_group(e, id)
  BY DEF heartbeat
<1> SUFFICES SeatsKept(e, f)
  OBVIOUS
<1> HIDE DEF f
<1>2. SeatsKept(e, e)
  BY DEF SeatsKept
<1> QED BY <1>1, <1>2, MergeSoloSeats, TryMatchSeats

LEMMA FullRemoveSeats ==
    ASSUME NEW e, Framed(e), NEW s \in Sockets
    PROVE  Loud(e, full_remove(e, s), s)
<1> DEFINE out  == remove_from_queue(e, s)
           left == leave_group(out, s)
<1>1. Prepares(e, out) /\ Loud(e, out, s)
  BY RemoveFromQueueSeats
<1> HIDE DEF out
<1>2. Prepares(out, left) /\ Loud(out, left, s)
  BY <1>1, LeaveGroupSeats DEF Prepares
<1> HIDE DEF left
<1>3. Loud(left, leave_room(left, s, TRUE), s)
  BY <1>2, LeaveRoomSeats DEF Prepares
<1> QED BY <1>1, <1>2, <1>3, LoudChains DEF full_remove, out, left

LEMMA JoinQueueSeats ==
    ASSUME NEW e, Framed(e), e.room_seq < MaxRooms, NEW s \in Sockets, NEW user, NEW prefs
    PROVE  Loud(e, join_queue(e, s, user, prefs), s)
<1> DEFINE me   == peer_of(s, user, prefs)
           out  == remove_from_queue(e, s)
           gone == leave_room(out, s, TRUE)
           away == leave_group(gone, s)
           idle == [away EXCEPT !.peer_meta = @ \cup {s}]
           f    == join_queue(e, s, user, prefs)
<1>1. \/ \E c : f = pair_up(remember_pair(drop_waiting(idle, c.socket), me, c), s, c.socket)
      \/ \E id : f = merge_solo_with_group(idle, me, id)
      \/ f = push_waiting(idle, me)
  BY DEF join_queue
<1>2. me.socket = s
  BY DEF peer_of
<1> SUFFICES Loud(e, f, s)
  OBVIOUS
<1> HIDE DEF f, me
<1>3. Prepares(e, out) /\ Loud(e, out, s)
  BY RemoveFromQueueSeats
<1> HIDE DEF out
<1>4. Prepares(out, gone) /\ Loud(out, gone, s)
  BY <1>3, LeaveRoomSeats DEF Prepares
<1> HIDE DEF gone
<1>5. Prepares(gone, away) /\ Loud(gone, away, s)
  BY <1>4, LeaveGroupSeats DEF Prepares
<1> HIDE DEF away
<1>6. Prepares(away, idle) /\ Loud(away, idle, s)
  <2>1. /\ idle.group_room_of_socket = away.group_room_of_socket
        /\ idle.told = away.told /\ idle.room_seq = away.room_seq /\ Shaped(idle)
    BY <1>5 DEF Prepares, Framed, Shaped, EmptyEngine
  <2> HIDE DEF idle
  <2>2. Loud(away, idle, s)
    BY <2>1, SameIsLoud
  <2> QED BY <1>5, <2>1, <2>2 DEF Prepares, Framed
<1> HIDE DEF idle
<1>7. Loud(e, idle, s)
  BY <1>3, <1>4, <1>5, <1>6, LoudChains
<1>8. Framed(idle) /\ idle.room_seq < MaxRooms
  BY <1>3, <1>4, <1>5, <1>6 DEF Prepares
<1>9. CASE \E c : f = pair_up(remember_pair(drop_waiting(idle, c.socket), me, c), s, c.socket)
  <2>1. PICK c : f = pair_up(remember_pair(drop_waiting(idle, c.socket), me, c), s, c.socket)
    BY <1>9
  <2> DEFINE dropped == drop_waiting(idle, c.socket)
             known   == remember_pair(dropped, me, c)
  <2>2. Prepares(idle, dropped) /\ Loud(idle, dropped, s)
    BY <1>8, DropWaitingSeats
  <2>3. f = pair_up(known, s, c.socket)
    BY <2>1
  <2> HIDE DEF dropped
  <2>4. Shaped(known) /\ Loud(dropped, known, s)
    BY <2>2, RememberSeats DEF Prepares, Framed
  <2> HIDE DEF known
  <2>5. Loud(known, f, s)
    BY <2>3, <2>4, PairUpSeats
  <2> QED BY <1>7, <2>2, <2>4, <2>5, LoudChains
<1>10. CASE \E id : f = merge_solo_with_group(idle, me, id)
  BY <1>7, <1>8, <1>10, MergeSoloSeats, LoudChains
<1>11. CASE f = push_waiting(idle, me)
  <2> DEFINE pushed == [idle EXCEPT !.waiting_peers =
                 @ \cup {[me EXCEPT !.at = NextAt(idle.waiting_peers)]}]
  <2>1. f = Tell(pushed, {s}, "queue:waiting")
    BY <1>2, <1>11 DEF push_waiting
  <2>2. /\ pushed.group_room_of_socket = idle.group_room_of_socket
        /\ pushed.told = idle.told /\ pushed.room_seq = idle.room_seq /\ Shaped(pushed)
    BY <1>8 DEF Framed, Shaped, EmptyEngine
  <2> HIDE DEF pushed
  <2>3. Framed(pushed)
    BY <1>8, <2>2 DEF Framed
  <2>4. /\ f.group_room_of_socket = pushed.group_room_of_socket
        /\ \A t \in Sockets : t # s => f.told[t] = pushed.told[t]
    BY <2>1, <2>3, TellSeats DEF Frames
  <2>5. Loud(idle, f, s)
    BY <1>8, <2>2, <2>4 DEF Loud, Heard, Framed
  <2> QED BY <1>7, <2>5, LoudChains
<1> QED BY <1>1, <1>9, <1>10, <1>11

LEMMA CreateSeats ==
    ASSUME NEW e, Framed(e), NEW s \in Sockets, NEW user, NEW prefs, NEW skip
    PROVE  Loud(e, create_group_match_room(e, s, user, prefs, skip), s)
<1> DEFINE left  == leave_group(e, s)
           apart == leave_room(left, s, TRUE)
           free  == IF skip THEN left ELSE apart
           f     == create_group_match_room(e, s, user, prefs, skip)
<1>1. Prepares(e, left) /\ Loud(e, left, s)
  BY LeaveGroupSeats
<1>2. \E id, lobby : f = Tell([free EXCEPT !.group_room_seq = @ + 1,
                                           !.group_rooms[id] = lobby,
                                           !.group_room_of_socket[s] = id],
                              {s}, "group-match:created")
  BY DEF create_group_match_room
<1> SUFFICES Loud(e, f, s)
  OBVIOUS
<1> HIDE DEF left, f
<1>3. Prepares(left, apart) /\ Loud(left, apart, s)
  BY <1>1, LeaveRoomSeats DEF Prepares
<1> HIDE DEF apart
<1>4. Framed(free) /\ Loud(e, free, s)
  BY <1>1, <1>3, LoudChains DEF Prepares
<1> HIDE DEF free
<1>5. /\ \A t \in Sockets : t # s =>
            f.group_room_of_socket[t] = free.group_room_of_socket[t]
      /\ \A t \in Sockets : t # s => f.told[t] = free.told[t]
  BY <1>2, <1>4 DEF Tell, Framed, Shaped, EmptyEngine
<1>6. Loud(free, f, s)
  BY <1>4, <1>5 DEF Loud, Heard, Framed
<1> QED BY <1>4, <1>6, LoudChains

LEMMA MatchUsersSeats ==
    ASSUME NEW e, Framed(e), NEW left, NEW right
    PROVE  SeatsKept(e, match_users(e, left, right))
<1> DEFINE out == leave_all(e, left \o right)
<1>1. out.group_room_of_socket = e.group_room_of_socket /\ Shaped(out)
  BY ZenonT(40) DEF leave_all, Framed, Shaped, EmptyEngine
<1> HIDE DEF out
<1>2. SeatsKept(e, out)
  BY <1>1 DEF SeatsKept
<1>3. SeatsKept(out, pair_up(out, left[1], right[1]))
  BY <1>1, PairUpSeats
<1> QED BY SMTT(30), <1>2, <1>3, SeatsChain DEF match_users, out

LEMMA AddParticipantSeats ==
    ASSUME NEW e, Framed(e), e.room_seq < MaxRooms, NEW id \in RoomIds,
           NEW s \in Sockets, NEW user, NEW prefs
    PROVE  SeatsKept(e, add_participant_to_group(e, id, s, user, prefs))
<1> DEFINE out     == remove_from_queue(e, s)
           other   == IF e.rooms_by_socket[s] = NoPair THEN NoSocket ELSE e.partners[s]
           apart   == [out EXCEPT
                         !.partners = IF e.rooms_by_socket[s] = NoPair THEN @
                                      ELSE Clear(@, {s, other}, NoSocket),
                         !.rooms_by_socket = Clear(@, {s, other}, NoPair)]
           free    == Tell(apart, {other}, "room:peer-left")
           others  == {p \in members(free, id) : p.socket # s}
           mine    == members(free, id) \ others
           seat    == [peer_of(s, user, prefs) EXCEPT
                         !.at = IF mine = {} THEN NextAt(others)
                                ELSE (CHOOSE p \in mine : TRUE).at]
           taken   == [free EXCEPT !.group_rooms[id].participants = others \cup {seat},
                                   !.group_room_of_socket[s] = id]
           seated  == Tell(taken, {s}, "group-match:created")
           queued  == IF seated.group_rooms[id].in_queue THEN seated
                      ELSE enqueue_group(seated, id)
           f       == add_participant_to_group(e, id, s, user, prefs)
<1>1. f = free \/ f = seated \/ f = try_match_group(queued, id)
  BY ZenonT(40) DEF add_participant_to_group
<1> SUFFICES SeatsKept(e, f)
  OBVIOUS
<1> HIDE DEF f
<1>2. Prepares(e, out) /\ SeatsKept(e, out)
  BY RemoveFromQueueSeats
<1> HIDE DEF out, other
<1>3. Prepares(out, apart) /\ SeatsKept(out, apart)
  BY <1>2 DEF Prepares, Framed, Shaped, EmptyEngine, SeatsKept
<1> HIDE DEF apart
<1>4. Prepares(apart, free) /\ SeatsKept(apart, free)
  BY <1>3, TellSeats DEF Frames, Prepares
<1> HIDE DEF free, others, seat
<1>5. Prepares(free, taken) /\ SeatsKept(free, taken)
  <2>1. Framed(free) /\ id # NoRoom
    BY <1>4, RoomAssumption DEF Prepares
  <2>2. /\ taken.group_room_of_socket = [free.group_room_of_socket EXCEPT ![s] = id]
        /\ taken.told = free.told /\ taken.room_seq = free.room_seq /\ Shaped(taken)
    BY <2>1 DEF Framed, Shaped, EmptyEngine
  <2> HIDE DEF taken
  <2> QED BY <2>1, <2>2 DEF Prepares, Framed, SeatsKept
<1> HIDE DEF taken
<1>6. Prepares(taken, seated) /\ SeatsKept(taken, seated)
  BY <1>5, TellSeats DEF Frames, Prepares
<1> HIDE DEF seated
<1>7. Prepares(seated, queued) /\ SeatsKept(seated, queued)
  <2>1. Prepares(seated, seated) /\ SeatsKept(seated, seated)
    BY <1>6 DEF Prepares, SeatsKept
  <2> QED BY <1>6, <2>1, EnqueueSeats DEF Prepares
<1> HIDE DEF queued
<1>8. SeatsKept(e, free) /\ SeatsKept(e, seated) /\ SeatsKept(e, queued)
  BY <1>2, <1>3, <1>4, <1>5, <1>6, <1>7, SeatsChain
<1>9. Framed(queued) /\ queued.room_seq < MaxRooms
  BY <1>2, <1>3, <1>4, <1>5, <1>6, <1>7 DEF Prepares
<1>10. SeatsKept(queued, try_match_group(queued, id))
  BY <1>9, TryMatchSeats
<1> QED BY SMTT(30), <1>1, <1>8, <1>10, SeatsChain
-----------------------------------------------------------------------------
(* Who is taken out of a group by a handler is its own caller, where nobody  *)
(* declines an invite: a decline makes the host leave.                       *)

NoDecline == \A s \in Sockets : "group-match:invite-decline" \notin MessagesOf[s]

\* The calls that may wait in the handler of s.
OwnCalls(s) == {c \in EngineCalls : c.op = "leave_group" => c.who = s}

LeavesItself == \A s \in Sockets : todo[s] \in Seq(OwnCalls(s))

LEMMA OwnCallTypes ==
    ASSUME NEW s \in Sockets
    PROVE  /\ \A t \in Sockets, n \in BOOLEAN : CallLeave(t, n) \in OwnCalls(s)
           /\ CallLeaveGroup(s) \in OwnCalls(s)
           /\ \A c \in EngineCalls : c.op # "leave_group" => c \in OwnCalls(s)
<1>1. \A t \in Sockets, n \in BOOLEAN : CallLeave(t, n) \in OwnCalls(s)
  BY DEF CallLeave, OwnCalls, EngineCalls
<1>2. CallLeaveGroup(s) \in OwnCalls(s)
  BY DEF CallLeaveGroup, OwnCalls, EngineCalls
<1>3. \A c \in EngineCalls : c.op # "leave_group" => c \in OwnCalls(s)
  BY DEF OwnCalls
<1> QED BY <1>1, <1>2, <1>3

\* A call that was valid to queue and is not leave_group is one s may queue.
LEMMA OtherCall ==
    ASSUME NEW s \in Sockets, NEW c \in ValidCalls(engine), c.op # "leave_group"
    PROVE  c \in OwnCalls(s)
BY DEF ValidCalls, OwnCalls

LEMMA QueuedCalls ==
    ASSUME LeavesItself, NEW s \in Sockets, NEW calls \in Seq(OwnCalls(s)),
           todo' = [todo EXCEPT ![s] = calls], todo \in [Sockets -> Seq(EngineCalls)]
    PROVE  LeavesItself'
<1>1. \A t \in Sockets : todo'[t] = IF t = s THEN calls ELSE todo[t]
  OBVIOUS
<1>2. \A t \in Sockets : todo'[t] \in Seq(OwnCalls(t))
  <2> HIDE DEF OwnCalls
  <2> QED BY <1>1 DEF LeavesItself
<1> QED BY <1>2 DEF LeavesItself, OwnCalls

LEMMA TodoTyped == IInv => todo \in [Sockets -> Seq(EngineCalls)]
<1>1. Seq(ValidCalls(engine)) \subseteq Seq(EngineCalls)
  <2>1. ValidCalls(engine) \subseteq EngineCalls
    BY DEF ValidCalls
  <2> HIDE DEF ValidCalls
  <2> QED BY <2>1
<1> QED BY <1>1 DEF IInv

LEMMA OwnJoined ==
    ASSUME IInv, IInv', LeavesItself, NEW s \in Sockets, NEW p,
           NEW rest \in Seq(OwnCalls(s)), Joined(s, p, rest)
    PROVE  LeavesItself'
<1> DEFINE room  == engine'.rooms_by_socket[s]
           one   == CallAnnounce({room.a, room.b})
           calls == IF room = NoPair THEN rest ELSE <<one>> \o rest
<1>1. room # NoPair => {room.a, room.b} \subseteq Sockets
  BY DEF IInv, Good, WellFormed, EngineStates, Pairs
<1>2. room # NoPair => one \in OwnCalls(s)
  BY <1>1 DEF CallAnnounce, OwnCalls, EngineCalls
<1>3. todo' = [todo EXCEPT ![s] = calls]
  BY DEF Joined, Then
<1> HIDE DEF one
<1>4. calls \in Seq(OwnCalls(s))
  BY <1>2, ShortSequences
<1> HIDE DEF calls
<1> QED BY <1>3, <1>4, TodoTyped, QueuedCalls

LEMMA OwnMessages ==
    ASSUME NoDecline, IInv, IInv', LeavesItself, NEW s \in Sockets, ClientMessage(s)
    PROVE  LeavesItself'
<1>1. todo \in [Sockets -> Seq(EngineCalls)]
  BY TodoTyped
<1>2. CASE QueueJoin(s)
  <2>1. PICK p \in PrefsOf[s] : Joined(s, p, << >>)
    BY <1>2 DEF QueueJoin
  <2>2. << >> \in Seq(OwnCalls(s))
    BY ShortSequences
  <2> QED BY <2>1, <2>2, OwnJoined
<1>3. CASE RoomNext(s)
  <2>1. PICK p \in PrefsOf[s] : todo' = [todo EXCEPT ![s] = <<CallJoin(p)>>]
    BY <1>3 DEF RoomNext, Then
  <2>2. CallJoin(p) \in OwnCalls(s)
    BY PrefsOfAssumption DEF CallJoin, OwnCalls, EngineCalls
  <2>3. <<CallJoin(p)>> \in Seq(OwnCalls(s))
    BY <2>2, ShortSequences
  <2> QED BY <1>1, <2>1, <2>3, QueuedCalls
<1>4. CASE RoomLeave(s)
  <2>1. <<CallLeave(s, TRUE)>> \in Seq(OwnCalls(s))
    BY OwnCallTypes, ShortSequences
  <2> QED BY <1>1, <1>4, <2>1, QueuedCalls DEF RoomLeave, Then
<1>5. CASE GroupMatchLeave(s)
  <2>1. <<CallLeaveGroup(s)>> \in Seq(OwnCalls(s))
    BY OwnCallTypes, ShortSequences
  <2> QED BY <1>1, <1>5, <2>1, QueuedCalls DEF GroupMatchLeave, Then
<1>6. CASE Report(s)
  <2>1. CallPartner("report") \in OwnCalls(s)
    BY DEF CallPartner, OwnCalls, EngineCalls
  <2>2. <<CallPartner("report")>> \in Seq(OwnCalls(s))
    BY <2>1, ShortSequences
  <2> QED BY <1>1, <1>6, <2>2, QueuedCalls DEF Report, Then
<1>7. CASE Block(s)
  <2>1. \/ todo' = [todo EXCEPT ![s] = <<CallPartner("block")>>]
        \/ /\ UserOf[s] # NoUser
           /\ \E u \in resolve_target_user(s) : todo' =
                 [todo EXCEPT ![s] = <<CallBlock(UserOf[s], u), CallPartner("block")>>]
    BY <1>7 DEF Block, Then
  <2>2. resolve_target_user(s) \subseteq Users
    BY DEF resolve_target_user
  <2>3. UserOf[s] # NoUser => UserOf[s] \in Users
    BY UserOfAssumption
  <2>4. /\ CallPartner("block") \in OwnCalls(s)
        /\ \A u, v \in Users : CallBlock(u, v) \in OwnCalls(s)
    BY DEF CallPartner, CallBlock, OwnCalls, EngineCalls
  <2>5. \E calls \in Seq(OwnCalls(s)) : todo' = [todo EXCEPT ![s] = calls]
    BY <2>1, <2>2, <2>3, <2>4, ShortSequences
  <2> QED BY <1>1, <2>5, QueuedCalls
<1>8. CASE GroupMatchJoin(s)
  <2>1. PICK id \in RoomIds :
           /\ Live(engine, id)
           /\ todo' = [todo EXCEPT ![s] =
                 <<CallLeave(engine.group_rooms[id].host, TRUE), CallLeave(s, FALSE),
                   CallSeat(id, engine.group_rooms[id].prefs)>>]
    BY <1>8 DEF GroupMatchJoin, Then
  <2>2. engine.group_rooms[id] \in Groups
    BY <2>1 DEF IInv, Good, WellFormed, EngineStates, Live
  <2>3. /\ engine.group_rooms[id].host \in Sockets
        /\ engine.group_rooms[id].prefs \in Preferences
    BY <2>2 DEF Groups
  <2>4. CallSeat(id, engine.group_rooms[id].prefs) \in OwnCalls(s)
    BY <2>3 DEF CallSeat, OwnCalls, EngineCalls
  <2>5. \E calls \in Seq(OwnCalls(s)) : todo' = [todo EXCEPT ![s] = calls]
    BY <2>1, <2>3, <2>4, OwnCallTypes, ShortSequences
  <2> QED BY <1>1, <2>5, QueuedCalls
<1>9. CASE GroupMatchStart(s)
  <2>1. PICK id \in RoomIds : todo' = [todo EXCEPT ![s] = <<CallStart(id)>>]
    BY <1>9 DEF GroupMatchStart, Then
  <2>2. CallStart(id) \in OwnCalls(s)
    BY DEF CallStart, OwnCalls, EngineCalls
  <2>3. <<CallStart(id)>> \in Seq(OwnCalls(s))
    BY <2>2, ShortSequences
  <2> QED BY <1>1, <2>1, <2>3, QueuedCalls
<1>10. CASE InvitationAccept(s)
  <2>1. PICK inviter \in Users :
           /\ sockets_for_user(inviter) # {} /\ sockets_for_user(UserOf[s]) # {}
           /\ \E left \in SetToSeqs(sockets_for_user(inviter)),
                 right \in SetToSeqs(sockets_for_user(UserOf[s])) :
                 todo' = [todo EXCEPT ![s] = <<CallMatch(left, right)>>]
    BY <1>10 DEF InvitationAccept, Then
  <2>2. PICK left \in SetToSeqs(sockets_for_user(inviter)),
             right \in SetToSeqs(sockets_for_user(UserOf[s])) :
           todo' = [todo EXCEPT ![s] = <<CallMatch(left, right)>>]
    BY <2>1
  <2>3. /\ sockets_for_user(inviter) \subseteq Sockets
        /\ sockets_for_user(UserOf[s]) \subseteq Sockets
    BY DEF sockets_for_user, IInv
  <2>4. left \in Seq(Sockets) \ {<< >>} /\ right \in Seq(Sockets) \ {<< >>}
    BY <2>1, <2>3, ListedSockets
  <2>5. CallMatch(left, right) \in OwnCalls(s)
    BY <2>4 DEF CallMatch, OwnCalls, EngineCalls
  <2>6. <<CallMatch(left, right)>> \in Seq(OwnCalls(s))
    BY <2>5, ShortSequences
  <2> QED BY <1>1, <2>2, <2>6, QueuedCalls
<1>11. CASE UNCHANGED todo
  BY <1>11 DEF LeavesItself
<1>12. ~GroupMatchInviteDecline(s)
  BY DEF NoDecline, GroupMatchInviteDecline, Receive
<1> QED BY <1>2, <1>3, <1>4, <1>5, <1>6, <1>7, <1>8, <1>9, <1>10, <1>11, <1>12
       DEF ClientMessage, QueueHeartbeat, GroupMatchCreate, CreateAndInvite

LEMMA OwnHandled ==
    ASSUME IInv, IInv', LeavesItself, NEW s \in Sockets, HandlerCall(s)
    PROVE  LeavesItself'
<1>1. todo \in [Sockets -> Seq(EngineCalls)] /\ todo[s] # << >>
  BY TodoTyped
     DEF HandlerCall, LeaveRoomCall, LeaveGroupCall, JoinQueueCall, AddParticipantCall,
         StartGroupCall, BlockPairCall, ReadPartnerCall, ReadGroupCall, MatchUsersCall,
         AnnounceCall, Calls
<1>2. Head(todo[s]) \in EngineCalls /\ Tail(todo[s]) \in Seq(OwnCalls(s))
  <2>1. todo[s] \in Seq(OwnCalls(s))
    BY DEF LeavesItself
  <2>2. Tail(todo[s]) \in Seq(OwnCalls(s))
    <3> HIDE DEF OwnCalls
    <3> QED BY <1>1, <2>1
  <2> QED BY <1>1, <2>2, NextCall
<1>3. CASE todo' = [todo EXCEPT ![s] = Tail(todo[s])]
  BY <1>1, <1>2, <1>3, QueuedCalls
<1>4. CASE JoinQueueCall(s)
  BY <1>2, <1>4, OwnJoined DEF JoinQueueCall
<1>5. CASE ReadPartnerCall(s)
  <2>1. Head(todo[s]).order \in {"report", "block"}
    BY <1>2, <1>5 DEF ReadPartnerCall, Calls, EngineCalls
  <2>2. engine.partners[s] \in Sockets \cup {NoSocket}
    BY DEF IInv, Good, WellFormed, EngineStates
  <2>3. CallGroup(Head(todo[s]).order, engine.partners[s]) \in OwnCalls(s)
    BY <2>1, <2>2 DEF CallGroup, OwnCalls, EngineCalls
  <2>4. <<CallGroup(Head(todo[s]).order, engine.partners[s])>> \in Seq(OwnCalls(s))
    BY <2>3, ShortSequences
  <2> QED BY <1>1, <1>5, <2>4, QueuedCalls DEF ReadPartnerCall, Then
<1>6. CASE ReadGroupCall(s)
  <2> DEFINE group == IF engine.group_room_of_socket[s] = NoRoom THEN << >>
                      ELSE <<CallLeaveGroup(s)>>
             leave == <<CallLeave(s, TRUE)>>
             last  == LeaveRead(Head(todo[s]).partner)
             calls == (IF Head(todo[s]).order = "report" THEN leave \o group
                       ELSE group \o leave) \o last
  <2>1. Head(todo[s]).partner \in Sockets \cup {NoSocket}
    BY <1>2, <1>6 DEF ReadGroupCall, Calls, EngineCalls
  <2>2. group \in Seq(OwnCalls(s)) /\ leave \in Seq(OwnCalls(s))
    BY OwnCallTypes, ShortSequences
  <2>3. last \in Seq(OwnCalls(s))
    BY <2>1, OwnCallTypes, ShortSequences DEF LeaveRead
  <2>4. todo' = [todo EXCEPT ![s] = calls]
    BY <1>6 DEF ReadGroupCall, Then
  <2> HIDE DEF group, leave, last
  <2>5. calls \in Seq(OwnCalls(s))
    BY <2>2, <2>3, ShortSequences
  <2> HIDE DEF calls
  <2> QED BY <1>1, <2>4, <2>5, QueuedCalls
<1>7. CASE MatchUsersCall(s)
  <2> DEFINE left  == Head(todo[s]).left
             right == Head(todo[s]).right
             S     == Range(left \o right)
  <2>1. left \in Seq(Sockets) /\ right \in Seq(Sockets)
    BY <1>2, <1>7 DEF MatchUsersCall, Calls, EngineCalls
  <2>2. todo' = [todo EXCEPT ![s] = <<CallAnnounce(S)>>]
    BY <1>7 DEF MatchUsersCall, Then
  <2> HIDE DEF left, right
  <2>3. S \subseteq Sockets
    <3>1. left \o right \in Seq(Sockets)
      BY <2>1
    <3> QED BY <3>1 DEF Range
  <2>4. CallAnnounce(S) \in OwnCalls(s)
    BY <2>3 DEF CallAnnounce, OwnCalls, EngineCalls
  <2>5. <<CallAnnounce(S)>> \in Seq(OwnCalls(s))
    BY <2>4, ShortSequences
  <2> QED BY <1>1, <2>2, <2>5, QueuedCalls
<1> QED BY <1>3, <1>4, <1>5, <1>6, <1>7
       DEF HandlerCall, LeaveRoomCall, LeaveGroupCall, AddParticipantCall,
           StartGroupCall, BlockPairCall, AnnounceCall, Done

LEMMA LeavesItselfStart == Init => LeavesItself
<1> SUFFICES ASSUME Init PROVE LeavesItself
  OBVIOUS
<1>1. \A s \in Sockets : todo[s] = << >>
  BY DEF Init
<1>2. \A s \in Sockets : << >> \in Seq(OwnCalls(s))
  BY ShortSequences
<1> QED BY <1>1, <1>2 DEF LeavesItself

LEMMA LeavesItselfStep ==
    ASSUME NoDecline
    PROVE  IInv /\ IInv' /\ LeavesItself /\ [Next]_vars => LeavesItself'
<1> SUFFICES ASSUME IInv, IInv', LeavesItself, [Next]_vars PROVE LeavesItself'
  OBVIOUS
<1>1. CASE UNCHANGED todo
  BY <1>1 DEF LeavesItself
<1>2. UNCHANGED vars => UNCHANGED todo
  BY DEF vars
<1> QED BY <1>1, <1>2, OwnMessages, OwnHandled
       DEF Next, SlowConsumer, Teardown, Forget, InviteTimeout, InviteExpired, PairForgotten
-----------------------------------------------------------------------------
(* Every step. *)

\* s loses its room in this step without hearing that it was left.
LosesInSilence(s) ==
    /\ engine.group_room_of_socket[s] # NoRoom /\ engine'.group_room_of_socket[s] = NoRoom
    /\ engine'.told[s] # "room:peer-left"

\* A handler of somebody's makes s leave: that of an invite it declined.
MadeToLeave(s) == \E t \in Sockets : LeaveGroupCall(t) /\ Head(todo[t]).who = s

KnowsWhy(s) ==
    OwnStep(s) \/ MadeToLeave(s) \/ \E t \in timers : t.socket = s /\ InviteExpired(t)

LEMMA LoudStep ==
    ASSUME hub \subseteq Sockets, NEW x, Loud(engine, engine', x), NEW s \in hub,
           LosesInSilence(s)
    PROVE  s = x
BY DEF Loud, Heard, LosesInSilence

LEMMA KeptStep ==
    ASSUME hub \subseteq Sockets, SeatsKept(engine, engine'), NEW s \in hub
    PROVE  ~LosesInSilence(s)
BY DEF SeatsKept, LosesInSilence

LEMMA SameStep ==
    ASSUME UNCHANGED engine, NEW s
    PROVE  ~LosesInSilence(s)
BY DEF LosesInSilence

LEMMA MessageReleases ==
    ASSUME IInv, NEW x \in Sockets, ClientMessage(x), NEW s \in hub, LosesInSilence(s)
    PROVE  s = x
<1>1. Framed(engine) /\ hub \subseteq Sockets
  BY GoodIsFramed DEF IInv
<1>2. CASE QueueJoin(x)
  BY <1>1, <1>2, JoinQueueSeats, LoudStep DEF QueueJoin, Joined, RoomLeft
<1>3. CASE RoomNext(x)
  BY <1>1, <1>3, LeaveRoomSeats, KeptStep DEF RoomNext
<1>4. CASE RoomLeave(x) \/ GroupMatchLeave(x)
  BY <1>1, <1>4, RemoveFromQueueSeats, KeptStep DEF RoomLeave, GroupMatchLeave
<1>5. CASE QueueHeartbeat(x)
  BY <1>1, <1>5, HeartbeatSeats, KeptStep DEF QueueHeartbeat, RoomLeft
<1>6. CASE GroupMatchCreate(x) \/ CreateAndInvite(x)
  BY <1>1, <1>6, CreateSeats, LoudStep DEF GroupMatchCreate, CreateAndInvite
<1>7. CASE GroupMatchInviteDecline(x)
  <2>1. PICK S : engine' = Tell(engine, S, "group-match:invite-declined")
    BY <1>7 DEF GroupMatchInviteDecline
  <2>2. SeatsKept(engine, Tell(engine, S, "group-match:invite-declined"))
    BY <1>1, TellSeats DEF Frames
  <2> QED BY <1>1, <2>1, <2>2, KeptStep
<1>8. CASE UNCHANGED engine
  BY <1>8, SameStep
<1> QED BY <1>2, <1>3, <1>4, <1>5, <1>6, <1>7, <1>8
       DEF ClientMessage, Report, Block, GroupMatchJoin, GroupMatchStart,
           InvitationAccept

LEMMA CallReleases ==
    ASSUME IInv, NEW x \in Sockets, HandlerCall(x), NEW s \in hub, LosesInSilence(s)
    PROVE  s = x \/ MadeToLeave(s)
<1>1. Framed(engine) /\ hub \subseteq Sockets
  BY GoodIsFramed DEF IInv
<1>2. CASE LeaveRoomCall(x)
  BY <1>1, <1>2, LeaveRoomSeats, KeptStep DEF LeaveRoomCall
<1>3. CASE LeaveGroupCall(x)
  <2>1. Head(todo[x]).who \in Sockets
    BY <1>3, NextCall DEF LeaveGroupCall, Calls, EngineCalls
  <2>2. Loud(engine, engine', Head(todo[x]).who)
    BY <1>1, <1>3, <2>1, LeaveGroupSeats DEF LeaveGroupCall
  <2>3. s = Head(todo[x]).who
    BY <1>1, <2>2, LoudStep
  <2> QED BY <1>3, <2>3 DEF MadeToLeave
<1>4. CASE JoinQueueCall(x)
  BY <1>1, <1>4, JoinQueueSeats, LoudStep DEF JoinQueueCall, Joined, RoomLeft
<1>5. CASE AddParticipantCall(x)
  <2>1. Head(todo[x]).room \in RoomIds
    BY <1>5, NextCall DEF AddParticipantCall, Calls, EngineCalls
  <2> QED BY <1>1, <1>5, <2>1, AddParticipantSeats, KeptStep DEF AddParticipantCall, RoomLeft
<1>6. CASE StartGroupCall(x)
  BY <1>1, <1>6, StartSeats, KeptStep DEF StartGroupCall, RoomLeft
<1>7. CASE BlockPairCall(x)
  <2>1. SeatsKept(engine, engine')
    BY <1>1, <1>7 DEF BlockPairCall, SeatsKept, Framed, Shaped, EmptyEngine
  <2> QED BY <1>1, <2>1, KeptStep
<1>8. CASE MatchUsersCall(x)
  BY <1>1, <1>8, MatchUsersSeats, KeptStep DEF MatchUsersCall
<1>9. CASE AnnounceCall(x)
  <2>1. SeatsKept(engine, Tell(engine, Head(todo[x]).told, "room:matched"))
    BY <1>1, TellSeats DEF Frames
  <2> QED BY <1>1, <1>9, <2>1, KeptStep DEF AnnounceCall
<1>10. CASE UNCHANGED engine
  BY <1>10, SameStep
<1> QED BY <1>2, <1>3, <1>4, <1>5, <1>6, <1>7, <1>8, <1>9, <1>10
       DEF HandlerCall, ReadPartnerCall, ReadGroupCall

LEMMA OtherReleases ==
    ASSUME IInv, NEW s \in hub, LosesInSilence(s),
           \/ \E x \in Sockets : SlowConsumer(x) \/ Teardown(x) \/ Forget(x)
           \/ \E t \in timers : InviteTimeout(t) \/ InviteExpired(t)
           \/ PairForgotten
    PROVE  KnowsWhy(s)
<1>1. Framed(engine) /\ hub \subseteq Sockets
  BY GoodIsFramed DEF IInv
<1>2. ASSUME NEW x \in Sockets, Teardown(x) PROVE KnowsWhy(s)
  <2>1. s = x
    BY <1>1, <1>2, FullRemoveSeats, LoudStep DEF Teardown
  <2> QED BY <1>2, <2>1 DEF KnowsWhy, OwnStep
<1>3. ASSUME NEW t \in timers, InviteExpired(t) PROVE KnowsWhy(s)
  <2>1. t.socket \in Sockets
    BY DEF IInv, TimersOK
  <2>2. s = t.socket
    BY <1>1, <1>3, <2>1, LeaveGroupSeats, LoudStep DEF InviteExpired
  <2> QED BY <1>3, <2>2 DEF KnowsWhy
<1>4. ASSUME NEW t \in timers, InviteTimeout(t) PROVE FALSE
  <2>1. SeatsKept(engine, Tell(engine, {t.socket}, "group-match:invite-declined"))
    BY <1>1, TellSeats DEF Frames
  <2> QED BY <1>1, <1>4, <2>1, KeptStep, SameStep DEF InviteTimeout
<1>5. ~PairForgotten
  <2> SUFFICES ASSUME PairForgotten PROVE FALSE
    OBVIOUS
  <2>1. SeatsKept(engine, engine')
    BY <1>1 DEF PairForgotten, SeatsKept, Framed, Shaped, EmptyEngine
  <2> QED BY <1>1, <2>1, KeptStep
<1>6. ~UNCHANGED engine
  BY SameStep
<1> QED BY <1>2, <1>3, <1>4, <1>5, <1>6 DEF SlowConsumer, Forget

LEMMA Releases ==
    ASSUME IInv, [Next]_vars, NEW s \in hub, LosesInSilence(s)
    PROVE  KnowsWhy(s)
<1>1. ~UNCHANGED vars
  BY SameStep DEF vars
<1>2. s \in Sockets
  BY DEF IInv
<1>3. ASSUME NEW x \in Sockets, ClientMessage(x) PROVE KnowsWhy(s)
  <2>1. s = x
    BY <1>3, MessageReleases
  <2> QED BY <1>3, <2>1 DEF KnowsWhy, OwnStep
<1>4. ASSUME NEW x \in Sockets, HandlerCall(x) PROVE KnowsWhy(s)
  <2>1. s = x \/ MadeToLeave(s)
    BY <1>4, CallReleases
  <2> QED BY <1>4, <2>1 DEF KnowsWhy, OwnStep
<1> QED BY <1>1, <1>3, <1>4, OtherReleases DEF Next

\* Whoever loses its group room left on its own, sent an invite that expired,
\* is taken out by the handler of an invite that was declined, or is told that
\* it was left: on every step of the server, whatever it runs next to.
THEOREM EveryReleaseHasItsReason ==
    Spec => [][\A s \in hub : LosesInSilence(s) => KnowsWhy(s)]_vars
<1>1. IInv /\ [Next]_vars => [\A s \in hub : LosesInSilence(s) => KnowsWhy(s)]_vars
  BY Releases
<1> QED BY <1>1, Invariant, PTL DEF Spec

\* Where nobody declines an invite nobody loses a group room in silence: the
\* handlers, the last member but one, the merge of two rooms and the teardown
\* of a connection release others only with room:peer-left.
THEOREM NobodyIsReleasedInSilence == ASSUME NoDecline PROVE Spec => ReleasedAreTold
<1> DEFINE Told(s) == room_of(s) # NoRoom /\ room_of(s)' = NoRoom
                      => \/ OwnStep(s)
                         \/ \E t \in timers : t.socket = s /\ InviteExpired(t)
                         \/ engine'.told[s] = "room:peer-left"
<1>1. Spec => []LeavesItself
  BY Invariant, LeavesItselfStart, LeavesItselfStep, PTL DEF Spec
<1>2. IInv /\ LeavesItself /\ [Next]_vars => [\A s \in hub : Told(s)]_vars
  <2> SUFFICES ASSUME IInv, LeavesItself, [Next]_vars, NEW s \in hub,
                      room_of(s) # NoRoom, room_of(s)' = NoRoom,
                      engine'.told[s] # "room:peer-left"
               PROVE  OwnStep(s) \/ \E t \in timers : t.socket = s /\ InviteExpired(t)
    OBVIOUS
  <2>1. KnowsWhy(s)
    BY Releases DEF LosesInSilence, room_of
  <2>2. ASSUME MadeToLeave(s) PROVE OwnStep(s)
    <3>1. PICK x \in Sockets : LeaveGroupCall(x) /\ Head(todo[x]).who = s
      BY <2>2 DEF MadeToLeave
    <3>2. todo[x] \in Seq(OwnCalls(x)) /\ todo[x] # << >>
          /\ Head(todo[x]).op = "leave_group"
      BY <3>1 DEF LeavesItself, LeaveGroupCall, Calls
    <3>3. Head(todo[x]) \in OwnCalls(x)
      <4> HIDE DEF OwnCalls
      <4> QED BY <3>2
    <3>4. x = s
      BY <3>1, <3>2, <3>3 DEF OwnCalls
    <3> QED BY <3>1, <3>4 DEF OwnStep, HandlerCall
  <2> QED BY <2>1, <2>2 DEF KnowsWhy
<1> QED BY <1>1, <1>2, Invariant, PTL DEF Spec, ReleasedAreTold

-----------------------------------------------------------------------------
(* Who is put into one room.  Operations that only let people go make no two *)
(* people meet; a merge joins two sides that were in one room each, and      *)
(* everybody of one side was compared with everybody of the other.           *)

\* Neither blocked the other, and pools and preferences agree.
Fits(blocked, p, q) ==
    /\ {p.user, q.user} \notin blocked
    /\ pool_ok(p, q) /\ preferences_compatible(p.prefs, q.prefs)

\* s and t have seats in one room.
Shares(e, s, t) ==
    \E id \in RoomIds : Live(e, id) /\ {s, t} \subseteq SocketsOf(members(e, id))

\* No room of f has a member it did not have in e.
Shrinks(e, f) ==
    /\ f.blocked_pairs = e.blocked_pairs
    /\ \A id \in RoomIds : Live(f, id) =>
          Live(e, id) /\ SocketsOf(members(f, id)) \subseteq SocketsOf(members(e, id))

\* Whoever shares a room in f is one socket, shared a room in e, or fits.
Meets(e, f) ==
    \A id \in RoomIds : Live(f, id) =>
        \A p, q \in members(f, id) :
            \/ p.socket = q.socket \/ Shares(e, p.socket, q.socket)
            \/ Fits(e.blocked_pairs, p, q)

\* The record of p in a merged room: a guest is recorded by an id.
Copies(p, q) ==
    /\ p.socket = q.socket /\ p.prefs = q.prefs
    /\ p.user = q.user \/ (q.user = NoUser /\ p.user = GuestId)

LEMMA FitsIsMutual ==
    ASSUME NEW blocked, NEW p, NEW q, Fits(blocked, p, q)
    PROVE  Fits(blocked, q, p)
<1>1. {q.user, p.user} = {p.user, q.user}
  OBVIOUS
<1>2. pool_ok(q, p)
  BY DEF Fits, pool_ok
<1>3. preferences_compatible(q.prefs, p.prefs)
  BY DEF Fits, preferences_compatible, any_or_equal
<1> QED BY <1>1, <1>2, <1>3 DEF Fits

\* Two people who may meet fit, under the ids a merged room records.
LEMMA MeetFits ==
    ASSUME NEW e, e.blocked_pairs \subseteq SUBSET Users, NEW a, NEW b, may_meet(e, a, b),
           NEW p, NEW q, Copies(p, a), Copies(q, b)
    PROVE  Fits(e.blocked_pairs, p, q)
<1>1. /\ ~is_blocked_pair(e.blocked_pairs, a.user, b.user) /\ pool_ok(a, b)
      /\ preferences_compatible(a.prefs, b.prefs)
  BY DEF may_meet, compatible
<1>2. {p.user, q.user} \notin e.blocked_pairs
  <2> SUFFICES ASSUME {p.user, q.user} \in e.blocked_pairs PROVE FALSE
    OBVIOUS
  <2>1. p.user \in Users /\ q.user \in Users
    OBVIOUS
  <2>2. p.user = a.user /\ q.user = b.user
    BY <2>1, GuestAssumption DEF Copies
  <2> QED BY <1>1, <2>1, <2>2 DEF is_blocked_pair
<1>3. (is_guest(p.user) <=> is_guest(a.user)) /\ (is_guest(q.user) <=> is_guest(b.user))
  BY DEF Copies, is_guest
<1>4. p.prefs = a.prefs /\ q.prefs = b.prefs
  BY DEF Copies
<1>5. pool_ok(p, q)
  BY <1>1, <1>3, <1>4 DEF pool_ok
<1> QED BY <1>1, <1>2, <1>4, <1>5 DEF Fits

LEMMA ShrinksChain ==
    ASSUME NEW e, NEW f, NEW g, Shrinks(e, f), Shrinks(f, g)
    PROVE  Shrinks(e, g)
BY DEF Shrinks

LEMMA SharedBefore ==
    ASSUME NEW e, NEW f, Shrinks(e, f), NEW s, NEW t, Shares(f, s, t)
    PROVE  Shares(e, s, t)
BY DEF Shrinks, Shares

LEMMA ShrinksMeets ==
    ASSUME NEW e, NEW f, Shrinks(e, f), NEW g, Meets(f, g)
    PROVE  Meets(e, g)
<1>1. f.blocked_pairs = e.blocked_pairs
  BY DEF Shrinks
<1> QED BY <1>1, SharedBefore DEF Meets

\* Rooms that only lost people hold nobody who had not met.
LEMMA OnlyShrinks ==
    ASSUME NEW e, NEW f, f.group_rooms = e.group_rooms
           \/ \A id \in RoomIds : Live(f, id) =>
                Live(e, id) /\ SocketsOf(members(f, id)) \subseteq SocketsOf(members(e, id))
    PROVE  Meets(e, f)
<1> SUFFICES ASSUME NEW id \in RoomIds, Live(f, id),
                    NEW p \in members(f, id), NEW q \in members(f, id)
             PROVE  Shares(e, p.socket, q.socket)
  BY DEF Meets
<1>1. Live(e, id) /\ SocketsOf(members(f, id)) \subseteq SocketsOf(members(e, id))
  BY DEF Live, members
<1>2. p.socket \in SocketsOf(members(f, id)) /\ q.socket \in SocketsOf(members(f, id))
  BY DEF SocketsOf
<1> QED BY <1>1, <1>2 DEF Shares

LEMMA SameRoomsShrink ==
    ASSUME NEW e, NEW f, f.group_rooms = e.group_rooms, f.blocked_pairs = e.blocked_pairs
    PROVE  Shrinks(e, f)
BY DEF Shrinks, Live, members

LEMMA MembersTyped ==
    ASSUME NEW e, Good(e), NEW id \in RoomIds, Live(e, id)
    PROVE  /\ People(members(e, id)) /\ e.group_rooms[id] \in Groups
           /\ e.blocked_pairs \subseteq SUBSET Users
BY DEF Good, WellFormed, Finite, Sound, Populated, People, EngineStates, Live, members, Groups

LEMMA TellShrinks ==
    ASSUME NEW e, Good(e), NEW S, NEW frame
    PROVE  Shrinks(e, Tell(e, S, frame))
<1> DEFINE f == Tell(e, S, frame)
<1>1. f.group_rooms = e.group_rooms /\ f.blocked_pairs = e.blocked_pairs
  BY DEF Tell, Good, WellFormed, EngineStates
<1> HIDE DEF f
<1> QED BY <1>1, SameRoomsShrink DEF f

LEMMA DropWaitingShrinks ==
    ASSUME NEW e, Good(e), NEW s
    PROVE  Shrinks(e, drop_waiting(e, s))
<1> DEFINE f == drop_waiting(e, s)
<1>1. f.group_rooms = e.group_rooms /\ f.blocked_pairs = e.blocked_pairs
  BY DEF drop_waiting, Good, WellFormed, EngineStates
<1> HIDE DEF f
<1> QED BY <1>1, SameRoomsShrink DEF f

LEMMA RememberShrinks ==
    ASSUME NEW e, Good(e), NEW a, NEW b
    PROVE  Shrinks(e, remember_pair(e, a, b))
<1> DEFINE f == remember_pair(e, a, b)
<1>1. f.group_rooms = e.group_rooms /\ f.blocked_pairs = e.blocked_pairs
  BY DEF remember_pair, Good, WellFormed, EngineStates
<1> HIDE DEF f
<1> QED BY <1>1, SameRoomsShrink DEF f

LEMMA DequeueShrinks ==
    ASSUME NEW e, Good(e), NEW ids
    PROVE  Shrinks(e, dequeue_groups(e, ids))
<1> DEFINE f == dequeue_groups(e, ids)
<1>1. /\ \A id \in RoomIds : Live(f, id) <=> Live(e, id)
      /\ \A id \in RoomIds : Live(e, id) => members(f, id) = members(e, id)
  BY DequeueGood
<1>2. f.blocked_pairs = e.blocked_pairs
  BY DEF dequeue_groups, Good, WellFormed, EngineStates
<1> HIDE DEF f
<1> QED BY <1>1, <1>2 DEF Shrinks, f

LEMMA RemoveFromQueueShrinks ==
    ASSUME NEW e, Good(e), NEW s
    PROVE  Shrinks(e, remove_from_queue(e, s))
BY DropWaitingGood, DropWaitingShrinks, DequeueShrinks, ShrinksChain DEF remove_from_queue

LEMMA LeaveRoomShrinks ==
    ASSUME NEW e, Good(e), NEW s, NEW notify
    PROVE  Shrinks(e, leave_room(e, s, notify))
<1> DEFINE f == leave_room(e, s, notify)
<1>1. f.group_rooms = e.group_rooms /\ f.blocked_pairs = e.blocked_pairs
  BY SMTT(30) DEF leave_room, Tell, Good, WellFormed, EngineStates
<1> HIDE DEF f
<1> QED BY <1>1, SameRoomsShrink DEF f

LEMMA LeaveGroupShrinks ==
    ASSUME NEW e, Good(e), NEW s \in Sockets
    PROVE  Shrinks(e, leave_group(e, s))
<1> DEFINE id       == e.group_room_of_socket[s]
           unmapped == [e EXCEPT !.group_room_of_socket[s] = NoRoom]
           g        == e.group_rooms[id]
           rest     == {p \in g.participants : p.socket # s}
           shrunk   == [g EXCEPT !.participants = Compact(rest)]
           f        == leave_group(e, s)
<1>1. e \in EngineStates
  BY DEF Good, WellFormed
<1>2. /\ unmapped.group_rooms = e.group_rooms /\ unmapped.blocked_pairs = e.blocked_pairs
      /\ DOMAIN unmapped = DOMAIN e
  BY <1>1 DEF EngineStates
<1>3. \/ f = e \/ f = unmapped
      \/ \E S : f = dissolve(unmapped, id, S)
      \/ /\ id \in RoomIds /\ Live(e, id)
         /\ \/ f = [unmapped EXCEPT !.group_rooms[id] = shrunk]
            \/ \E t, u : f = [unmapped EXCEPT !.group_rooms[id] =
                                [shrunk EXCEPT !.host = t, !.host_user = u]]
  BY ZenonT(40), <1>1 DEF leave_group, EngineStates
<1> SUFFICES Shrinks(e, f)
  OBVIOUS
<1> HIDE DEF f, unmapped
<1>4. CASE f = e \/ f = unmapped
  BY <1>2, <1>4, SameRoomsShrink
<1>5. CASE \E S : f = dissolve(unmapped, id, S)
  <2>1. /\ f.group_rooms = [e.group_rooms EXCEPT ![id] = NoGroup]
        /\ f.blocked_pairs = e.blocked_pairs
    BY <1>1, <1>2, <1>5 DEF dissolve, Tell, EngineStates
  <2> QED BY <1>1, <2>1 DEF Shrinks, Live, members, EngineStates
<1>6. ASSUME id \in RoomIds, Live(e, id), NEW room, room.participants = Compact(rest),
             f = [unmapped EXCEPT !.group_rooms[id] = room]
      PROVE  Shrinks(e, f)
  <2>1. /\ f.group_rooms = [e.group_rooms EXCEPT ![id] = room]
        /\ f.blocked_pairs = e.blocked_pairs
    BY <1>1, <1>2, <1>6 DEF EngineStates
  <2>2. rest \subseteq members(e, id) /\ rest \subseteq Peers /\ IsFiniteSet(rest)
    BY <1>6, MembersTyped, FS_Subset DEF People, members
  <2> HIDE DEF rest
  <2>3. SocketsOf(room.participants) \subseteq SocketsOf(members(e, id))
    BY <1>6, <2>2, CompactPeers DEF SocketsOf
  <2> QED BY <1>1, <1>6, <2>1, <2>3 DEF Shrinks, Live, members, EngineStates
<1>7. ASSUME id \in RoomIds, Live(e, id)
      PROVE  /\ shrunk.participants = Compact(rest)
             /\ \A t, u : [shrunk EXCEPT !.host = t, !.host_user = u].participants
                            = Compact(rest)
  BY <1>7, MembersTyped DEF Groups
<1> HIDE DEF shrunk
<1> QED BY <1>3, <1>4, <1>5, <1>6, <1>7
\* Everybody in a line-up is somebody of one of its sides.
LEMMA LineupCopies ==
    ASSUME NEW A, NEW B, A \subseteq Peers, B \subseteq Peers, NEW p \in lineup(A, B)
    PROVE  \/ \E a \in A : Copies(p, a)
           \/ \E b \in B : Copies(p, b)
<1> DEFINE Seat(x, at) == [x EXCEPT
               !.at = at, !.session = NoSession,
               !.user = IF x.user = NoUser THEN GuestId ELSE x.user]
<1>1. \A x \in Peers : \A at : Copies(Seat(x, at), x)
  BY DEF Peers, Copies
<1>2. \/ \E a \in A : p = Seat(a, Rank(a, A))
      \/ \E b \in B : p = Seat(b, Cardinality(A) + Rank(b, B))
  BY DEF lineup
<1> HIDE DEF Seat
<1> QED BY <1>1, <1>2

\* The sides of a match: each was in one room, and they fit each other.
Sides(e, A, B) ==
    /\ A \subseteq Peers /\ B \subseteq Peers
    /\ \A a, b \in A : a.socket = b.socket \/ Shares(e, a.socket, b.socket)
    /\ \A a, b \in B : a.socket = b.socket \/ Shares(e, a.socket, b.socket)
    /\ \A a \in A, b \in B : may_meet(e, a, b) \/ may_meet(e, b, a)

LEMMA NotifyMeets ==
    ASSUME NEW e, Good(e), NEW A, NEW B, Sides(e, A, B), NEW from
    PROVE  Meets(e, notify_group_match(e, A, B, from))
<1> DEFINE f   == notify_group_match(e, A, B, from)
           new == <<"room", e.room_seq + 1>>
<1>1. Shaped(e)
  BY DEF Good, WellFormed, EngineStates, Shaped, EmptyEngine
<1>2. f = e \/ \E g, Emptied, frame : MovesOut(e, f, Lineup(A, B), g, Emptied, frame)
  BY <1>1, NotifyIs
<1> SUFFICES Meets(e, f)
  OBVIOUS
<1> HIDE DEF f
<1>3. CASE f = e
  BY <1>3, OnlyShrinks
<1>4. CASE \E g, Emptied, frame : MovesOut(e, f, Lineup(A, B), g, Emptied, frame)
  <2>1. PICK g, Emptied, frame : MovesOut(e, f, Lineup(A, B), g, Emptied, frame)
    BY <1>4
  <2>2. \A id \in RoomIds : f.group_rooms[id] =
            IF id = new THEN g
            ELSE IF Live(e, id) /\ id \notin Emptied
            THEN [e.group_rooms[id] EXCEPT
                    !.participants = Compact(StayBehind(e, id, Lineup(A, B)))]
            ELSE NoGroup
    BY <2>1 DEF MovesOut
  <2>3. g.participants = Lineup(A, B)
    BY <2>1 DEF MovesOut
  <2> SUFFICES ASSUME NEW id \in RoomIds, Live(f, id),
                      NEW p \in members(f, id), NEW q \in members(f, id)
               PROVE  \/ p.socket = q.socket \/ Shares(e, p.socket, q.socket)
                      \/ Fits(e.blocked_pairs, p, q)
    BY DEF Meets
  <2>4. CASE id = new
    <3>1. p \in Lineup(A, B) /\ q \in Lineup(A, B)
      BY <2>2, <2>3, <2>4 DEF members
    <3>2. /\ (\E a \in A : Copies(p, a)) \/ (\E b \in B : Copies(p, b))
          /\ (\E a \in A : Copies(q, a)) \/ (\E b \in B : Copies(q, b))
      <4> DEFINE X == {x \in A : x.socket \in hub}
                 Y == {x \in B : x.socket \in hub}
      <4>1. X \subseteq Peers /\ Y \subseteq Peers
        BY DEF Sides
      <4>2. p \in lineup(X, Y) /\ q \in lineup(X, Y)
        BY <3>1 DEF Lineup
      <4>3. X \subseteq A /\ Y \subseteq B
        OBVIOUS
      <4> HIDE DEF X, Y
      <4>4. /\ (\E a \in X : Copies(p, a)) \/ (\E b \in Y : Copies(p, b))
            /\ (\E a \in X : Copies(q, a)) \/ (\E b \in Y : Copies(q, b))
        BY <4>1, <4>2, LineupCopies
      <4> QED BY <4>3, <4>4
    <3>3. e.blocked_pairs \subseteq SUBSET Users
      BY DEF Good, WellFormed, EngineStates
    <3>4. PICK a : Copies(p, a) /\ (a \in A \/ a \in B)
      BY <3>2
    <3>5. PICK b : Copies(q, b) /\ (b \in A \/ b \in B)
      BY <3>2
    <3>6. CASE (a \in A /\ b \in A) \/ (a \in B /\ b \in B)
      <4>1. a.socket = b.socket \/ Shares(e, a.socket, b.socket)
        BY <3>6 DEF Sides
      <4>2. p.socket = a.socket /\ q.socket = b.socket
        BY <3>4, <3>5 DEF Copies
      <4> QED BY <4>1, <4>2
    <3>7. CASE (a \in A /\ b \in B) \/ (a \in B /\ b \in A)
      <4>1. may_meet(e, a, b) \/ may_meet(e, b, a)
        BY <3>7 DEF Sides
      <4>2. CASE may_meet(e, a, b)
        BY <3>3, <3>4, <3>5, <4>2, MeetFits
      <4>3. CASE may_meet(e, b, a)
        <5>1. Fits(e.blocked_pairs, q, p)
          BY <3>3, <3>4, <3>5, <4>3, MeetFits
        <5> QED BY <5>1, FitsIsMutual
      <4> QED BY <4>1, <4>2, <4>3
    <3> QED BY <3>4, <3>5, <3>6, <3>7
  <2>5. CASE id # new
    <3> DEFINE Q == StayBehind(e, id, Lineup(A, B))
    <3>1. f.group_rooms[id] = [e.group_rooms[id] EXCEPT !.participants = Compact(Q)]
          /\ Live(e, id)
      BY <2>2, <2>5 DEF Live
    <3>2. People(members(e, id)) /\ e.group_rooms[id] \in Groups
      BY <3>1, MembersTyped
    <3>3. Q \subseteq members(e, id) /\ Q \subseteq Peers /\ IsFiniteSet(Q)
      BY <3>2, FS_Subset DEF StayBehind, People
    <3> HIDE DEF Q
    <3>4. members(f, id) = Compact(Q)
      BY <3>1, <3>2 DEF members, Groups
    <3>5. SocketsOf(members(f, id)) \subseteq SocketsOf(members(e, id))
      BY <3>3, <3>4, CompactPeers DEF SocketsOf
    <3>6. {p.socket, q.socket} \subseteq SocketsOf(members(f, id))
      BY DEF SocketsOf
    <3> QED BY <3>1, <3>5, <3>6 DEF Shares
  <2> QED BY <2>4, <2>5
<1> QED BY <1>2, <1>3, <1>4

\* The members of one live room are a side.
LEMMA RoomIsSide ==
    ASSUME NEW e, Good(e), NEW id \in RoomIds, Live(e, id)
    PROVE  /\ members(e, id) \subseteq Peers
           /\ \A a, b \in members(e, id) : Shares(e, a.socket, b.socket)
<1>1. \A a \in members(e, id) : a.socket \in SocketsOf(members(e, id))
  BY DEF SocketsOf
<1> QED BY <1>1, MembersTyped DEF People, Shares

\* Whoever may meet in e may meet in an engine with the same memory.
LEMMA MayStillMeet ==
    ASSUME NEW e, NEW f, f.blocked_pairs = e.blocked_pairs,
           f.recent_pairs = e.recent_pairs, NEW a, NEW b, may_meet(e, a, b)
    PROVE  may_meet(f, a, b)
BY DEF may_meet

LEMMA DequeuedMemory ==
    ASSUME NEW e, Good(e), NEW ids
    PROVE  /\ dequeue_groups(e, ids).blocked_pairs = e.blocked_pairs
           /\ dequeue_groups(e, ids).recent_pairs = e.recent_pairs
BY DEF dequeue_groups, Good, WellFormed, EngineStates

LEMMA MergeGroupsMeets ==
    ASSUME NEW e, Good(e), NEW a \in RoomIds, NEW b \in RoomIds,
           group_to_group_compatible(e, a, b)
    PROVE  Meets(e, merge_groups_and_match(e, a, b))
<1> DEFINE ready == dequeue_groups(e, {a, b})
<1>1. Live(e, a) /\ Live(e, b) /\ \A p \in members(e, a), q \in members(e, b) : may_meet(e, p, q)
  BY DEF group_to_group_compatible
<1>2. /\ Good(ready) /\ Live(ready, a) /\ Live(ready, b)
      /\ members(ready, a) = members(e, a) /\ members(ready, b) = members(e, b)
  BY <1>1, DequeueGood
<1>3. Shrinks(e, ready) /\ ready.blocked_pairs = e.blocked_pairs
      /\ ready.recent_pairs = e.recent_pairs
  BY DequeueShrinks, DequeuedMemory
<1> HIDE DEF ready
<1>4. \A p \in members(e, a), q \in members(e, b) : may_meet(ready, p, q)
  BY <1>1, <1>3, MayStillMeet
<1>5. Sides(ready, members(ready, a), members(ready, b))
  BY <1>2, <1>4, RoomIsSide DEF Sides
<1>6. Meets(ready, notify_group_match(ready, members(ready, a), members(ready, b), NoRoom))
  BY <1>2, <1>5, NotifyMeets
<1> QED BY <1>3, <1>6, ShrinksMeets DEF merge_groups_and_match, ready

LEMMA MergeSoloMeets ==
    ASSUME NEW e, Good(e), e.room_seq < MaxRooms, NEW peer \in Peers, NEW id \in RoomIds,
           fits_group(e, peer, id)
    PROVE  Meets(e, merge_solo_with_group(e, peer, id))
<1> DEFINE dropped == drop_waiting(e, peer.socket)
           ready   == dequeue_groups(dropped, {id})
           merged  == notify_group_match(ready, members(ready, id), {peer}, NoRoom)
           g       == merged.group_rooms[id]
           host    == [at |-> 0, socket |-> g.host, user |-> g.host_user,
                       prefs |-> g.prefs, session |-> NoSession]
           final   == remember_pair(merged, peer, host)
           f       == merge_solo_with_group(e, peer, id)
<1>1. f = merged \/ f = final
  BY DEF merge_solo_with_group
<1> SUFFICES Meets(e, f)
  OBVIOUS
<1> HIDE DEF f
<1>2. Live(e, id) /\ \A m \in members(e, id) : may_meet(e, peer, m)
  BY DEF fits_group, group_compatible
<1>3. /\ Good(dropped) /\ Shrinks(e, dropped) /\ dropped.group_rooms = e.group_rooms
      /\ dropped.blocked_pairs = e.blocked_pairs /\ dropped.recent_pairs = e.recent_pairs
  <2>1. dropped.blocked_pairs = e.blocked_pairs /\ dropped.recent_pairs = e.recent_pairs
    BY DEF drop_waiting, Good, WellFormed, EngineStates
  <2> QED BY <2>1, DropWaitingGood, DropWaitingShrinks
<1> HIDE DEF dropped
<1>4. Live(dropped, id) /\ members(dropped, id) = members(e, id)
  BY <1>2, <1>3 DEF Live, members
<1>5. Good(ready) /\ Live(ready, id) /\ members(ready, id) = members(e, id)
  BY <1>3, <1>4, DequeueGood
<1>6. Shrinks(e, ready) /\ ready.blocked_pairs = e.blocked_pairs
      /\ ready.recent_pairs = e.recent_pairs
  BY <1>3, DequeueShrinks, DequeuedMemory, ShrinksChain
<1> HIDE DEF ready
<1>7. \A m \in members(ready, id) : may_meet(ready, peer, m)
  BY <1>2, <1>5, <1>6, MayStillMeet
<1>8. Sides(ready, members(ready, id), {peer})
  BY <1>5, <1>7, RoomIsSide DEF Sides
<1>9. Meets(ready, merged)
  BY <1>5, <1>8, NotifyMeets
<1>10. Meets(e, merged)
  BY <1>6, <1>9, ShrinksMeets
<1>11. Shaped(merged)
  <2>1. Shaped(ready)
    BY <1>5 DEF Good, WellFormed, EngineStates, Shaped, EmptyEngine
  <2> QED BY <2>1, NotifyOrder DEF OrderKept
<1> HIDE DEF merged
<1>12. final.group_rooms = merged.group_rooms
  BY <1>11 DEF remember_pair, Shaped, EmptyEngine
<1> HIDE DEF final
<1>13. Meets(e, final)
  BY <1>10, <1>12 DEF Meets, Live, members
<1> QED BY <1>1, <1>10, <1>13

LEMMA TryMatchMeets ==
    ASSUME NEW e, Good(e), e.room_seq < MaxRooms, NEW id \in RoomIds
    PROVE  Meets(e, try_match_group(e, id))
<1> DEFINE g      == e.group_rooms[id]
           rivals == {w \in e.waiting_groups :
                         w.id # id /\ group_to_group_compatible(e, id, w.id)}
           rival  == Best(rivals, [w \in rivals |->
                         group_pair_score(members(e, id), members(e, w.id))])
           solos  == solos_for_group(e, id)
           solo   == Best(solos, [p \in solos |-> solo_score(e, p, id)])
           f      == try_match_group(e, id)
           ready  == dequeue_groups(e, {id})
           alone  == notify_group_match(ready, g.participants, {}, id)
<1>1. \/ f = e
      \/ rivals # {} /\ f = merge_groups_and_match(e, id, rival.id)
      \/ solos # {} /\ f = merge_solo_with_group(e, solo, id)
      \/ Live(e, id) /\ f = alone
  BY DEF try_match_group
<1> SUFFICES Meets(e, f)
  OBVIOUS
<1> HIDE DEF f
<1>2. CASE f = e
  BY <1>2, OnlyShrinks
<1>3. CASE rivals # {} /\ f = merge_groups_and_match(e, id, rival.id)
  <2>1. rival.id \in RoomIds /\ group_to_group_compatible(e, id, rival.id)
    BY <1>3, BestRival
  <2> HIDE DEF rival
  <2> QED BY <1>3, <2>1, MergeGroupsMeets
<1>4. CASE solos # {} /\ f = merge_solo_with_group(e, solo, id)
  <2>1. solo \in Peers /\ fits_group(e, solo, id)
    BY <1>4, BestSolo
  <2> HIDE DEF solo
  <2> QED BY <1>4, <2>1, MergeSoloMeets
<1>5. CASE Live(e, id) /\ f = alone
  <2>1. Good(ready) /\ Live(ready, id) /\ members(ready, id) = g.participants
    BY <1>5, DequeueGood DEF members
  <2>2. Shrinks(e, ready)
    BY DequeueShrinks
  <2> HIDE DEF ready, g
  <2>3. Sides(ready, g.participants, {})
    BY <2>1, RoomIsSide DEF Sides
  <2>4. Meets(ready, alone)
    BY <2>1, <2>3, NotifyMeets
  <2> QED BY <1>5, <2>2, <2>4, ShrinksMeets
<1> QED BY <1>1, <1>2, <1>3, <1>4, <1>5

LEMMA EnqueueShrinks ==
    ASSUME NEW e, Good(e), NEW id \in RoomIds
    PROVE  Shrinks(e, enqueue_group(e, id))
<1> DEFINE pushed == [e EXCEPT !.waiting_groups =
                         @ \cup {[at |-> NextAt(@), id |-> id]}]
           g      == [pushed.group_rooms[id] EXCEPT !.in_queue = TRUE]
           marked == [pushed EXCEPT !.group_rooms[id] = g]
           f      == enqueue_group(e, id)
<1>1. \/ f = pushed
      \/ Live(e, id) /\ f = Tell(marked, SocketsOf(members(e, id)), "queue:waiting")
  BY DEF enqueue_group
<1> SUFFICES Shrinks(e, f)
  OBVIOUS
<1> HIDE DEF f
<1>2. e \in EngineStates
  BY DEF Good, WellFormed
<1>3. /\ pushed.group_rooms = e.group_rooms /\ pushed.blocked_pairs = e.blocked_pairs
      /\ DOMAIN pushed = DOMAIN e
  BY <1>2 DEF EngineStates
<1>4. CASE f = pushed
  BY <1>3, <1>4, SameRoomsShrink
<1>5. CASE Live(e, id) /\ f = Tell(marked, SocketsOf(members(e, id)), "queue:waiting")
  <2>1. g.participants = members(e, id)
    BY <1>3, <1>5, MembersTyped DEF members, Groups
  <2> HIDE DEF pushed, g
  <2>2. /\ f.group_rooms = [e.group_rooms EXCEPT ![id] = g]
        /\ f.blocked_pairs = e.blocked_pairs
    BY <1>2, <1>3, <1>5 DEF Tell, EngineStates
  <2> QED BY <1>2, <1>5, <2>1, <2>2 DEF Shrinks, Live, members, EngineStates
<1> QED BY <1>1, <1>4, <1>5

LEMMA StartMeets ==
    ASSUME NEW e, Good(e), NEW id \in RoomIds, e.room_seq < MaxRooms, Allocated(e, id)
    PROVE  Meets(e, start_group_match(e, id))
<1> DEFINE q == enqueue_group(e, id)
<1>1. CASE Live(e, id) /\ e.group_rooms[id].in_queue
  BY <1>1, OnlyShrinks DEF start_group_match
<1>2. CASE ~(Live(e, id) /\ e.group_rooms[id].in_queue)
  <2>1. Good(q) /\ SameCounters(e, q) /\ Shrinks(e, q)
    BY <1>2, EnqueueGood, EnqueueShrinks
  <2> HIDE DEF q
  <2>2. Meets(q, try_match_group(q, id))
    BY <2>1, TryMatchMeets DEF SameCounters
  <2>3. Meets(e, try_match_group(q, id))
    BY <2>1, <2>2, ShrinksMeets
  <2> QED BY <1>2, <2>3 DEF start_group_match, q
<1> QED BY <1>1, <1>2

LEMMA HeartbeatMeets ==
    ASSUME NEW e, Good(e), NEW s \in Sockets, e.room_seq < MaxRooms
    PROVE  Meets(e, heartbeat(e, s))
<1> DEFINE waiting == {p \in e.waiting_peers : p.socket = s}
           me      == CHOOSE p \in waiting : TRUE
           rooms   == groups_for_solo(e, me)
           room    == Best(rooms, [w \in rooms |-> solo_score(e, me, w.id)])
           id      == e.group_room_of_socket[s]
           f       == heartbeat(e, s)
<1>1. \/ f = e
      \/ waiting # {} /\ rooms # {} /\ f = merge_solo_with_group(e, me, room.id)
      \/ id # NoRoom /\ f = try_match_group(e, id)
  BY DEF heartbeat
<1> SUFFICES Meets(e, f)
  OBVIOUS
<1> HIDE DEF f
<1>2. CASE f = e
  BY <1>2, OnlyShrinks
<1>3. CASE waiting # {} /\ rooms # {} /\ f = merge_solo_with_group(e, me, room.id)
  <2>1. me \in Peers
    BY <1>3 DEF Good, WellFormed, EngineStates
  <2> HIDE DEF me
  <2>2. room.id \in RoomIds /\ fits_group(e, me, room.id)
    BY <1>3, <2>1, BestRoom
  <2> HIDE DEF room
  <2> QED BY <1>3, <2>1, <2>2, MergeSoloMeets
<1>4. CASE id # NoRoom /\ f = try_match_group(e, id)
  <2>1. id \in RoomIds
    BY <1>4 DEF Good, WellFormed, EngineStates
  <2> QED BY <1>4, <2>1, TryMatchMeets
<1> QED BY <1>1, <1>2, <1>3, <1>4

\* Whoever takes a seat by invitation meets the members of that room.
Comes(e, id, x, s, t) == s = x /\ Live(e, id) /\ t \in SocketsOf(members(e, id))

LEMMA SatDown ==
    ASSUME NEW e, NEW f, NEW id \in RoomIds, NEW x, SitsDown(e, f, id, x), Live(e, id),
           NEW s, NEW t, Shares(f, s, t)
    PROVE  \/ s = t \/ Shares(e, s, t)
           \/ Comes(e, id, x, s, t) \/ Comes(e, id, x, t, s)
<1>1. PICK r \in RoomIds : Live(f, r) /\ {s, t} \subseteq SocketsOf(members(f, r))
  BY DEF Shares
<1>2. CASE r = id
  <2>1. {s, t} \subseteq SocketsOf(members(e, id)) \cup {x}
    BY <1>1, <1>2 DEF SitsDown
  <2>2. CASE {s, t} \subseteq SocketsOf(members(e, id))
    BY <2>2 DEF Shares
  <2> QED BY <2>1, <2>2 DEF Comes
<1>3. CASE r # id
  <2>1. Live(e, r) /\ members(e, r) = members(f, r)
    BY <1>1, <1>3 DEF SitsDown, Live, members
  <2> QED BY <1>1, <2>1 DEF Shares
<1> QED BY <1>2, <1>3

LEMMA CameBefore ==
    ASSUME NEW e, NEW f, Shrinks(e, f), NEW id \in RoomIds, NEW x, NEW s, NEW t,
           Comes(f, id, x, s, t)
    PROVE  Comes(e, id, x, s, t)
BY DEF Shrinks, Comes

LEMMA QueuedMeets ==
    ASSUME NEW e, Good(e), NEW id \in RoomIds, NEW q, Good(q), SameCounters(e, q),
           e.room_seq < MaxRooms, Shrinks(e, q)
    PROVE  Meets(e, try_match_group(q, id))
<1>1. Meets(q, try_match_group(q, id))
  BY TryMatchMeets DEF SameCounters
<1> QED BY <1>1, ShrinksMeets

\* Who is in one room after somebody took a seat in room id.
LEMMA AddParticipantMeets ==
    ASSUME NEW e, Good(e), e.room_seq < MaxRooms, NEW id \in RoomIds, NEW x \in Sockets,
           NEW user \in Users \cup {NoUser}, NEW prefs \in Preferences,
           NEW f, f = add_participant_to_group(e, id, x, user, prefs),
           NEW r \in RoomIds, Live(f, r), NEW p \in members(f, r), NEW q \in members(f, r)
    PROVE  \/ p.socket = q.socket \/ Shares(e, p.socket, q.socket)
           \/ Fits(e.blocked_pairs, p, q)
           \/ Comes(e, id, x, p.socket, q.socket) \/ Comes(e, id, x, q.socket, p.socket)
<1>1. PICK free, seated, queued : SeatTaken(e, f, id, x, free, seated, queued)
  BY SeatIsTaken
<1>2. /\ Good(free) /\ SameCounters(e, free)
      /\ free.group_rooms = remove_from_queue(e, x).group_rooms
      /\ free.blocked_pairs = remove_from_queue(e, x).blocked_pairs
  BY <1>1 DEF SeatTaken
<1>3. Shrinks(e, free) /\ free.blocked_pairs = e.blocked_pairs
  <2> DEFINE out == remove_from_queue(e, x)
  <2>1. Shrinks(e, out)
    BY RemoveFromQueueShrinks
  <2>2. Shrinks(out, free)
    <3> HIDE DEF out
    <3> QED BY <1>2, SameRoomsShrink DEF out
  <2> HIDE DEF out
  <2>3. Shrinks(e, free)
    BY <2>1, <2>2, ShrinksChain
  <2> QED BY <2>3 DEF Shrinks
<1> DEFINE s == p.socket
           t == q.socket
<1>4. p.socket \in SocketsOf(members(f, r)) /\ q.socket \in SocketsOf(members(f, r))
  BY DEF SocketsOf
<1>5. CASE f = free
  <2>1. Shares(free, p.socket, q.socket)
    BY <1>4, <1>5 DEF Shares
  <2> QED BY <1>3, <2>1, SharedBefore
<1>6. ASSUME Live(free, id)
      PROVE  /\ Good(seated) /\ SameCounters(free, seated)
             /\ Good(queued) /\ SameCounters(free, queued)
             /\ SitsDown(free, seated, id, x)
             /\ queued = seated \/ queued = enqueue_group(seated, id)
  BY <1>1, <1>6 DEF SeatTaken
<1>7. ASSUME Live(free, id), Shares(seated, s, t)
      PROVE  \/ s = t \/ Shares(e, s, t)
             \/ Comes(e, id, x, s, t) \/ Comes(e, id, x, t, s)
  <2> HIDE DEF s, t
  <2>1. \/ s = t \/ Shares(free, s, t)
        \/ Comes(free, id, x, s, t) \/ Comes(free, id, x, t, s)
    BY <1>6, <1>7, SatDown
  <2>2. Shares(free, s, t) => Shares(e, s, t)
    BY <1>3, SharedBefore
  <2>3. /\ Comes(free, id, x, s, t) => Comes(e, id, x, s, t)
        /\ Comes(free, id, x, t, s) => Comes(e, id, x, t, s)
    BY <1>3, CameBefore
  <2> QED BY <2>1, <2>2, <2>3
<1>8. CASE Live(free, id) /\ f = seated
  <2>1. Shares(seated, p.socket, q.socket)
    BY <1>4, <1>8 DEF Shares
  <2> QED BY <1>7, <1>8, <2>1
<1>9. CASE Live(free, id) /\ f = try_match_group(queued, id)
  <2>1. Shrinks(seated, queued)
    <3>1. CASE queued = seated
      BY <3>1, SameRoomsShrink
    <3>2. CASE queued = enqueue_group(seated, id)
      BY <1>6, <1>9, <3>2, EnqueueShrinks
    <3> QED BY <1>6, <1>9, <3>1, <3>2
  <2>2. queued.room_seq < MaxRooms /\ SameCounters(seated, queued) /\ seated.room_seq < MaxRooms
    BY <1>2, <1>6, <1>9 DEF SameCounters
  <2>3. Meets(seated, f)
    BY <1>6, <1>9, <2>1, <2>2, QueuedMeets
  <2>4. \/ s = t \/ Shares(seated, s, t) \/ Fits(seated.blocked_pairs, p, q)
    BY <2>3 DEF Meets
  <2>5. seated.blocked_pairs = e.blocked_pairs
    BY <1>3, <1>6, <1>9 DEF SitsDown
  <2> QED BY <1>7, <1>9, <2>4, <2>5
<1>10. \/ f = free
       \/ Live(free, id) /\ f = seated
       \/ Live(free, id) /\ f = try_match_group(queued, id)
  BY <1>1 DEF SeatTaken
<1> QED BY <1>5, <1>8, <1>9, <1>10

\* Everybody in a 1:1 search leaves the rooms first.
LEMMA JoinQueueMeets ==
    ASSUME NEW e, Good(e), NEW s \in Sockets, NEW user \in Users \cup {NoUser},
           NEW prefs \in Preferences, e.room_seq < MaxRooms
    PROVE  Meets(e, join_queue(e, s, user, prefs))
<1> DEFINE me     == peer_of(s, user, prefs)
           out    == remove_from_queue(e, s)
           apart  == leave_room(out, s, TRUE)
           away   == leave_group(apart, s)
           idle   == [away EXCEPT !.peer_meta = @ \cup {s}]
           solos  == solo_candidates(idle, me)
           chosen == Best(solos, [c \in solos |->
                         interest_score(prefs.interests, c.prefs.interests)])
           rooms  == groups_for_solo(idle, me)
           room   == Best(rooms, [w \in rooms |-> solo_score(idle, me, w.id)])
           without == drop_waiting(idle, chosen.socket)
           noted  == remember_pair(without, me, chosen)
           f      == join_queue(e, s, user, prefs)
<1>1. me \in Peers
  BY PeerOfType
<1>2. Good(away) /\ SameCounters(e, away) /\ Shrinks(e, away)
  <2>1. Good(out) /\ SameCounters(e, out) /\ Shrinks(e, out)
    BY RemoveFromQueueGood, RemoveFromQueueShrinks
  <2> HIDE DEF out
  <2>2. Good(apart) /\ SameCounters(out, apart) /\ Shrinks(out, apart)
    BY <2>1, LeaveRoomGood, LeaveRoomShrinks
  <2> HIDE DEF apart
  <2>3. Good(away) /\ SameCounters(apart, away) /\ Shrinks(apart, away)
    BY <2>2, LeaveGroupGood, LeaveGroupShrinks
  <2> HIDE DEF away
  <2>4. Shrinks(e, away)
    BY <2>1, <2>2, <2>3, ShrinksChain
  <2> QED BY <2>1, <2>2, <2>3, <2>4 DEF SameCounters
<1>3. \/ f = pair_up(noted, s, chosen.socket)
      \/ rooms # {} /\ f = merge_solo_with_group(idle, me, room.id)
      \/ f = push_waiting(idle, me)
  BY DEF join_queue
<1> SUFFICES Meets(e, f)
  OBVIOUS
<1> HIDE DEF f, me, away
<1>4. Good(idle) /\ SameCounters(e, idle) /\ Shrinks(e, idle)
  <2>1. away \in EngineStates /\ IsFiniteSet(away.waiting_peers)
    BY <1>2 DEF Good, WellFormed, Finite
  <2>2. /\ idle \in EngineStates /\ idle.group_rooms = away.group_rooms
        /\ idle.waiting_groups = away.waiting_groups
        /\ idle.group_room_of_socket = away.group_room_of_socket
        /\ idle.waiting_peers = away.waiting_peers
        /\ idle.blocked_pairs = away.blocked_pairs
        /\ SameCounters(away, idle) /\ Later(away, idle)
    BY <2>1 DEF EngineStates, SameCounters, Later
  <2> HIDE DEF idle
  <2>3. Good(idle)
    BY <1>2, <2>1, <2>2, QuietStep
  <2>4. Shrinks(e, idle)
    BY <1>2, <2>2, SameRoomsShrink, ShrinksChain
  <2> QED BY <1>2, <2>2, <2>3, <2>4 DEF SameCounters
<1> HIDE DEF idle
<1>5. Shaped(idle)
  BY <1>4 DEF Good, WellFormed, EngineStates, Shaped, EmptyEngine
<1> SUFFICES Meets(idle, f)
  BY <1>4, ShrinksMeets
<1>6. CASE f = pair_up(noted, s, chosen.socket)
  <2> HIDE DEF chosen
  <2>1. f.group_rooms = idle.group_rooms
    BY <1>5, <1>6 DEF pair_up, remember_pair, drop_waiting, Shaped, EmptyEngine
  <2> QED BY <2>1, OnlyShrinks
<1>7. CASE rooms # {} /\ f = merge_solo_with_group(idle, me, room.id)
  <2>1. room.id \in RoomIds /\ fits_group(idle, me, room.id)
    BY <1>1, <1>4, <1>7, BestRoom
  <2> HIDE DEF room
  <2> QED BY <1>1, <1>4, <1>7, <2>1, MergeSoloMeets DEF SameCounters
<1>8. CASE f = push_waiting(idle, me)
  <2>1. f.group_rooms = idle.group_rooms
    BY <1>5, <1>8 DEF push_waiting, Tell, Shaped, EmptyEngine
  <2> QED BY <2>1, OnlyShrinks
<1> QED BY <1>3, <1>6, <1>7, <1>8

\* A new lobby has one member.
LEMMA CreateMeets ==
    ASSUME NEW e, Good(e), e.group_room_seq < MaxRooms, NEW s \in Sockets,
           NEW user \in Users, NEW prefs \in Preferences, NEW skip \in BOOLEAN
    PROVE  Meets(e, create_group_match_room(e, s, user, prefs, skip))
<1> DEFINE left  == leave_group(e, s)
           apart == leave_room(left, s, TRUE)
           free  == IF skip THEN left ELSE apart
           id    == <<"groom", e.group_room_seq + 1>>
           seat  == [peer_of(s, user, prefs) EXCEPT !.at = 1]
           lobby == [host |-> s, host_user |-> user, scope |-> prefs.scope,
                     prefs |-> prefs, participants |-> {seat},
                     in_queue |-> FALSE, matched |-> FALSE]
           opened == [free EXCEPT !.group_room_seq = @ + 1,
                                  !.group_rooms[id] = lobby,
                                  !.group_room_of_socket[s] = id]
           f     == create_group_match_room(e, s, user, prefs, skip)
<1>1. Good(left) /\ SameCounters(e, left) /\ Shrinks(e, left)
  BY LeaveGroupGood, LeaveGroupShrinks
<1> HIDE DEF left
<1>2. Good(apart) /\ SameCounters(left, apart) /\ Shrinks(left, apart)
  BY <1>1, LeaveRoomGood, LeaveRoomShrinks
<1> HIDE DEF apart
<1>3. Good(free) /\ SameCounters(e, free) /\ Shrinks(e, free)
  BY <1>1, <1>2, ShrinksChain DEF SameCounters
<1>4. free.group_room_seq = e.group_room_seq
  BY <1>3 DEF SameCounters
<1>5. f = Tell(opened, {s}, "group-match:created")
  BY <1>4 DEF create_group_match_room, left, apart
<1> HIDE DEF free, f
<1>6. free \in EngineStates
  BY <1>3 DEF Good, WellFormed
<1>7. lobby.participants = {seat}
  OBVIOUS
<1> HIDE DEF lobby, seat
<1>8. f.group_rooms = [free.group_rooms EXCEPT ![id] = lobby]
  BY <1>5, <1>6 DEF Tell, EngineStates
<1> SUFFICES ASSUME NEW r \in RoomIds, Live(f, r),
                    NEW p \in members(f, r), NEW q \in members(f, r)
             PROVE  p.socket = q.socket \/ Shares(e, p.socket, q.socket)
  BY DEF Meets, f
<1>9. CASE r = id
  <2>1. members(f, r) = {seat}
    BY <1>6, <1>7, <1>8, <1>9 DEF members, EngineStates
  <2> QED BY <2>1
<1>10. CASE r # id
  <2>1. f.group_rooms[r] = free.group_rooms[r]
    BY <1>6, <1>8, <1>10 DEF EngineStates
  <2>2. Live(free, r) /\ members(f, r) = members(free, r)
    BY <2>1 DEF Live, members
  <2>3. {p.socket, q.socket} \subseteq SocketsOf(members(free, r))
    BY <2>2 DEF SocketsOf
  <2>4. Shares(free, p.socket, q.socket)
    BY <2>2, <2>3 DEF Shares
  <2> QED BY <1>3, <2>4, SharedBefore
<1> QED BY <1>9, <1>10

LEMMA FullRemoveMeets ==
    ASSUME NEW e, Good(e), NEW s \in Sockets
    PROVE  Meets(e, full_remove(e, s))
<1> DEFINE out  == remove_from_queue(e, s)
           left == leave_group(out, s)
           f    == leave_room(left, s, TRUE)
<1>1. Good(out) /\ Shrinks(e, out)
  BY RemoveFromQueueGood, RemoveFromQueueShrinks
<1> HIDE DEF out
<1>2. Good(left) /\ Shrinks(out, left)
  BY <1>1, LeaveGroupGood, LeaveGroupShrinks
<1> HIDE DEF left
<1>3. Shrinks(left, f)
  BY <1>2, LeaveRoomShrinks
<1> HIDE DEF f
<1>4. Shrinks(e, f)
  BY <1>1, <1>2, <1>3, ShrinksChain
<1>5. Meets(e, f)
  BY <1>4, OnlyShrinks DEF Shrinks
<1> QED BY <1>5 DEF full_remove, out, left, f

LEMMA ShrinkingMeets ==
    ASSUME NEW e, NEW f, Shrinks(e, f)
    PROVE  Meets(e, f)
BY OnlyShrinks DEF Shrinks

\* Recording a block, forgetting a pair and pairing by invitation change no
\* group room.
LEMMA MessageMeets ==
    ASSUME IInv, NEW x \in Sockets, ClientMessage(x)
    PROVE  Meets(engine, engine')
<1>1. Good(engine) /\ UserOf[x] \in Users \cup {NoUser} /\ PrefsOf[x] \subseteq Preferences
  BY UserOfAssumption, PrefsOfAssumption DEF IInv
<1>2. CASE QueueJoin(x)
  <2>1. PICK p \in PrefsOf[x] : engine' = join_queue(engine, x, UserOf[x], p) /\ RoomLeft
    BY <1>2 DEF QueueJoin, Joined
  <2> QED BY <1>1, <2>1, JoinQueueMeets DEF RoomLeft
<1>3. CASE RoomNext(x)
  BY <1>1, <1>3, LeaveRoomShrinks, ShrinkingMeets DEF RoomNext
<1>4. CASE RoomLeave(x) \/ GroupMatchLeave(x)
  BY <1>1, <1>4, RemoveFromQueueShrinks, ShrinkingMeets DEF RoomLeave, GroupMatchLeave
<1>5. CASE QueueHeartbeat(x)
  BY <1>1, <1>5, HeartbeatMeets DEF QueueHeartbeat, RoomLeft
<1>6. CASE GroupMatchCreate(x) \/ CreateAndInvite(x)
  <2>1. PICK p \in PrefsOf[x], skip \in BOOLEAN :
           engine' = create_group_match_room(engine, x, UserOf[x], p, skip)
    BY <1>6 DEF GroupMatchCreate, CreateAndInvite
  <2>2. UserOf[x] \in Users /\ engine.group_room_seq < MaxRooms
    BY <1>1, <1>6 DEF GroupMatchCreate, CreateAndInvite
  <2> QED BY <1>1, <2>1, <2>2, CreateMeets
<1>7. CASE GroupMatchInviteDecline(x)
  <2>1. PICK S : engine' = Tell(engine, S, "group-match:invite-declined")
    BY <1>7 DEF GroupMatchInviteDecline
  <2>2. Shrinks(engine, Tell(engine, S, "group-match:invite-declined"))
    BY <1>1, TellShrinks
  <2> QED BY <2>1, <2>2, ShrinkingMeets
<1>8. CASE UNCHANGED engine
  BY <1>8, OnlyShrinks
<1> QED BY <1>2, <1>3, <1>4, <1>5, <1>6, <1>7, <1>8
       DEF ClientMessage, Report, Block, GroupMatchJoin, GroupMatchStart,
           InvitationAccept

LEMMA CallMeets ==
    ASSUME IInv, NEW x \in Sockets, HandlerCall(x), ~AddParticipantCall(x)
    PROVE  Meets(engine, engine')
<1>1. Good(engine) /\ UserOf[x] \in Users \cup {NoUser}
  BY UserOfAssumption DEF IInv
<1>2. CASE LeaveRoomCall(x)
  BY <1>1, <1>2, LeaveRoomShrinks, ShrinkingMeets DEF LeaveRoomCall
<1>3. CASE LeaveGroupCall(x)
  <2>1. Head(todo[x]).who \in Sockets
    BY <1>3, NextCall DEF LeaveGroupCall, Calls, EngineCalls
  <2> QED BY <1>1, <1>3, <2>1, LeaveGroupShrinks, ShrinkingMeets DEF LeaveGroupCall
<1>4. CASE JoinQueueCall(x)
  <2>1. Head(todo[x]).prefs \in Preferences
    BY <1>4, NextCall DEF JoinQueueCall, Calls, EngineCalls
  <2> QED BY <1>1, <1>4, <2>1, JoinQueueMeets DEF JoinQueueCall, Joined, RoomLeft
<1>5. CASE StartGroupCall(x)
  <2>1. /\ Head(todo[x]).room \in RoomIds /\ Allocated(engine, Head(todo[x]).room)
    BY <1>5, NextCall DEF StartGroupCall, Calls, EngineCalls
  <2> QED BY <1>1, <1>5, <2>1, StartMeets DEF StartGroupCall, RoomLeft
<1>6. CASE BlockPairCall(x)
  <2>1. engine'.group_rooms = engine.group_rooms
    BY <1>1, <1>6 DEF BlockPairCall, Good, WellFormed, EngineStates
  <2> QED BY <2>1, OnlyShrinks
<1>7. CASE MatchUsersCall(x)
  <2>1. Shaped(engine)
    BY <1>1 DEF Good, WellFormed, EngineStates, Shaped, EmptyEngine
  <2> DEFINE l   == Head(todo[x]).left
             r   == Head(todo[x]).right
             out == leave_all(engine, l \o r)
  <2>2. out.group_rooms = engine.group_rooms /\ Shaped(out)
    BY ZenonT(40), <2>1 DEF leave_all, Shaped, EmptyEngine
  <2>3. engine' = pair_up(out, l[1], r[1])
    BY <1>7 DEF MatchUsersCall, match_users
  <2> HIDE DEF out, l, r
  <2>4. engine'.group_rooms = engine.group_rooms
    BY <2>2, <2>3 DEF pair_up, Shaped, EmptyEngine
  <2> QED BY <2>4, OnlyShrinks
<1>8. CASE AnnounceCall(x)
  <2>1. Shrinks(engine, Tell(engine, Head(todo[x]).told, "room:matched"))
    BY <1>1, TellShrinks
  <2> QED BY <1>8, <2>1, ShrinkingMeets DEF AnnounceCall
<1>9. CASE UNCHANGED engine
  BY <1>9, OnlyShrinks
<1> QED BY <1>2, <1>3, <1>4, <1>5, <1>6, <1>7, <1>8, <1>9
       DEF HandlerCall, ReadPartnerCall, ReadGroupCall

LEMMA OtherMeets ==
    ASSUME IInv,
           \/ \E x \in Sockets : SlowConsumer(x) \/ Teardown(x) \/ Forget(x)
           \/ \E t \in timers : InviteTimeout(t) \/ InviteExpired(t)
           \/ PairForgotten
    PROVE  Meets(engine, engine')
<1>1. Good(engine)
  BY DEF IInv
<1>2. ASSUME NEW x \in Sockets, Teardown(x) PROVE Meets(engine, engine')
  BY <1>1, <1>2, FullRemoveMeets DEF Teardown
<1>3. ASSUME NEW t \in timers, InviteExpired(t) PROVE Meets(engine, engine')
  <2>1. t.socket \in Sockets
    BY DEF IInv, TimersOK
  <2> QED BY <1>1, <1>3, <2>1, LeaveGroupShrinks, ShrinkingMeets DEF InviteExpired
<1>4. UNCHANGED engine => Meets(engine, engine')
  BY OnlyShrinks
<1>5. ASSUME NEW t \in timers, InviteTimeout(t) PROVE Meets(engine, engine')
  <2>1. Shrinks(engine, Tell(engine, {t.socket}, "group-match:invite-declined"))
    BY <1>1, TellShrinks
  <2> QED BY <1>4, <1>5, <2>1, ShrinkingMeets DEF InviteTimeout
<1>6. ASSUME PairForgotten PROVE Meets(engine, engine')
  <2>1. engine'.group_rooms = engine.group_rooms
    BY <1>1, <1>6 DEF PairForgotten, Good, WellFormed, EngineStates
  <2> QED BY <2>1, OnlyShrinks
<1> QED BY <1>2, <1>3, <1>4, <1>5, <1>6 DEF SlowConsumer, Forget

\* The people of a room after a step.
Strangers(id) ==
    \A p, q \in engine'.group_rooms[id].participants :
       \/ p.socket = q.socket \/ Together(p.socket, q.socket)
       \/ Invited(p.socket, q.socket) \/ Invited(q.socket, p.socket)
       \/ /\ {p.user, q.user} \notin engine.blocked_pairs
          /\ pool_ok(p, q)
          /\ preferences_compatible(p.prefs, q.prefs)

LEMMA MetBefore ==
    ASSUME Meets(engine, engine'), NEW id \in RoomIds, Live(engine', id)
    PROVE  Strangers(id)
BY DEF Meets, Strangers, Shares, Together, Fits, members

LEMMA CameByInvitation ==
    ASSUME IInv, NEW x \in Sockets, AddParticipantCall(x),
           NEW id \in RoomIds, Live(engine', id)
    PROVE  Strangers(id)
<1> DEFINE room  == Head(todo[x]).room
           prefs == Head(todo[x]).prefs
<1>1. todo[x] # << >> /\ Head(todo[x]).op = "add_participant" /\ RoomLeft
      /\ engine' = add_participant_to_group(engine, room, x, UserOf[x], prefs)
  BY DEF AddParticipantCall, Calls
<1>2. room \in RoomIds /\ prefs \in Preferences
  BY <1>1, NextCall DEF EngineCalls
<1>3. Good(engine) /\ UserOf[x] \in Users \cup {NoUser} /\ engine.room_seq < MaxRooms
  BY <1>1, UserOfAssumption DEF IInv, RoomLeft
<1>4. \A s, t : Comes(engine, room, x, s, t) => Invited(s, t)
  BY <1>1 DEF Comes, Invited
<1> HIDE DEF room, prefs
<1> SUFFICES ASSUME NEW p \in members(engine', id), NEW q \in members(engine', id)
             PROVE  \/ p.socket = q.socket \/ Together(p.socket, q.socket)
                    \/ Invited(p.socket, q.socket) \/ Invited(q.socket, p.socket)
                    \/ Fits(engine.blocked_pairs, p, q)
  BY DEF Strangers, Fits, members
<1>5. \/ p.socket = q.socket \/ Shares(engine, p.socket, q.socket)
      \/ Fits(engine.blocked_pairs, p, q)
      \/ Comes(engine, room, x, p.socket, q.socket)
      \/ Comes(engine, room, x, q.socket, p.socket)
  BY <1>1, <1>2, <1>3, AddParticipantMeets
<1>6. Shares(engine, p.socket, q.socket) => Together(p.socket, q.socket)
  BY DEF Shares, Together
<1> QED BY <1>4, <1>5, <1>6

\* Whatever the server runs next to it, a step puts two people who had no room
\* together into one only if neither blocked the other and their pools and
\* preferences agree; the lobby a person joins by invitation is the exception.
THEOREM StrangersAreCompatible == Spec => StrangersCompatible
<1>1. ASSUME IInv, Next, NEW id \in RoomIds, Live(engine', id) PROVE Strangers(id)
  <2>1. CASE \E x \in Sockets : AddParticipantCall(x)
    BY <1>1, <2>1, CameByInvitation
  <2>2. CASE ~\E x \in Sockets : AddParticipantCall(x)
    <3>1. Meets(engine, engine')
      BY <1>1, <2>2, MessageMeets, CallMeets, OtherMeets DEF Next
    <3> QED BY <1>1, <3>1, MetBefore
  <2> QED BY <2>1, <2>2
<1>2. IInv /\ [Next]_vars =>
         [\A id \in RoomIds :
            Live(engine, id)' /\ engine'.group_rooms[id].matched => Strangers(id)]_vars
  BY <1>1 DEF Live
<1> QED BY <1>2, Invariant, PTL DEF Spec, StrangersCompatible, Strangers
=============================================================================
