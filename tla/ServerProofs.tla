---------------------------- MODULE ServerProofs ----------------------------
(***************************************************************************)
(* What admission guarantees, whatever clients send, and the server beside *)
(* matchmaking: for every set of preference objects and accounts, and for  *)
(* every number of people, games, rows and requests.                       *)
(***************************************************************************)
EXTENDS MCServer, PolicyLemmas, LedgerProofs, PresenceProofs

-----------------------------------------------------------------------------
(* Admission. *)

\* normalize_preferences returns a legal preference set for any JSON object.
LEMMA NormalizeType ==
    ASSUME NEW raw
    PROVE  normalize_preferences(raw, Malformed) \in Preferences
BY AnyAssumption DEF normalize_preferences, Preferences, Genders

\* force_guest_preferences keeps it legal.
LEMMA GuestType ==
    ASSUME NEW p \in Preferences
    PROVE  force_guest_preferences(p) \in Preferences
BY AnyAssumption DEF force_guest_preferences, Preferences, Genders

LEMMA AdmittedType ==
    ASSUME NEW raw, NEW user
    PROVE  admitted(raw, user) \in Preferences
BY NormalizeType, GuestType DEF admitted

LEMMA QueuePeerType ==
    ASSUME NEW at \in Nat, NEW s \in Sockets, NEW user \in Users \cup {NoUser},
           NEW raw
    PROVE  queue_peer(at, s, user, admitted(raw, user)) \in Peers
BY AdmittedType DEF queue_peer, Peers, UserIds, Sessions

\* Whatever two clients send, what the engine stores is a legal preference set.
THEOREM AdmissionTypeCorrect == Spec => []TypeOK
<1>1. Init => TypeOK
  BY DEF Init, TypeOK
<1>2. TypeOK /\ [Next]_vars => TypeOK'
  <2> SUFFICES ASSUME TypeOK, [Next]_vars PROVE TypeOK'
    OBVIOUS
  <2>1. CASE JoinFirst
    BY <2>1, QueuePeerType, SocketAssumption DEF JoinFirst, TypeOK
  <2>2. CASE JoinSecond
    BY <2>2, QueuePeerType, SocketAssumption DEF JoinSecond, TypeOK
  <2>3. CASE UNCHANGED vars
    BY <2>3 DEF TypeOK, vars
  <2> QED BY <2>1, <2>2, <2>3 DEF Next
<1> QED BY <1>1, <1>2, PTL DEF Spec

\* The filters of p are those every guest gets.
Forced(p) ==
    /\ p.country = "any" /\ p.language = "any" /\ p.gender = "any"
    /\ p.looking_for = "any" /\ p.interests = {} /\ p.pool = "all"

\* What admission knows about a peer it stored at position `at'.
Stored(p, at, s) ==
    /\ p \in Peers /\ p.at = at /\ p.socket = s
    /\ p.user \in Users \cup {NoUser}
    /\ p.user = NoUser => Forced(p.prefs)

\* TypeOK does not say that guests were stripped of their filters, nor that the
\* two peers have different sockets and positions.
AdmissionInv ==
    /\ first # NoPeer => Stored(first, 1, first_socket)
    /\ second # NoPeer => Stored(second, 2, second_socket)

LEMMA QueuePeerStored ==
    ASSUME NEW at \in Nat, NEW s \in Sockets, NEW user \in Users \cup {NoUser},
           NEW raw
    PROVE  Stored(queue_peer(at, s, user, admitted(raw, user)), at, s)
<1>1. queue_peer(at, s, user, admitted(raw, user)) \in Peers
  BY QueuePeerType
<1>2. user = NoUser => Forced(admitted(raw, user))
  <2>1. normalize_preferences(raw, Malformed) \in Preferences
    BY NormalizeType
  <2> QED BY <2>1 DEF admitted, force_guest_preferences, Forced, Preferences
<1> QED BY <1>1, <1>2 DEF Stored, queue_peer

LEMMA AdmissionInvariant == Spec => []AdmissionInv
<1>1. Init => AdmissionInv
  BY DEF Init, AdmissionInv
<1>2. AdmissionInv /\ [Next]_vars => AdmissionInv'
  <2> SUFFICES ASSUME AdmissionInv, [Next]_vars PROVE AdmissionInv'
    OBVIOUS
  <2>1. CASE JoinFirst
    <3>1. first'= NoPeer \/ Stored(first', 1, first_socket)
      BY <2>1, QueuePeerStored, SocketAssumption DEF JoinFirst
    <3>2. UNCHANGED second
      BY <2>1 DEF JoinFirst
    <3> QED BY <3>1, <3>2 DEF AdmissionInv, Stored, Forced
  <2>2. CASE JoinSecond
    <3>1. second'= NoPeer \/ Stored(second', 2, second_socket)
      BY <2>2, QueuePeerStored, SocketAssumption DEF JoinSecond
    <3>2. UNCHANGED first
      BY <2>2 DEF JoinSecond
    <3> QED BY <3>1, <3>2 DEF AdmissionInv, Stored, Forced
  <2>3. CASE UNCHANGED vars
    BY <2>3 DEF AdmissionInv, Stored, Forced, vars
  <2> QED BY <2>1, <2>2, <2>3 DEF Next
<1> QED BY <1>1, <1>2, PTL DEF Spec

\* A guest meets every guest and exactly the registered users with an open pool,
\* whatever either of the two sent.
THEOREM GuestsAreUnfiltered == Spec => []GuestFiltersDropped
<1>1. AdmissionInv => GuestFiltersDropped
  <2> SUFFICES ASSUME AdmissionInv, Both, first.user = NoUser
               PROVE  compatible({}, {}, first, second)
                        <=> second.user = NoUser \/ second.prefs.pool = "all"
    BY DEF GuestFiltersDropped
  <2>1. Stored(first, 1, first_socket) /\ Stored(second, 2, second_socket)
    BY DEF AdmissionInv, Both
  <2>2. first.socket # second.socket
    BY <2>1, TwoSocketsAssumption DEF Stored
  <2>3. ~is_blocked_pair({}, first.user, second.user) /\ ~is_recent_pair({}, first, second)
    BY DEF is_blocked_pair, is_recent_pair
  <2>4. preferences_compatible(first.prefs, second.prefs)
    BY <2>1 DEF Stored, Forced, preferences_compatible, any_or_equal
  <2>5. pool_ok(first, second) <=> second.user = NoUser \/ second.prefs.pool = "all"
    <3>1. is_guest(first.user)
      BY DEF is_guest
    <3>2. is_guest(second.user) <=> second.user = NoUser
      BY <2>1, GuestAssumption DEF Stored, is_guest
    <3> QED BY <3>1, <3>2 DEF pool_ok
  <2> QED BY <2>2, <2>3, <2>4, <2>5 DEF compatible
<1> QED BY <1>1, AdmissionInvariant, PTL

\* For two peers with the same rematch flag it does not matter who searched.
THEOREM AcceptanceIsMutual == Spec => []MutualAcceptance
<1>1. AdmissionInv => MutualAcceptance
  <2> SUFFICES ASSUME AdmissionInv, Both,
                      NEW blocked \in SUBSET {{u, v} : u, v \in Users},
                      first.prefs.allow_same = second.prefs.allow_same
               PROVE  compatible(blocked, pair_keys(first, second), first, second)
                  <=> compatible(blocked, pair_keys(first, second), second, first)
    BY DEF MutualAcceptance
  <2>1. first \in Peers /\ second \in Peers
    BY DEF AdmissionInv, Both, Stored
  <2> QED BY <2>1, CompatibleSymmetric
<1> QED BY <1>1, AdmissionInvariant, PTL

\* The aggregated preferences of a room never turn away a peer every member of
\* it accepts.
THEOREM AggregateIsFaithful == Spec => []AggregateFaithful
<1>1. AdmissionInv => AggregateFaithful
  <2> SUFFICES ASSUME AdmissionInv, Both,
                      NEW host \in {first, second}, NEW raw \in RawPreferences,
                      \A m \in {first, second} :
                          preferences_compatible(
                              normalize_preferences(raw, Malformed), m.prefs)
               PROVE  preferences_compatible(
                          normalize_preferences(raw, Malformed),
                          aggregate_group_preferences({first, second}, host.prefs, "all"))
    BY DEF AggregateFaithful
  <2>1. {first, second} \subseteq Peers
    BY DEF AdmissionInv, Both, Stored
  <2>2. IsFiniteSet({first, second})
    <3>1. IsFiniteSet({first}) /\ {first, second} = {first} \cup {second}
      BY FS_Singleton
    <3> QED BY <3>1, FS_AddElement
  <2>3. normalize_preferences(raw, Malformed) \in Preferences
    BY NormalizeType
  <2> QED BY <2>1, <2>2, <2>3, AggregateAccepts
<1> QED BY <1>1, AdmissionInvariant, PTL

-----------------------------------------------------------------------------
(* Tables are sequences of rows: a row is changed, or added at the end.      *)

LEMMA RowChanged ==
    ASSUME NEW V, NEW q \in Seq(V), NEW k \in DOMAIN q, NEW v \in V
    PROVE  LET r == [q EXCEPT ![k] = v]
           IN  /\ r \in Seq(V) /\ Len(r) = Len(q) /\ DOMAIN r = DOMAIN q
               /\ r[k] = v /\ \A j \in DOMAIN q : j # k => r[j] = q[j]
OBVIOUS

LEMMA RowAdded ==
    ASSUME NEW V, NEW q \in Seq(V), NEW v \in V
    PROVE  LET r == Append(q, v)
           IN  /\ r \in Seq(V) /\ Len(r) = Len(q) + 1 /\ DOMAIN r = DOMAIN q \cup {Len(r)}
               /\ Len(r) \notin DOMAIN q
               /\ r[Len(r)] = v /\ \A j \in DOMAIN q : r[j] = q[j]
OBVIOUS

LEMMA RowTyped ==
    ASSUME NEW V, NEW q \in Seq(V)
    PROVE  /\ \A k \in DOMAIN q : q[k] \in V /\ k \in Nat \ {0}
           /\ Len(q) \in Nat /\ DOMAIN q = 1 .. Len(q)
OBVIOUS

LEMMA RowsJoined ==
    ASSUME NEW V, NEW a \in Seq(V), NEW b \in Seq(V)
    PROVE  LET r == a \o b
           IN  /\ r \in Seq(V) /\ Len(r) = Len(a) + Len(b)
               /\ \A k \in 1 .. Len(r) : r[k] = IF k <= Len(a) THEN a[k] ELSE b[k - Len(a)]
OBVIOUS

-----------------------------------------------------------------------------
(* Friend requests. *)

BondRow  == [from : Pair, status : {"pending", "accepted", "declined", "gone"}]
BondCall == [n : Nat \ {0}, by : Pair, does : Doing, row : Nat]

BondTypes ==
  /\ rows \in Seq(BondRow) /\ Len(rows) <= MaxRows
  /\ bondCalls \subseteq BondCall
  /\ made \in 0 .. MaxBondCalls /\ wish \in [Pair -> BOOLEAN]
  /\ crossed \in BOOLEAN /\ overlapped \in BOOLEAN
  /\ \A c \in bondCalls : /\ c.n <= made
                          /\ c.does # "insert" => c.row \in DOMAIN rows

\* Nobody crossed anybody: one row, one call per person, and each call still
\* finds the row as it was read, or changed by the other person in the one way
\* that leaves the call its meaning.
Asked(c, k) == rows[k].status = "pending" /\ rows[k].from = Other(c.by)
InTurn ==
  /\ \A c, d \in bondCalls : c.by = d.by => c = d
  /\ \A j, k \in Live : j = k
  /\ \A k \in Live : /\ rows[k].status = "pending" => wish[rows[k].from]
                     /\ rows[k].status = "accepted" => wish[1] /\ wish[2]
  /\ \A c \in bondCalls, k \in Live :
       /\ c.does = "insert" => Asked(c, k)
       /\ c.does \in {"accept", "decline"} /\ c.row = k => Asked(c, k)
       /\ c.does = "reopen" /\ c.row = k => Asked(c, k) \/ rows[k].status = "declined"

BondInv == BondTypes /\ (~crossed /\ ~overlapped => InTurn)

LEMMA BondsStart == BondsInit => BondInv
<1> SUFFICES ASSUME BondsInit PROVE BondInv
  OBVIOUS
<1>1. rows \in Seq(BondRow) /\ DOMAIN rows = {} /\ Len(rows) = 0
  BY DEF BondsInit
<1>2. Live = {}
  BY <1>1 DEF Live
<1>3. BondTypes
  <2>1. MaxRows \in Nat /\ 0 \in 0 .. MaxBondCalls
    BY BondBounds
  <2>2. bondCalls = {} /\ made = 0 /\ crossed \in BOOLEAN /\ overlapped \in BOOLEAN
    BY DEF BondsInit
  <2>3. wish \in [Pair -> BOOLEAN]
    BY DEF BondsInit
  <2> QED BY <1>1, <2>1, <2>2, <2>3 DEF BondTypes
<1>4. InTurn
  BY <1>2 DEF BondsInit, InTurn
<1> QED BY <1>3, <1>4 DEF BondInv

LEMMA BondRows ==
    ASSUME BondInv
    PROVE  \A k \in DOMAIN rows : rows[k] \in BondRow /\ rows[k].from \in Pair /\ k \in Nat \ {0}
<1>1. \A k \in DOMAIN rows : rows[k] \in BondRow /\ k \in Nat \ {0}
  BY RowTyped DEF BondInv, BondTypes
<1> QED BY <1>1 DEF BondRow

\* A call is opened: the person had none under way, or overlaps itself.
LEMMA OpensKeeps ==
    ASSUME BondInv, MayAsk, NEW u \in Pair, NEW does \in Doing, NEW k \in Nat,
           Opens(u, does, k),
           does # "insert" => k \in Live,
           does = "insert" => Live = {},
           does \in {"accept", "decline"} =>
               rows[k].status = "pending" /\ rows[k].from = Other(u),
           does = "reopen" => rows[k].status = "declined"
    PROVE  BondInv'
<1> DEFINE new == [n |-> made + 1, by |-> u, does |-> does, row |-> k]
<1>1. /\ bondCalls' = bondCalls \cup {new} /\ made' = made + 1
      /\ overlapped' = (overlapped \/ Busy(u))
      /\ rows' = rows /\ wish' = wish /\ crossed' = crossed
  BY DEF Opens
<1>2. made' \in 0 .. MaxBondCalls /\ new \in BondCall /\ made < made'
  BY <1>1, BondBounds DEF MayAsk, BondInv, BondTypes, BondCall
<1>3. new.by = u /\ new.does = does /\ new.row = k /\ new.n = made'
  BY <1>1
<1> HIDE DEF new
<1>4. BondTypes'
  <2>1. \A c \in bondCalls : c.n \in Nat
    BY DEF BondInv, BondTypes, BondCall
  <2>2. k \in Live => k \in DOMAIN rows
    BY DEF Live
  <2>3. overlapped' \in BOOLEAN
    BY <1>1 DEF BondInv, BondTypes
  <2> QED BY <1>1, <1>2, <1>3, <2>1, <2>2, <2>3 DEF BondInv, BondTypes
<1>5. ASSUME ~crossed', ~overlapped' PROVE InTurn'
  <2>1. InTurn /\ ~Busy(u)
    BY <1>1, <1>5 DEF BondInv
  <2>2. Live' = Live
    BY <1>1 DEF Live
  <2>3. \A c, d \in bondCalls' : c.by = d.by => c = d
    BY <1>1, <1>3, <2>1 DEF InTurn, Busy
  <2>4. \A j \in Live' :
           /\ new.does = "insert" => Asked(new, j)
           /\ new.does \in {"accept", "decline"} /\ new.row = j => Asked(new, j)
           /\ new.does = "reopen" /\ new.row = j
                  => Asked(new, j) \/ rows[j].status = "declined"
    BY <1>3, <2>2 DEF Asked
  <2> QED BY <1>1, <2>1, <2>2, <2>3, <2>4 DEF InTurn, Asked
<1> QED BY <1>4, <1>5 DEF BondInv

LEMMA AsksKeeps ==
    ASSUME BondInv, NEW u \in Pair, AsksFriend(u)
    PROVE  BondInv'
<1>1. ASSUME NEW does \in Doing, NEW k \in Live, Opens(u, does, k), does = "reopen",
             rows[k].status = "declined"
      PROVE  BondInv'
  <2>1. k \in Nat
    BY DEF Live, BondInv, BondTypes
  <2> QED BY <1>1, <2>1, OpensKeeps DEF AsksFriend
<1>2. CASE Live = {} /\ Opens(u, "insert", 0)
  BY <1>2, OpensKeeps DEF AsksFriend, Doing
<1>3. CASE /\ made' = made + 1 /\ wish' = [wish EXCEPT ![u] = TRUE]
           /\ UNCHANGED <<rows, bondCalls, crossed, overlapped>>
  <2>1. MayAsk /\ wish \in [Pair -> BOOLEAN] /\ made \in Nat
    BY DEF AsksFriend, BondInv, BondTypes
  <2>2. made' \in 0 .. MaxBondCalls /\ made < made'
    BY <1>3, <2>1, BondBounds DEF MayAsk, BondInv, BondTypes
  <2>3. \A c \in bondCalls : c.n <= made'
    BY <1>3, <2>1 DEF BondInv, BondTypes, BondCall
  <2>4. wish' \in [Pair -> BOOLEAN] /\ \A v \in Pair : wish[v] => wish'[v]
    BY <1>3, <2>1
  <2>5. BondTypes'
    BY <1>3, <2>2, <2>3, <2>4 DEF BondInv, BondTypes
  <2>6. ASSUME InTurn PROVE InTurn'
    <3>1. \A k \in Live : rows[k].from \in Pair
      BY BondRows DEF Live
    <3> QED BY <1>3, <2>4, <2>6, <3>1 DEF InTurn, Live, Asked, Pair
  <2> QED BY <1>3, <2>5, <2>6 DEF BondInv
<1> QED BY <1>1, <1>2, <1>3 DEF AsksFriend, Doing

LEMMA AnswersKeeps ==
    ASSUME BondInv, NEW u \in Pair, NEW does, Answers(u, does)
    PROVE  BondInv'
<1>1. PICK k \in Live : rows[k].status = "pending" /\ rows[k].from = Other(u) /\ Opens(u, does, k)
  BY DEF Answers
<1>2. k \in Nat /\ MayAsk /\ does \in {"accept", "decline"}
  BY DEF Answers, Live, BondInv, BondTypes
<1> QED BY <1>1, <1>2, OpensKeeps DEF Doing

LEMMA RemovesKeeps ==
    ASSUME BondInv, NEW u \in Pair, Removes(u)
    PROVE  BondInv'
<1>1. PICK k \in Live : rows' = [rows EXCEPT ![k].status = "gone"]
  BY DEF Removes
<1>2. /\ made' = made + 1 /\ wish' = [wish EXCEPT ![u] = FALSE]
      /\ overlapped' = (overlapped \/ Busy(u)) /\ MayAsk
      /\ bondCalls' = bondCalls /\ crossed' = crossed
  BY DEF Removes
<1>3. rows \in Seq(BondRow) /\ k \in DOMAIN rows /\ wish \in [Pair -> BOOLEAN] /\ made \in Nat
  BY DEF BondInv, BondTypes, Live
<1>4. /\ rows' \in Seq(BondRow) /\ Len(rows') = Len(rows) /\ DOMAIN rows' = DOMAIN rows
      /\ rows'[k].status = "gone" /\ \A j \in DOMAIN rows : j # k => rows'[j] = rows[j]
  <2> DEFINE v == [rows[k] EXCEPT !.status = "gone"]
  <2>1. v \in BondRow /\ v.status = "gone"
    BY <1>3, BondRows DEF BondRow
  <2>2. rows' = [rows EXCEPT ![k] = v]
    BY <1>1
  <2> HIDE DEF v, BondRow
  <2> QED BY <1>3, <2>1, <2>2, RowChanged
<1>5. made' \in 0 .. MaxBondCalls /\ \A c \in bondCalls : c.n <= made'
  BY <1>2, <1>3, BondBounds DEF MayAsk, BondInv, BondTypes, BondCall
<1>6. BondTypes'
  <2>1. overlapped' \in BOOLEAN
    BY <1>2 DEF BondInv, BondTypes
  <2> QED BY <1>2, <1>3, <1>4, <1>5, <2>1 DEF BondInv, BondTypes
<1>7. Live' = Live \ {k}
  BY <1>4 DEF Live
<1>8. ASSUME ~crossed', ~overlapped' PROVE InTurn'
  <2>1. InTurn
    BY <1>2, <1>8 DEF BondInv
  <2>2. Live' = {} /\ bondCalls' = bondCalls
    BY <1>2, <1>7, <2>1 DEF InTurn
  <2> QED BY <1>2, <2>1, <2>2 DEF InTurn
<1> QED BY <1>6, <1>8 DEF BondInv

\* The write of a call.
LEMMA WritesKeeps ==
    ASSUME BondInv, NEW c \in bondCalls, Writes(c)
    PROVE  BondInv'
<1> DEFINE to == CASE c.does \in {"insert", "reopen"} -> [from |-> c.by, status |-> "pending"]
                   [] c.does = "accept"  -> [rows[c.row] EXCEPT !.status = "accepted"]
                   [] c.does = "decline" -> [rows[c.row] EXCEPT !.status = "declined"]
<1>1. /\ c.by \in Pair /\ c.does \in Doing /\ c.row \in Nat
      /\ rows \in Seq(BondRow) /\ wish \in [Pair -> BOOLEAN]
      /\ c.does # "insert" => c.row \in DOMAIN rows
  BY DEF BondInv, BondTypes, BondCall
<1>2. /\ bondCalls' = bondCalls \ {c} /\ made' = made /\ overlapped' = overlapped
      /\ crossed' = (crossed \/ (c.does = "insert" /\ Live # {}))
      /\ wish' = IF c.row \in Live \/ rows' # rows
                 THEN [wish EXCEPT ![c.by] = c.does # "decline"] ELSE wish
  BY DEF Writes
<1>3. to \in BondRow /\ to.status # "gone"
  <2>1. c.does # "insert" => rows[c.row] \in BondRow
    BY <1>1, BondRows
  <2> QED BY <1>1, <2>1 DEF BondRow, Doing
<1>4. \/ rows' = rows
      \/ c.does = "insert" /\ Len(rows) < MaxRows /\ rows' = Append(rows, to)
      \/ c.row \in Live /\ c.does # "insert" /\ rows' = [rows EXCEPT ![c.row] = to]
  BY <1>1 DEF Writes, Changed, Doing
<1>5. /\ c.does \in {"insert", "reopen"} => to.status = "pending" /\ to.from = c.by
      /\ c.does = "accept" => to.status = "accepted"
      /\ c.does = "decline" => to.status = "declined"
  <2>1. c.does # "insert" => rows[c.row] \in BondRow
    BY <1>1, BondRows
  <2> QED BY <2>1 DEF BondRow
<1>6. wish' \in [Pair -> BOOLEAN] /\ crossed' \in BOOLEAN
  BY <1>1, <1>2 DEF BondInv, BondTypes
<1> HIDE DEF to
<1>7. CASE rows' = rows
  <2>1. BondTypes'
    BY <1>1, <1>2, <1>6, <1>7 DEF BondInv, BondTypes
  <2>2. Live' = Live
    BY <1>7 DEF Live
  <2>3. ASSUME ~crossed', ~overlapped' PROVE InTurn'
    <3>1. InTurn
      BY <1>2, <2>3 DEF BondInv
    <3>2. c.row \in Live /\ c.does # "insert"
             => Taken(c.by, c.row) \/ rows[c.row] = to
      <4> SUFFICES ASSUME c.row \in Live, c.does # "insert", ~Taken(c.by, c.row)
                   PROVE  rows[c.row] = to
        OBVIOUS
      <4>1. rows' = [rows EXCEPT ![c.row] = to]
        BY <1>1 DEF Writes, Changed, Doing, to
      <4> QED BY <1>1, <1>3, <1>7, <4>1, RowChanged
    <3>3. c.row \in Live /\ c.does # "insert" => ~Taken(c.by, c.row)
      BY <3>1 DEF InTurn, Taken
    <3>4. c.row \in Live /\ c.does # "insert"
             => c.does = "reopen"
      BY <1>1, <1>5, <3>1, <3>2, <3>3 DEF InTurn, Asked, Doing
    <3>5. ~(c.row \in Live /\ c.does = "reopen")
      BY <1>1, <1>5, <3>1, <3>2, <3>3 DEF InTurn, Asked, Other, Pair
    <3>6. ~(c.row \in Live /\ c.does = "insert")
      BY <1>1, <1>2, <2>3
    <3>7. wish' = wish
      BY <1>2, <1>7, <3>4, <3>5, <3>6
    <3> QED BY <1>2, <1>7, <2>2, <3>1, <3>7 DEF InTurn, Asked
  <2> QED BY <2>1, <2>3 DEF BondInv
<1>8. CASE c.does = "insert" /\ Len(rows) < MaxRows /\ rows' = Append(rows, to)
  <2>1. /\ rows' \in Seq(BondRow) /\ Len(rows') = Len(rows) + 1
        /\ DOMAIN rows' = DOMAIN rows \cup {Len(rows')} /\ Len(rows') \notin DOMAIN rows
        /\ rows'[Len(rows')] = to /\ \A j \in DOMAIN rows : rows'[j] = rows[j]
    <3> HIDE DEF BondRow
    <3> QED BY <1>1, <1>3, <1>8, RowAdded
  <2>2. Len(rows') <= MaxRows
    BY <1>1, <1>8, <2>1, BondBounds
  <2>3. BondTypes'
    BY <1>2, <1>6, <2>1, <2>2 DEF BondInv, BondTypes
  <2>4. rows' # rows
    BY <2>1
  <2>5. Live' = Live \cup {Len(rows')}
    BY <1>3, <2>1 DEF Live
  <2>6. ASSUME ~crossed', ~overlapped' PROVE InTurn'
    <3>1. InTurn /\ Live = {}
      BY <1>2, <1>8, <2>6 DEF BondInv
    <3>2. Live' = {Len(rows')} /\ to.status = "pending" /\ to.from = c.by
      BY <1>5, <1>8, <2>5, <3>1
    <3>3. wish'[c.by]
      BY <1>1, <1>2, <1>8, <2>4
    <3>4. ASSUME NEW d \in bondCalls'
          PROVE  /\ c.by = Other(d.by)
                 /\ d.does = "insert" \/ d.row # Len(rows')
      <4>1. d.by \in Pair /\ d.by # c.by /\ (d.does # "insert" => d.row \in DOMAIN rows)
        BY <1>2, <3>1 DEF InTurn, BondInv, BondTypes, BondCall
      <4>2. d.does = "insert" \/ d.row # Len(rows')
        BY <2>1, <4>1
      <4> QED BY <1>1, <4>1, <4>2 DEF Pair, Other
    <3> QED BY <1>2, <2>1, <3>1, <3>2, <3>3, <3>4 DEF InTurn, Asked
  <2> QED BY <2>3, <2>6 DEF BondInv
<1>9. CASE c.row \in Live /\ c.does # "insert" /\ rows' = [rows EXCEPT ![c.row] = to]
  <2> DEFINE k == c.row
  <2>1. /\ rows' \in Seq(BondRow) /\ Len(rows') = Len(rows) /\ DOMAIN rows' = DOMAIN rows
        /\ rows'[k] = to /\ \A j \in DOMAIN rows : j # k => rows'[j] = rows[j]
    <3> HIDE DEF BondRow
    <3> QED BY <1>1, <1>3, <1>9, RowChanged
  <2>2. BondTypes'
    BY <1>2, <1>6, <2>1 DEF BondInv, BondTypes
  <2>3. Live' = Live
    BY <1>1, <1>3, <1>9, <2>1 DEF Live
  <2>4. ASSUME ~crossed', ~overlapped' PROVE InTurn'
    <3>1. InTurn
      BY <1>2, <2>4 DEF BondInv
    <3>2. Live = {k} /\ wish' = [wish EXCEPT ![c.by] = c.does # "decline"]
      BY <1>2, <1>9, <3>1 DEF InTurn
    <3>3. \A d \in bondCalls' : d.by \in Pair /\ d.by # c.by /\ c.by = Other(d.by)
      <4>1. \A d \in bondCalls' : d.by \in Pair /\ d.by # c.by
        BY <1>2, <3>1 DEF InTurn, BondInv, BondTypes, BondCall
      <4> QED BY <1>1, <4>1 DEF Pair, Other
    <3>4. ASSUME NEW d \in bondCalls'
          PROVE  /\ d.does = "insert" => Asked(d, k)
                 /\ d.does \in {"accept", "decline"} /\ d.row = k => Asked(d, k)
                 /\ d.does = "reopen" /\ d.row = k
                        => Asked(d, k) \/ rows[k].status = "declined"
      BY <1>2, <3>1, <3>2 DEF InTurn
    <3>5. ASSUME \A d \in bondCalls' :
                    /\ d.does = "insert" => Asked(d, k)'
                    /\ d.does \in {"accept", "decline"} /\ d.row = k => Asked(d, k)'
                    /\ d.does = "reopen" /\ d.row = k
                           => Asked(d, k)' \/ rows'[k].status = "declined",
                 rows'[k].status = "pending" => wish'[rows'[k].from],
                 rows'[k].status = "accepted" => wish'[1] /\ wish'[2]
          PROVE  InTurn'
      BY <1>2, <2>3, <3>1, <3>2, <3>5 DEF InTurn
    <3>6. CASE c.does = "reopen"
      <4>1. rows'[k].status = "pending" /\ rows'[k].from = c.by /\ wish'[c.by]
        BY <1>1, <1>5, <2>1, <3>2, <3>6
      <4>2. \A d \in bondCalls' : Asked(d, k)'
        BY <3>3, <4>1 DEF Asked
      <4> QED BY <3>5, <4>1, <4>2
    <3>7. CASE c.does \in {"accept", "decline"}
      <4>1. Asked(c, k)
        BY <3>1, <3>2, <3>7 DEF InTurn
      <4>2. wish[Other(c.by)] /\ Other(c.by) # c.by
        BY <1>1, <3>1, <3>2, <4>1 DEF InTurn, Asked, Other, Pair
      <4>3. \A d \in bondCalls' : d.does # "insert" /\ (d.does \in Doing => d.row # k)
        BY <1>1, <3>3, <3>4, <4>1 DEF Asked, Other, Pair, Doing
      <4>4. rows'[k].status \in {"accepted", "declined"}
        BY <1>5, <2>1, <3>7
      <4>5. rows'[k].status = "accepted" => wish'[1] /\ wish'[2]
        BY <1>1, <1>5, <2>1, <3>2, <3>7, <4>2 DEF Other, Pair
      <4>6. \A d \in bondCalls' : d.does \in Doing
        BY <1>2 DEF BondInv, BondTypes, BondCall
      <4> QED BY <3>5, <4>3, <4>4, <4>5, <4>6
    <3> QED BY <1>1, <1>9, <3>6, <3>7 DEF Doing
  <2> QED BY <2>2, <2>4 DEF BondInv
<1> QED BY <1>4, <1>7, <1>8, <1>9

LEMMA BondsStep == BondInv /\ [BondsNext]_bondVars => BondInv'
<1>1. ASSUME BondInv, UNCHANGED bondVars PROVE BondInv'
  BY <1>1 DEF bondVars, BondInv, BondTypes, InTurn, Live, Asked
<1> QED BY <1>1, AsksKeeps, AnswersKeeps, RemovesKeeps, WritesKeeps DEF BondsNext

LEMMA BondsMeaning == BondInv => BondsTypeOK /\ BothWishIt
<1> SUFFICES ASSUME BondInv PROVE BondsTypeOK /\ BothWishIt
  OBVIOUS
<1>1. \A k \in DOMAIN rows : /\ rows[k].from \in Pair
                             /\ rows[k].status \in {"pending", "accepted", "declined", "gone"}
  BY BondRows DEF BondRow
<1>2. \A c \in bondCalls : c.by \in Pair /\ c.does \in Doing /\ c.n \in 1 .. made
  BY DEF BondInv, BondTypes, BondCall
<1>3. BondsTypeOK
  BY <1>1, <1>2 DEF BondInv, BondTypes, BondsTypeOK
<1>4. BothWishIt
  BY DEF BondInv, InTurn, BothWishIt
<1> QED BY <1>3, <1>4

-----------------------------------------------------------------------------
(* The games of a group. *)

SeatStages == {"first", "rowid", "seat", "count", "back", "code", "token", "row", "sweep", "done"}
SeatCall == [op : Ops \cup {"none"}, who : Players \cup {0}, game : Nat, code : Nat, at : SeatStages]
CodeRow  == [id : Nat, game : Nat, who : Players, used : BOOLEAN]
TokenRow == [call : Nat, game : Nat, who : Players, code : Nat]

SeatTypes ==
  /\ status \in Seq({"active", "ended"}) /\ status # << >>
  /\ seats \in Seq(SUBSET Players) /\ Len(seats) = Len(status)
  /\ calls \in Seq(SeatCall)
  /\ \A i \in DOMAIN calls : /\ calls[i].game \in Games
                             /\ calls[i] = Answer \/ (calls[i].op \in Ops /\ calls[i].who \in Players)
                             /\ calls[i].at = "done" => calls[i] = Answer
  /\ codes \subseteq CodeRow /\ tokens \subseteq TokenRow
  /\ \A c \in codes : c.game \in Games /\ c.id \in DOMAIN calls /\ calls[c.id] = Answer
  /\ \A t \in tokens : {t.call, t.code} \subseteq DOMAIN calls /\ t.game \in Games
  /\ lastRow \in 0 .. Len(status) /\ crowded \subseteq Games /\ astray \subseteq Games

\* Those who sat down and are not counted yet, or are about to stand up again.
OnTrial(g) ==
  {calls[i].who : i \in {j \in DOMAIN calls :
      calls[j].op = "join" /\ calls[j].at \in {"count", "back"} /\ calls[j].game = g}}

SeatsCounted == \A g \in Games \ astray : Cardinality(seats[g] \ OnTrial(g)) <= MaxPlayers

\* Somebody is about to sit down in g, or to end it.
Cared(i, g) ==
  /\ calls[i].game = g
  /\ \/ calls[i].op = "launch" /\ calls[i].at \in {"rowid", "seat"}
     \/ calls[i].op = "leave" /\ calls[i].at \in {"count", "row"}

GamesCared ==
  \A g \in Active \ (crowded \cup astray) :
    seats[g] # {} \/ \E i \in DOMAIN calls : Cared(i, g)

\* Those who are told to stand up found their game over its limit.
ToldToLeave == \A i \in DOMAIN calls : calls[i].at = "back" => calls[i].game \in crowded

\* The calls that were told a code is unused.
Buying(k) == {i \in DOMAIN calls : calls[i].op = "exchange" /\ calls[i].code = k}
Spent(k) == \A c \in codes : c.id = k => c.used

CodesSpent ==
  /\ \A t \in tokens : Spent(t.code) /\ calls[t.code] = Answer
  /\ \A i \in DOMAIN calls :
       IF calls[i].op = "exchange"
       THEN /\ calls[i].code \in DOMAIN calls /\ calls[calls[i].code] = Answer
            /\ calls[i].at \in {"first", "token"}
            /\ calls[i].at = "token" => Spent(calls[i].code)
       ELSE calls[i].code = 0
  /\ \A k \in DOMAIN calls \ twice :
       /\ \A i, j \in Buying(k) : i = j
       /\ \A s, t \in tokens : s.code = k /\ t.code = k => s = t
       /\ Buying(k) # {} => \A t \in tokens : t.code # k

SeatsInv == SeatTypes /\ SeatsCounted /\ GamesCared /\ ToldToLeave /\ CodesSpent

LEMMA SeatRows ==
    ASSUME SeatTypes
    PROVE  /\ DOMAIN status = Games /\ DOMAIN seats = Games /\ Games = 1 .. Len(status)
           /\ Len(status) \in Nat \ {0} /\ 1 \in Games /\ Len(calls) \in Nat
           /\ DOMAIN calls = 1 .. Len(calls)
           /\ \A g \in Games : status[g] \in {"active", "ended"} /\ seats[g] \subseteq Players
           /\ \A i \in DOMAIN calls : calls[i] \in SeatCall
<1>1. \A g \in DOMAIN seats : seats[g] \in SUBSET Players
  BY RowTyped DEF SeatTypes
<1>2. \A i \in DOMAIN calls : calls[i] \in SeatCall
  BY RowTyped DEF SeatTypes
<1>3. DOMAIN status = 1 .. Len(status) /\ Len(status) \in Nat /\ Len(status) # 0
  BY DEF SeatTypes
<1>4. /\ DOMAIN seats = 1 .. Len(seats) /\ DOMAIN calls = 1 .. Len(calls)
      /\ Len(calls) \in Nat
  BY RowTyped DEF SeatTypes
<1>5. \A g \in Games : status[g] \in {"active", "ended"}
  BY RowTyped DEF SeatTypes, Games
<1> QED BY <1>1, <1>2, <1>3, <1>4, <1>5 DEF SeatTypes, Games

\* Request i goes on to a stage, and to game g.
WentTo(i, at, g) ==
  /\ calls' \in Seq(SeatCall) /\ DOMAIN calls' = DOMAIN calls
  /\ \A j \in DOMAIN calls : j # i => calls'[j] = calls[j]
  /\ IF at = "done" THEN calls'[i] = Answer
     ELSE /\ calls'[i].op = calls[i].op /\ calls'[i].who = calls[i].who
          /\ calls'[i].code = calls[i].code /\ calls'[i].game = g /\ calls'[i].at = at

LEMMA Went ==
    ASSUME SeatTypes, NEW i \in DOMAIN calls, NEW at \in SeatStages, NEW g \in Nat,
           calls' = [calls EXCEPT ![i] =
              IF at = "done" THEN Answer ELSE [calls[i] EXCEPT !.at = at, !.game = g]]
    PROVE  WentTo(i, at, g)
<1> DEFINE v == IF at = "done" THEN Answer ELSE [calls[i] EXCEPT !.at = at, !.game = g]
<1>1. calls[i] \in SeatCall
  BY SeatRows
<1>2. /\ v \in SeatCall
      /\ at = "done" => v = Answer
      /\ at # "done" => /\ v.op = calls[i].op /\ v.who = calls[i].who
                        /\ v.code = calls[i].code /\ v.game = g /\ v.at = at
  BY <1>1 DEF SeatCall, Answer, SeatStages
<1>3. calls' = [calls EXCEPT ![i] = v] /\ calls \in Seq(SeatCall)
  BY DEF SeatTypes
<1> HIDE DEF v
<1>4. /\ calls' \in Seq(SeatCall) /\ DOMAIN calls' = DOMAIN calls
      /\ calls'[i] = v /\ \A j \in DOMAIN calls : j # i => calls'[j] = calls[j]
  <2> HIDE DEF SeatCall
  <2> QED BY <1>2, <1>3, RowChanged
<1> QED BY <1>2, <1>4 DEF WentTo

LEMMA GoneTo ==
    ASSUME SeatTypes, NEW i \in DOMAIN calls, NEW at \in SeatStages, GoTo(i, at)
    PROVE  WentTo(i, at, calls[i].game)
<1>1. calls[i] \in SeatCall /\ calls[i].game \in Nat
  BY SeatRows DEF SeatCall
<1>2. [calls[i] EXCEPT !.at = at] = [calls[i] EXCEPT !.at = at, !.game = calls[i].game]
  BY <1>1 DEF SeatCall
<1>3. calls' = [calls EXCEPT ![i] = IF at = "done" THEN Answer
                   ELSE [calls[i] EXCEPT !.at = at, !.game = calls[i].game]]
  BY <1>2 DEF GoTo
<1> QED BY <1>1, <1>3, Went

LEMMA Launched ==
    ASSUME SeatTypes, NEW i
    PROVE  /\ LaunchRow(i) => WentTo(i, "rowid", Len(status) + 1)
           /\ LaunchId(i) => IF lastRow = 0 THEN WentTo(i, "done", 1)
                             ELSE WentTo(i, "seat", lastRow)
<1>1. ASSUME LaunchRow(i) PROVE WentTo(i, "rowid", Len(status) + 1)
  <2>1. i \in DOMAIN calls /\ Len(status) + 1 \in Nat
    BY <1>1, SeatRows DEF LaunchRow, Stage
  <2>2. calls' = [calls EXCEPT ![i] = IF "rowid" = "done" THEN Answer
                     ELSE [calls[i] EXCEPT !.at = "rowid", !.game = Len(status) + 1]]
    BY <1>1, <2>1 DEF LaunchRow
  <2> QED BY <2>1, <2>2, Went DEF SeatStages
<1>2. ASSUME LaunchId(i)
      PROVE  IF lastRow = 0 THEN WentTo(i, "done", 1) ELSE WentTo(i, "seat", lastRow)
  <2>1. i \in DOMAIN calls /\ lastRow \in Nat
    BY <1>2, SeatRows DEF LaunchId, Stage, SeatTypes
  <2>2. CASE lastRow = 0
    <3>1. calls' = [calls EXCEPT ![i] = IF "done" = "done" THEN Answer
                       ELSE [calls[i] EXCEPT !.at = "done", !.game = 1]]
      BY <1>2, <2>1, <2>2 DEF LaunchId
    <3> QED BY <2>1, <2>2, <3>1, Went DEF SeatStages
  <2>3. CASE lastRow # 0
    <3>1. calls' = [calls EXCEPT ![i] = IF "seat" = "done" THEN Answer
                       ELSE [calls[i] EXCEPT !.at = "seat", !.game = lastRow]]
      BY <1>2, <2>1, <2>3 DEF LaunchId
    <3> QED BY <2>1, <2>3, <3>1, Went DEF SeatStages
  <2> QED BY <2>2, <2>3
<1> QED BY <1>1, <1>2

\* Where each step takes its request.
LEMMA SeatMoves ==
    ASSUME SeatTypes, NEW i \in DOMAIN calls, SeatStep(i)
    PROVE  /\ calls[i] # Answer
           /\ \E at \in SeatStages, g \in DOMAIN status' : WentTo(i, at, g)
<1>1. calls[i] # Answer
  <2>1. calls[i].at # "done"
    BY DEF SeatStep, Stage, LaunchRow, LaunchId, LaunchSeat, JoinSeat, JoinCount,
           JoinBack, JoinCode, ExchangeMark, ExchangeToken, LeaveTokens, LeaveSeat,
           LeaveCount, EndRow, EndSweep
  <2> QED BY <2>1 DEF Answer
<1>2. calls[i].game \in Games /\ lastRow \in 0 .. Len(status)
  BY DEF SeatTypes
<1>3. CASE LaunchRow(i)
  <2>1. Len(status) + 1 \in DOMAIN status'
    BY <1>3 DEF LaunchRow, SeatTypes
  <2> QED BY <1>1, <1>3, <2>1, Launched DEF SeatStages
<1>4. CASE LaunchId(i)
  <2>1. status' = status /\ 1 \in Games /\ (lastRow # 0 => lastRow \in Games)
    BY <1>2, <1>4, SeatRows DEF LaunchId
  <2> QED BY <1>1, <1>4, <2>1, Launched DEF SeatStages, Games
<1>5. CASE \E at \in SeatStages : GoTo(i, at) /\ DOMAIN status' = DOMAIN status
  BY <1>1, <1>2, <1>5, GoneTo DEF Games
<1>6. CASE EndRow(i)
  <2>1. DOMAIN status' = DOMAIN status
    BY <1>6 DEF EndRow
  <2> QED BY <1>5, <1>6, <2>1 DEF EndRow, SeatStages
<1> QED BY <1>3, <1>4, <1>5, <1>6
        DEF SeatStep, SeatStages, LaunchSeat, JoinSeat, JoinCount, JoinBack, JoinCode,
            ExchangeMark, ExchangeToken, LeaveTokens, LeaveSeat, LeaveCount, EndSweep

\* A request that was answered stays answered.
LEMMA AnswersStay ==
    ASSUME SeatTypes, NEW i \in DOMAIN calls, calls[i] # Answer, NEW at, NEW g,
           WentTo(i, at, g)
    PROVE  \A j \in DOMAIN calls : calls[j] = Answer => calls'[j] = Answer
BY DEF WentTo

LEMMA SeatCallsTyped ==
    ASSUME SeatTypes, NEW i \in DOMAIN calls, SeatStep(i),
           \A g \in Games : g \in DOMAIN status', 1 \in DOMAIN status'
    PROVE  /\ calls' \in Seq(SeatCall) /\ DOMAIN calls' = DOMAIN calls
           /\ \A j \in DOMAIN calls : calls[j] = Answer => calls'[j] = Answer
           /\ \A j \in DOMAIN calls :
                  /\ calls'[j].game \in DOMAIN status'
                  /\ calls'[j] = Answer \/ (calls'[j].op \in Ops /\ calls'[j].who \in Players)
                  /\ calls'[j].at = "done" => calls'[j] = Answer
<1>1. PICK at \in SeatStages, g \in DOMAIN status' : WentTo(i, at, g)
  BY SeatMoves
<1>2. calls[i] # Answer
  BY SeatMoves
<1>3. \A j \in DOMAIN calls : calls[j] = Answer => calls'[j] = Answer
  BY <1>1, <1>2, AnswersStay
<1>4. \A j \in DOMAIN calls : j # i =>
         /\ calls'[j].game \in DOMAIN status'
         /\ calls'[j] = Answer \/ (calls'[j].op \in Ops /\ calls'[j].who \in Players)
         /\ calls'[j].at = "done" => calls'[j] = Answer
  BY <1>1 DEF WentTo, SeatTypes
<1>5. CASE at = "done"
  <2>1. calls'[i] = Answer /\ calls'[i].game = 1
    BY <1>1, <1>5 DEF WentTo, Answer
  <2> QED BY <1>1, <1>3, <1>4, <2>1 DEF WentTo
<1>6. CASE at # "done"
  <2>1. /\ calls'[i].op = calls[i].op /\ calls'[i].who = calls[i].who
        /\ calls'[i].game = g /\ calls'[i].at = at
    BY <1>1, <1>6 DEF WentTo
  <2> QED BY <1>1, <1>2, <1>3, <1>4, <1>6, <2>1 DEF WentTo, SeatTypes
<1> QED BY <1>5, <1>6

LEMMA SeatStepTypes ==
    ASSUME SeatTypes, CodesSpent, NEW i \in DOMAIN calls, SeatStep(i)
    PROVE  SeatTypes'
<1> DEFINE game == calls[i].game
           who  == calls[i].who
<1>1. /\ game \in Games /\ DOMAIN status = Games /\ DOMAIN seats = Games /\ 1 \in Games
      /\ calls[i] # Answer /\ who \in Players
      /\ lastRow \in 0 .. Len(status) /\ crowded \subseteq Games /\ astray \subseteq Games
  BY SeatRows, SeatMoves DEF SeatTypes
<1>2. /\ status \in Seq({"active", "ended"}) /\ seats \in Seq(SUBSET Players)
      /\ Len(seats) = Len(status) /\ Games = 1 .. Len(status) /\ status # << >>
  BY SeatRows DEF SeatTypes
\* the tables of games
<1>3. /\ status' \in Seq({"active", "ended"}) /\ status' # << >>
      /\ seats' \in Seq(SUBSET Players) /\ Len(seats') = Len(status')
      /\ DOMAIN status' = 1 .. Len(status') /\ Len(status) <= Len(status')
  <2>1. CASE LaunchRow(i)
    <3>1. status' = Append(status, "active") /\ seats' = Append(seats, {})
      BY <2>1 DEF LaunchRow
    <3> QED BY <1>2, <3>1
  <2>2. CASE EndRow(i)
    <3>1. status' = [status EXCEPT ![game] = "ended"] /\ seats' = seats
      BY <2>2 DEF EndRow
    <3> QED BY <1>1, <1>2, <3>1
  <2>3. CASE UNCHANGED status /\ UNCHANGED seats
    BY <1>1, <1>2, <2>3
  <2>4. CASE /\ UNCHANGED status
             /\ \E s \in {seats[game] \cup {who}, seats[game] \ {who}} :
                   seats' = [seats EXCEPT ![game] = s]
    <3>1. PICK s \in {seats[game] \cup {who}, seats[game] \ {who}} :
             seats' = [seats EXCEPT ![game] = s]
      BY <2>4
    <3>2. s \in SUBSET Players
      BY <1>1, SeatRows
    <3> HIDE DEF game
    <3>3. seats' \in Seq(SUBSET Players) /\ Len(seats') = Len(seats)
      BY <1>1, <1>2, <3>1, <3>2, RowChanged
    <3> QED BY <1>1, <1>2, <2>4, <3>3
  <2> QED BY <2>1, <2>2, <2>3, <2>4
          DEF SeatStep, LaunchId, LaunchSeat, JoinSeat, JoinCount, JoinBack, JoinCode,
              ExchangeMark, ExchangeToken, LeaveTokens, LeaveSeat, LeaveCount, EndSweep
<1>4. Games \subseteq DOMAIN status' /\ 1 \in DOMAIN status'
  BY <1>1, <1>2, <1>3
<1>5. /\ calls' \in Seq(SeatCall) /\ DOMAIN calls' = DOMAIN calls
      /\ \A j \in DOMAIN calls : calls[j] = Answer => calls'[j] = Answer
      /\ \A j \in DOMAIN calls :
             /\ calls'[j].game \in DOMAIN status'
             /\ calls'[j] = Answer \/ (calls'[j].op \in Ops /\ calls'[j].who \in Players)
             /\ calls'[j].at = "done" => calls'[j] = Answer
  BY <1>4, SeatCallsTyped
\* the codes and tokens
<1>6. /\ codes' \subseteq CodeRow
      /\ \A c \in codes' : c.game \in Games /\ c.id \in DOMAIN calls /\ calls'[c.id] = Answer
  <2>1. CASE codes' \subseteq codes
    BY <1>5, <2>1 DEF SeatTypes
  <2>2. CASE JoinCode(i)
    <3> DEFINE new == [id |-> i, game |-> game, who |-> who, used |-> FALSE]
    <3>1. codes' = codes \cup {new}
      BY <2>2 DEF JoinCode
    <3>2. calls'[i] = Answer
      BY <2>2, GoneTo DEF JoinCode, WentTo, SeatStages
    <3>3. new \in CodeRow /\ new.game = game /\ new.id = i
      BY <1>1, <1>2, SeatRows DEF CodeRow
    <3> HIDE DEF new
    <3> QED BY <1>1, <1>5, <3>1, <3>2, <3>3 DEF SeatTypes
  <2>3. CASE ExchangeMark(i)
    <3>1. codes' = {IF c.id = calls[i].code THEN [c EXCEPT !.used = TRUE] ELSE c : c \in codes}
      BY <2>3 DEF ExchangeMark
    <3>2. \A c \in CodeRow : /\ [c EXCEPT !.used = TRUE] \in CodeRow
                             /\ [c EXCEPT !.used = TRUE].id = c.id
                             /\ [c EXCEPT !.used = TRUE].game = c.game
      BY DEF CodeRow
    <3>3. codes \subseteq CodeRow
      BY DEF SeatTypes
    <3>4. ASSUME NEW c \in codes'
          PROVE  \E d \in codes : c \in CodeRow /\ c.id = d.id /\ c.game = d.game
      <4>1. PICK d \in codes : c = IF d.id = calls[i].code THEN [d EXCEPT !.used = TRUE] ELSE d
        BY <3>1
      <4> QED BY <3>2, <3>3, <4>1
    <3> QED BY ZenonT(40), <1>5, <3>4 DEF SeatTypes
  <2> QED BY <2>1, <2>2, <2>3
          DEF SeatStep, LaunchRow, LaunchId, LaunchSeat, JoinSeat, JoinCount, JoinBack,
              ExchangeToken, LeaveTokens, LeaveSeat, LeaveCount, EndRow, EndSweep, DropCodes
<1>7. /\ tokens' \subseteq TokenRow
      /\ \A t \in tokens' : {t.call, t.code} \subseteq DOMAIN calls /\ t.game \in Games
  <2>1. CASE tokens' \subseteq tokens
    BY <2>1 DEF SeatTypes
  <2>2. CASE ExchangeToken(i)
    <3> DEFINE new == [call |-> i, game |-> game, who |-> who, code |-> calls[i].code]
    <3>1. tokens' = tokens \cup {new}
      BY <2>2 DEF ExchangeToken
    <3>2. calls[i].code \in DOMAIN calls
      BY <2>2 DEF ExchangeToken, Stage, CodesSpent
    <3>3. /\ new \in TokenRow /\ new.call = i /\ new.code = calls[i].code
          /\ new.game = game
      BY <1>1, <1>2, <3>2, SeatRows DEF TokenRow
    <3> HIDE DEF new
    <3> QED BY <1>1, <3>1, <3>2, <3>3 DEF SeatTypes
  <2> QED BY <2>1, <2>2
          DEF SeatStep, LaunchRow, LaunchId, LaunchSeat, JoinSeat, JoinCount, JoinBack, JoinCode,
              ExchangeMark, LeaveTokens, LeaveSeat, LeaveCount, EndRow, EndSweep, Drop
<1>8. /\ lastRow' \in 0 .. Len(status') /\ crowded' \subseteq DOMAIN status'
      /\ astray' \subseteq DOMAIN status'
  <2>1. lastRow' \in 0 .. Len(status')
    <3>1. CASE LaunchRow(i)
      BY <1>2, <1>3, <3>1 DEF LaunchRow
    <3>2. CASE UNCHANGED lastRow
      BY <1>1, <1>2, <1>3, <3>2
    <3> QED BY <3>1, <3>2
            DEF SeatStep, LaunchId, LaunchSeat, JoinSeat, JoinCount, JoinBack, JoinCode,
                ExchangeMark, ExchangeToken, LeaveTokens, LeaveSeat, LeaveCount, EndRow, EndSweep
  <2>2. crowded' \subseteq crowded \cup {game} /\ astray' \subseteq astray \cup ({game, lastRow} \ {0})
    <3>1. game # 0
      BY <1>1, <1>2
    <3>2. 0 \notin astray
      BY <1>1, <1>2
    <3> QED BY <3>1, <3>2
        DEF SeatStep, LaunchRow, LaunchId, LaunchSeat, JoinSeat, JoinCount, JoinBack, JoinCode,
            ExchangeMark, ExchangeToken, LeaveTokens, LeaveSeat, LeaveCount, EndRow, EndSweep
  <2>3. lastRow # 0 => lastRow \in Games
    BY <1>1, <1>2
  <2> QED BY <1>1, <1>4, <2>1, <2>2, <2>3
<1>9. Games' = DOMAIN status' /\ DOMAIN calls' = DOMAIN calls
  BY <1>5 DEF Games
<1>10. \A j \in DOMAIN calls' :
          /\ calls'[j].game \in Games'
          /\ calls'[j] = Answer \/ (calls'[j].op \in Ops /\ calls'[j].who \in Players)
          /\ calls'[j].at = "done" => calls'[j] = Answer
  BY ONLY <1>5, <1>9
<1>11. /\ \A c \in codes' : c.game \in Games' /\ c.id \in DOMAIN calls' /\ calls'[c.id] = Answer
       /\ \A t \in tokens' : {t.call, t.code} \subseteq DOMAIN calls' /\ t.game \in Games'
  BY <1>4, <1>6, <1>7, <1>9
<1> HIDE DEF game, who
<1> QED BY <1>3, <1>5, <1>6, <1>7, <1>8, <1>9, <1>10, <1>11 DEF SeatTypes

\* A new request.
LEMMA SeatAsked ==
    ASSUME SeatTypes, NEW op \in Ops, NEW who \in Players, NEW g \in Games,
           NEW code \in 0 .. Len(calls), Call(op, who, g, code)
    PROVE  LET n == Len(calls) + 1
           IN  /\ calls' \in Seq(SeatCall) /\ DOMAIN calls' = DOMAIN calls \cup {n}
               /\ n \notin DOMAIN calls /\ n \in Nat
               /\ \A j \in DOMAIN calls : calls'[j] = calls[j]
               /\ calls'[n].op = op /\ calls'[n].who = who /\ calls'[n].game = g
               /\ calls'[n].code = code /\ calls'[n].at = "first"
               /\ IF op = "exchange" THEN code \in DOMAIN calls /\ calls[code] = Answer
                  ELSE code = 0
<1> DEFINE v == [op |-> op, who |-> who, game |-> g, code |-> code, at |-> "first"]
<1>1. v \in SeatCall
  BY SeatRows DEF SeatCall, SeatStages
<1>2. v.op = op /\ v.who = who /\ v.game = g /\ v.code = code /\ v.at = "first"
  OBVIOUS
<1>3. calls \in Seq(SeatCall) /\ calls' = Append(calls, v)
  BY DEF SeatTypes, Call
<1>4. Len(calls') = Len(calls) + 1 /\ Len(calls) \in Nat
  <2> HIDE DEF v
  <2> QED BY <1>1, <1>3, RowAdded, RowTyped
<1>5. IF op = "exchange" THEN code \in DOMAIN calls /\ calls[code] = Answer ELSE code = 0
  BY DEF Call, SeatTypes
<1> HIDE DEF v
<1> QED BY <1>1, <1>2, <1>3, <1>4, <1>5, RowAdded

LEMMA SeatCallTypes ==
    ASSUME SeatTypes, NEW op \in Ops, NEW who \in Players, NEW g \in Games,
           NEW code \in 0 .. Len(calls), Call(op, who, g, code)
    PROVE  SeatTypes'
<1>1. /\ UNCHANGED <<status, seats, codes, tokens, lastRow, crowded, astray>> /\ Games' = Games
  BY DEF Call, Games
<1> DEFINE n == Len(calls) + 1
<1>2. /\ calls' \in Seq(SeatCall) /\ DOMAIN calls' = DOMAIN calls \cup {n}
      /\ \A j \in DOMAIN calls : calls'[j] = calls[j]
      /\ calls'[n].op = op /\ calls'[n].who = who /\ calls'[n].game = g
      /\ calls'[n].at = "first"
  BY SeatAsked
<1> HIDE DEF n
<1>3. \A j \in DOMAIN calls' :
          /\ calls'[j].game \in Games'
          /\ calls'[j] = Answer \/ (calls'[j].op \in Ops /\ calls'[j].who \in Players)
          /\ calls'[j].at = "done" => calls'[j] = Answer
  BY <1>1, <1>2 DEF SeatTypes
<1>4. /\ \A c \in codes' : c.game \in Games' /\ c.id \in DOMAIN calls' /\ calls'[c.id] = Answer
      /\ \A t \in tokens' : {t.call, t.code} \subseteq DOMAIN calls' /\ t.game \in Games'
  BY <1>1, <1>2 DEF SeatTypes
<1> QED BY <1>1, <1>2, <1>3, <1>4 DEF SeatTypes

LEMMA SeatsNextTypes ==
    ASSUME SeatTypes, CodesSpent, [SeatsNext]_seatsVars
    PROVE  SeatTypes'
<1>1. CASE UNCHANGED seatsVars
  BY <1>1 DEF seatsVars, SeatTypes, Games
<1>2. CASE InsertElsewhere
  BY <1>2 DEF InsertElsewhere, SeatTypes, Games
<1> QED BY <1>1, <1>2, SeatCallTypes, SeatStepTypes DEF SeatsNext

LEMMA SeatsStart == SeatsInit => SeatsInv
<1> SUFFICES ASSUME SeatsInit PROVE SeatsInv
  OBVIOUS
<1>1. /\ status = <<"active">> /\ seats = <<Seated0>> /\ calls = << >> /\ lastRow = 1
      /\ codes = {} /\ tokens = {} /\ crowded = {} /\ astray = {} /\ twice = {}
  BY DEF SeatsInit
<1>2. Games = {1} /\ DOMAIN calls = {} /\ Len(status) = 1 /\ seats[1] = Seated0
  BY <1>1 DEF Games
<1>3. SeatTypes
  <2>1. calls \in Seq(SeatCall)
    BY <1>1
  <2>2. seats \in Seq(SUBSET Players) /\ status \in Seq({"active", "ended"}) /\ status # << >>
    BY <1>1, SeatBounds
  <2> QED BY <1>1, <1>2, <2>1, <2>2 DEF SeatTypes
<1>4. SeatsCounted
  <2>1. OnTrial(1) = {}
    BY <1>2 DEF OnTrial
  <2>2. seats[1] \ OnTrial(1) = Seated0
    BY <1>2, <2>1
  <2> QED BY <1>2, <2>2, SeatBounds DEF SeatsCounted
<1>5. GamesCared
  BY <1>2, SeatBounds DEF GamesCared, Active
<1>6. CodesSpent /\ ToldToLeave
  BY <1>1, <1>2 DEF CodesSpent, ToldToLeave
<1> QED BY <1>3, <1>4, <1>5, <1>6 DEF SeatsInv

\* A subset of few players has few players.
LEMMA FewPlayers ==
    ASSUME NEW T, T \subseteq Players, Cardinality(T) <= MaxPlayers, NEW S \in SUBSET T
    PROVE  Cardinality(S) <= MaxPlayers
<1>1. IsFiniteSet(T)
  BY SeatBounds, FS_Subset
<1>2. Cardinality(S) <= Cardinality(T) /\ Cardinality(S) \in Nat /\ Cardinality(T) \in Nat
  BY <1>1, FS_Subset, FS_CardinalityType
<1> QED BY <1>2, SeatBounds

\* A step of one request takes nobody else off trial.
LEMMA TrialKept ==
    ASSUME SeatTypes, NEW i \in DOMAIN calls, NEW at, NEW to, WentTo(i, at, to),
           NEW g, NEW p \in OnTrial(g),
           \/ calls[i].op # "join" \/ calls[i].at \notin {"count", "back"}
           \/ calls[i].who # p
           \/ at = "back" /\ to = calls[i].game
    PROVE  p \in OnTrial(g)'
<1>1. PICK j \in DOMAIN calls : /\ calls[j].op = "join" /\ calls[j].at \in {"count", "back"}
                                /\ calls[j].game = g /\ calls[j].who = p
  BY DEF OnTrial
<1>2. /\ j \in DOMAIN calls' /\ calls'[j].op = "join" /\ calls'[j].at \in {"count", "back"}
      /\ calls'[j].game = g /\ calls'[j].who = p
  BY <1>1 DEF WentTo
<1> QED BY <1>2 DEF OnTrial

LEMMA SeatStepCounted ==
    ASSUME SeatTypes, SeatsCounted, NEW i \in DOMAIN calls, SeatStep(i)
    PROVE  SeatsCounted'
<1> SUFFICES ASSUME NEW g \in DOMAIN status', g \notin astray'
             PROVE  Cardinality(seats'[g] \ OnTrial(g)') <= MaxPlayers
  BY DEF SeatsCounted, Games
<1>1. /\ DOMAIN status = Games /\ DOMAIN seats = Games /\ Games = 1 .. Len(status)
      /\ Len(status) \in Nat /\ Len(seats) = Len(status)
      /\ calls[i].game \in Games /\ \A h \in Games : seats[h] \subseteq Players
  BY SeatRows DEF SeatTypes
<1>2. g \notin astray
  BY DEF SeatStep, LaunchRow, LaunchId, LaunchSeat, JoinSeat, JoinCount, JoinBack,
         JoinCode, ExchangeMark, ExchangeToken, LeaveTokens, LeaveSeat, LeaveCount,
         EndRow, EndSweep
<1>3. ASSUME g \in Games, seats'[g] \ OnTrial(g)' \subseteq seats[g] \ OnTrial(g)
      PROVE  Cardinality(seats'[g] \ OnTrial(g)') <= MaxPlayers
  <2>1. /\ Cardinality(seats[g] \ OnTrial(g)) <= MaxPlayers
        /\ seats[g] \ OnTrial(g) \subseteq Players
    BY <1>1, <1>2, <1>3 DEF SeatsCounted
  <2> QED BY <1>3, <2>1, FewPlayers
<1>4. CASE LaunchRow(i)
  <2>1. seats' = Append(seats, {}) /\ Len(status') = Len(status) + 1
    BY <1>4 DEF LaunchRow, SeatTypes
  <2>2. CASE g \in Games
    <3>1. seats'[g] = seats[g]
      BY <1>1, <2>1, <2>2 DEF SeatTypes
    <3>2. \A p \in OnTrial(g) : p \in OnTrial(g)'
      BY <1>4, Launched, TrialKept DEF LaunchRow, Stage
    <3> QED BY <1>3, <2>2, <3>1, <3>2
  <2>3. CASE g \notin Games
    <3>1. g = Len(seats) + 1
      BY <1>1, <1>4, <2>1, <2>3 DEF LaunchRow, SeatTypes
    <3>2. seats'[g] = {}
      BY <2>1, <3>1 DEF SeatTypes
    <3> QED BY <3>2, FewPlayers, FS_EmptySet, SeatBounds
  <2> QED BY <2>2, <2>3
<1>5. ASSUME DOMAIN status' = DOMAIN status, UNCHANGED seats, \A p \in OnTrial(g) : p \in OnTrial(g)'
      PROVE  Cardinality(seats'[g] \ OnTrial(g)') <= MaxPlayers
  BY <1>1, <1>3, <1>5
<1>6. CASE LaunchId(i)
  <2>1. \A p \in OnTrial(g) : p \in OnTrial(g)'
    BY <1>6, Launched, TrialKept DEF LaunchId, Stage
  <2> QED BY <1>5, <1>6, <2>1 DEF LaunchId
<1>7. ASSUME NEW at \in SeatStages, GoTo(i, at)
      PROVE  /\ WentTo(i, at, calls[i].game)
             /\ \A p \in OnTrial(g) :
                   \/ calls[i].op # "join" \/ calls[i].at \notin {"count", "back"}
                   \/ calls[i].who # p \/ at = "back"
                   => p \in OnTrial(g)'
  BY <1>7, GoneTo, TrialKept
<1>8. CASE LaunchSeat(i)
  <2>1. \A p \in OnTrial(g) : p \in OnTrial(g)'
    BY <1>7, <1>8 DEF LaunchSeat, Stage, SeatStages
  <2>2. seats' = [seats EXCEPT ![calls[i].game] = @ \cup {calls[i].who}] /\ status' = status
    BY <1>8 DEF LaunchSeat
  <2>3. CASE g # calls[i].game
    BY <1>1, <1>3, <2>1, <2>2, <2>3
  <2>4. CASE g = calls[i].game
    <3>1. seats[g] = {}
      BY <1>8, <2>4 DEF LaunchSeat, Plays
    <3>2. seats'[g] = {calls[i].who}
      BY <1>1, <2>2, <2>4, <3>1
    <3>3. Cardinality({calls[i].who}) = 1 /\ {calls[i].who} \subseteq Players
      <4>1. seats' [g] \subseteq Players
        BY <1>8, SeatRows, <3>2 DEF SeatTypes, LaunchSeat, Stage, Answer
      <4> QED BY <3>2, <4>1, FS_Singleton
    <3> QED BY <3>2, <3>3, FewPlayers, SeatBounds
  <2> QED BY <2>3, <2>4
<1>9. CASE JoinSeat(i)
  <2>1. \A p \in OnTrial(g) : p \in OnTrial(g)'
    BY <1>7, <1>9 DEF JoinSeat, Stage, SeatStages
  <2>2. seats' = [seats EXCEPT ![calls[i].game] = @ \cup {calls[i].who}] /\ status' = status
    BY <1>9 DEF JoinSeat
  <2>3. g = calls[i].game => calls[i].who \in OnTrial(g)'
    <3>1. WentTo(i, "count", calls[i].game)
      BY <1>9, GoneTo DEF JoinSeat, SeatStages
    <3>2. /\ i \in DOMAIN calls' /\ calls'[i].op = "join" /\ calls'[i].at = "count"
          /\ calls'[i].game = calls[i].game /\ calls'[i].who = calls[i].who
      BY <1>9, <3>1 DEF WentTo, JoinSeat, Stage
    <3> QED BY <3>2 DEF OnTrial
  <2>4. CASE g = calls[i].game
    <3>1. seats'[g] = seats[g] \cup {calls[i].who} /\ calls[i].who \in OnTrial(g)'
      BY <1>1, <2>2, <2>3, <2>4
    <3> QED BY <1>1, <1>3, <2>1, <2>4, <3>1
  <2>5. CASE g # calls[i].game
    <3>1. g \in Games /\ seats'[g] = seats[g]
      BY <1>1, <2>2, <2>5
    <3> QED BY <1>3, <2>1, <3>1
  <2> QED BY <2>4, <2>5
<1>10. CASE JoinCount(i)
  <2>1. CASE Overfull(i)
    BY <1>5, <1>7, <1>10, <2>1 DEF JoinCount, SeatStages
  <2>2. CASE ~Overfull(i) /\ g = calls[i].game
    <3>1. ~(Cardinality(seats[g]) > MaxPlayers) /\ seats' = seats
      BY <1>10, <2>2 DEF JoinCount, Overfull, Plays
    <3>2. Cardinality(seats[g]) <= MaxPlayers
      <4>1. Cardinality(seats[g]) \in Nat
        BY <1>1, <2>2, SeatBounds, FS_Subset, FS_CardinalityType
      <4> QED BY <3>1, <4>1, SeatBounds
    <3> QED BY <1>1, <2>2, <3>1, <3>2, FewPlayers
  <2>3. CASE ~Overfull(i) /\ g # calls[i].game
    <3>1. WentTo(i, "code", calls[i].game)
      BY <1>10, <2>3, <1>7 DEF JoinCount, SeatStages
    <3>2. \A p \in OnTrial(g) : p \in OnTrial(g)'
      BY <2>3, <3>1 DEF OnTrial, WentTo
    <3> QED BY <1>5, <1>10, <3>2 DEF JoinCount
  <2> QED BY <2>1, <2>2, <2>3
<1>11. CASE JoinBack(i)
  <2>1. seats' = [seats EXCEPT ![calls[i].game] = @ \ {calls[i].who}] /\ status' = status
    BY <1>11 DEF JoinBack
  <2>2. \A p \in OnTrial(g) : p # calls[i].who => p \in OnTrial(g)'
    BY <1>7, <1>11 DEF JoinBack, SeatStages
  <2>3. CASE g = calls[i].game
    BY <1>1, <1>3, <2>1, <2>2, <2>3
  <2>4. CASE g # calls[i].game
    <3>1. WentTo(i, "done", calls[i].game)
      BY <1>11, <1>7 DEF JoinBack, SeatStages
    <3>2. \A p \in OnTrial(g) : p \in OnTrial(g)'
      BY <2>4, <3>1 DEF OnTrial, WentTo
    <3> QED BY <1>1, <1>3, <2>1, <2>4, <3>2
  <2> QED BY <2>3, <2>4
<1>12. CASE LeaveSeat(i)
  <2>1. seats' = [seats EXCEPT ![calls[i].game] = @ \ {calls[i].who}] /\ status' = status
    BY <1>12 DEF LeaveSeat
  <2>2. \A p \in OnTrial(g) : p \in OnTrial(g)'
    BY <1>7, <1>12 DEF LeaveSeat, Stage, SeatStages
  <2> QED BY <1>1, <1>3, <2>1, <2>2
<1>13. ASSUME DOMAIN status' = DOMAIN status, UNCHANGED seats,
              NEW at \in SeatStages, GoTo(i, at),
              calls[i].op # "join" \/ calls[i].at \notin {"count", "back"}
       PROVE  Cardinality(seats'[g] \ OnTrial(g)') <= MaxPlayers
  BY <1>5, <1>7, <1>13
<1>14. CASE JoinCode(i)
  BY <1>13, <1>14 DEF JoinCode, Stage, SeatStages
<1>15. CASE ExchangeMark(i) \/ ExchangeToken(i)
  BY <1>13, <1>15 DEF ExchangeMark, ExchangeToken, Stage, SeatStages
<1>16. CASE LeaveTokens(i)
  BY <1>13, <1>16 DEF LeaveTokens, Stage, SeatStages
<1>17. CASE LeaveCount(i)
  BY <1>13, <1>17 DEF LeaveCount, Stage, SeatStages
<1>18. CASE EndRow(i)
  <2>1. DOMAIN status' = DOMAIN status /\ seats' = seats /\ GoTo(i, "sweep") /\ calls[i].op # "join"
    BY <1>18 DEF EndRow, Stage
  <2> QED BY <1>13, <2>1 DEF SeatStages
<1>19. CASE EndSweep(i)
  BY <1>13, <1>19 DEF EndSweep, Stage, SeatStages
<1> QED BY <1>4, <1>6, <1>8, <1>9, <1>10, <1>11, <1>12, <1>14, <1>15, <1>16, <1>17, <1>18, <1>19
        DEF SeatStep

LEMMA CaredStays ==
    ASSUME SeatTypes, NEW i \in DOMAIN calls, NEW at, NEW to, WentTo(i, at, to),
           NEW g, NEW j \in DOMAIN calls, Cared(j, g), j # i
    PROVE  j \in DOMAIN calls' /\ Cared(j, g)'
BY DEF WentTo, Cared

LEMMA SeatStepCared ==
    ASSUME SeatTypes, GamesCared, ToldToLeave, NEW i \in DOMAIN calls, SeatStep(i)
    PROVE  GamesCared'
<1> SUFFICES ASSUME NEW g \in DOMAIN status', status'[g] = "active",
                    g \notin crowded', g \notin astray', seats'[g] = {}
             PROVE  \E j \in DOMAIN calls' : Cared(j, g)'
  BY DEF GamesCared, Active, Games
<1>1. /\ DOMAIN status = Games /\ DOMAIN seats = Games /\ Games = 1 .. Len(status)
      /\ Len(status) \in Nat /\ Len(seats) = Len(status)
      /\ calls[i].game \in Games
      /\ lastRow \in Nat
  BY SeatRows DEF SeatTypes
<1>2. g \notin astray /\ g \notin crowded
  BY DEF SeatStep, LaunchRow, LaunchId, LaunchSeat, JoinSeat, JoinCount, JoinBack,
         JoinCode, ExchangeMark, ExchangeToken, LeaveTokens, LeaveSeat, LeaveCount,
         EndRow, EndSweep
<1>3. PICK at \in SeatStages, to \in DOMAIN status' : WentTo(i, at, to)
  BY SeatMoves
\* as it was, unless this request was the one that cared
<1>4. ASSUME g \in Games, status[g] = "active", seats[g] = {}, ~Cared(i, g)
      PROVE  \E j \in DOMAIN calls' : Cared(j, g)'
  <2>1. PICK j \in DOMAIN calls : Cared(j, g)
    BY <1>2, <1>4 DEF GamesCared, Active
  <2>2. j # i
    BY <1>4, <2>1
  <2> QED BY <1>3, <2>1, <2>2, CaredStays
<1>5. CASE LaunchRow(i)
  <2>1. status' = Append(status, "active") /\ seats' = Append(seats, {})
    BY <1>5 DEF LaunchRow
  <2>2. CASE g \in Games
    <3>1. status[g] = "active" /\ seats[g] = {}
      BY <1>1, <2>1, <2>2 DEF SeatTypes
    <3> QED BY <1>4, <1>5, <2>2, <3>1 DEF LaunchRow, Stage, Cared
  <2>3. CASE g \notin Games
    <3>1. g = Len(status) + 1
      BY <1>1, <2>1, <2>3 DEF SeatTypes
    <3> QED BY <1>5, <3>1, Launched DEF LaunchRow, Stage, WentTo, Cared
  <2> QED BY <2>2, <2>3
<1>6. ASSUME NEW s \in SUBSET Players, seats' = [seats EXCEPT ![calls[i].game] = s],
             status' = status
      PROVE  /\ g \in Games /\ status[g] = "active"
             /\ g = calls[i].game => s = {}
             /\ g # calls[i].game => seats[g] = {}
  BY <1>1, <1>6
<1>7. calls[i].who \in Players \/ calls[i] = Answer
  BY DEF SeatTypes
<1>8. CASE LaunchId(i)
  <2>1. g \in Games /\ status[g] = "active" /\ seats[g] = {}
    BY <1>1, <1>8 DEF LaunchId
  <2>2. CASE Cared(i, g)
    <3>1. calls[i].game = g /\ lastRow = g /\ lastRow # 0
      BY <1>1, <1>8, <2>1, <2>2 DEF LaunchId, Cared
    <3>2. WentTo(i, "seat", g)
      BY <1>8, <3>1, Launched
    <3> QED BY <1>8, <3>2 DEF WentTo, Cared, LaunchId, Stage
  <2> QED BY <1>4, <2>1, <2>2
<1>9. CASE LaunchSeat(i)
  <2>1. seats' = [seats EXCEPT ![calls[i].game] = @ \cup {calls[i].who}] /\ status' = status
    BY <1>9 DEF LaunchSeat
  <2>2. g # calls[i].game /\ g \in Games /\ status[g] = "active" /\ seats[g] = {}
    BY <1>1, <2>1
  <2> QED BY <1>4, <2>2 DEF Cared
<1>10. CASE JoinSeat(i)
  <2>1. seats' = [seats EXCEPT ![calls[i].game] = @ \cup {calls[i].who}] /\ status' = status
    BY <1>10 DEF JoinSeat
  <2>2. g # calls[i].game /\ g \in Games /\ status[g] = "active" /\ seats[g] = {}
    BY <1>1, <2>1
  <2> QED BY <1>4, <2>2 DEF Cared
<1>11. CASE JoinBack(i)
  <2>1. seats' = [seats EXCEPT ![calls[i].game] = @ \ {calls[i].who}] /\ status' = status
    BY <1>11 DEF JoinBack
  <2>2. calls[i].game \in crowded
    BY <1>11 DEF JoinBack, Stage, ToldToLeave
  <2>3. g # calls[i].game /\ g \in Games /\ status[g] = "active" /\ seats[g] = {}
    BY <1>1, <1>2, <2>1, <2>2
  <2> QED BY <1>4, <2>3 DEF Cared
<1>12. CASE LeaveSeat(i)
  <2>1. seats' = [seats EXCEPT ![calls[i].game] = @ \ {calls[i].who}] /\ status' = status
    BY <1>12 DEF LeaveSeat
  <2>2. CASE g = calls[i].game
    <3>1. WentTo(i, "count", calls[i].game)
      BY <1>12, GoneTo DEF LeaveSeat, SeatStages
    <3> QED BY <1>12, <2>2, <3>1 DEF WentTo, Cared, LeaveSeat, Stage
  <2>3. CASE g # calls[i].game
    <3>1. g \in Games /\ status[g] = "active" /\ seats[g] = {}
      BY <1>1, <2>1, <2>3
    <3> QED BY <1>4, <2>3, <3>1 DEF Cared
  <2> QED BY <2>2, <2>3
<1>13. CASE LeaveCount(i)
  <2>1. g \in Games /\ status[g] = "active" /\ seats[g] = {}
    BY <1>1, <1>13 DEF LeaveCount
  <2>2. CASE g = calls[i].game
    <3>1. GoTo(i, "row")
      BY <1>13, <2>1, <2>2 DEF LeaveCount, Plays
    <3>2. WentTo(i, "row", calls[i].game)
      BY <3>1, GoneTo DEF SeatStages
    <3> QED BY <1>13, <2>2, <3>2 DEF WentTo, Cared, LeaveCount, Stage
  <2> QED BY <1>4, <2>1, <2>2 DEF Cared
<1>14. CASE EndRow(i)
  <2>1. status' = [status EXCEPT ![calls[i].game] = "ended"] /\ seats' = seats
    BY <1>14 DEF EndRow
  <2>2. g # calls[i].game /\ g \in Games /\ status[g] = "active" /\ seats[g] = {}
    BY <1>1, <2>1
  <2> QED BY <1>4, <2>2 DEF Cared
<1>15. CASE UNCHANGED <<status, seats>> /\ calls[i].op \in {"join", "exchange"}
  BY <1>1, <1>4, <1>15 DEF Cared
<1>16. CASE LeaveTokens(i) \/ EndSweep(i)
  <2>1. g \in Games /\ status[g] = "active" /\ seats[g] = {}
    BY <1>1, <1>16 DEF LeaveTokens, EndSweep
  <2>2. ~Cared(i, g)
    BY <1>16 DEF LeaveTokens, EndSweep, Stage, Cared
  <2> QED BY <1>4, <2>1, <2>2
<1>17. CASE JoinCount(i) \/ JoinCode(i) \/ ExchangeMark(i) \/ ExchangeToken(i)
  BY <1>15, <1>17 DEF JoinCount, JoinCode, ExchangeMark, ExchangeToken, Stage
<1> QED BY <1>5, <1>8, <1>9, <1>10, <1>11, <1>12, <1>13, <1>14, <1>16, <1>17 DEF SeatStep

LEMMA SeatStepTold ==
    ASSUME SeatTypes, ToldToLeave, NEW i \in DOMAIN calls, SeatStep(i)
    PROVE  ToldToLeave'
<1>1. crowded \subseteq crowded'
  BY DEF SeatStep, LaunchRow, LaunchId, LaunchSeat, JoinSeat, JoinCount, JoinBack,
         JoinCode, ExchangeMark, ExchangeToken, LeaveTokens, LeaveSeat, LeaveCount,
         EndRow, EndSweep
<1>2. PICK at \in SeatStages, to \in DOMAIN status' : WentTo(i, at, to)
  BY SeatMoves
<1>3. \A j \in DOMAIN calls : j # i => (calls'[j].at = "back" => calls'[j].game \in crowded')
  BY <1>1, <1>2 DEF WentTo, ToldToLeave
<1>4. ASSUME NEW to2 \in SeatStages, to2 # "back", GoTo(i, to2)
      PROVE  calls'[i].at # "back"
  BY <1>4, GoneTo DEF WentTo, Answer
<1>5. calls'[i].at = "back" => calls'[i].game \in crowded'
  <2>1. CASE JoinCount(i)
    <3>1. CASE Overfull(i)
      <4>1. WentTo(i, "back", calls[i].game) /\ calls[i].game \in crowded'
        BY <2>1, <3>1, GoneTo DEF JoinCount, SeatStages
      <4> QED BY <4>1 DEF WentTo
    <3> QED BY <1>4, <2>1, <3>1 DEF JoinCount, SeatStages
  <2>2. CASE LaunchRow(i) \/ LaunchId(i)
    <3>1. \E at2 \in {"rowid", "seat", "done"}, t \in Nat : WentTo(i, at2, t)
      <4>1. Len(status) + 1 \in Nat /\ lastRow \in Nat /\ 1 \in Nat
        BY SeatRows DEF SeatTypes
      <4> QED BY <2>2, <4>1, Launched
    <3> QED BY <3>1 DEF WentTo, Answer
  <2> QED BY <1>4, <2>1, <2>2
          DEF SeatStep, LaunchSeat, JoinSeat, JoinBack, JoinCode, ExchangeMark,
              ExchangeToken, LeaveTokens, LeaveSeat, LeaveCount, EndRow, EndSweep, SeatStages
<1> QED BY <1>2, <1>3, <1>5 DEF ToldToLeave, WentTo

\* A code that was used stays used.
LEMMA SpentStays ==
    ASSUME SeatTypes, NEW i \in DOMAIN calls, SeatStep(i),
           NEW k \in DOMAIN calls, calls[k] = Answer, Spent(k)
    PROVE  Spent(k)'
<1>1. CASE codes' \subseteq codes
  BY <1>1 DEF Spent
<1>2. CASE JoinCode(i)
  <2>1. k # i
    BY SeatMoves
  <2> QED BY <1>2, <2>1 DEF JoinCode, Spent
<1>3. CASE ExchangeMark(i)
  <2>1. codes' = {IF c.id = calls[i].code THEN [c EXCEPT !.used = TRUE] ELSE c : c \in codes}
    BY <1>3 DEF ExchangeMark
  <2>2. codes \subseteq CodeRow
    BY DEF SeatTypes
  <2>3. \A c \in CodeRow : [c EXCEPT !.used = TRUE].used /\ [c EXCEPT !.used = TRUE].id = c.id
    BY DEF CodeRow
  <2>4. ASSUME NEW c \in codes', c.id = k PROVE c.used
    <3>1. PICK d \in codes : c = IF d.id = calls[i].code THEN [d EXCEPT !.used = TRUE] ELSE d
      BY <2>1
    <3> QED BY <2>2, <2>3, <2>4, <3>1 DEF Spent
  <2> QED BY <2>4 DEF Spent
<1> QED BY <1>1, <1>2, <1>3
        DEF SeatStep, LaunchRow, LaunchId, LaunchSeat, JoinSeat, JoinCount, JoinBack,
            ExchangeToken, LeaveTokens, LeaveSeat, LeaveCount, EndRow, EndSweep, DropCodes

LEMMA SeatStepSpent ==
    ASSUME SeatTypes, CodesSpent, NEW i \in DOMAIN calls, SeatStep(i)
    PROVE  CodesSpent'
<1>1. PICK at \in SeatStages, to \in DOMAIN status' : WentTo(i, at, to)
  BY SeatMoves
<1>2. /\ DOMAIN calls' = DOMAIN calls /\ calls[i] # Answer /\ twice' = twice
      /\ \A j \in DOMAIN calls : calls[j] = Answer => calls'[j] = Answer
      /\ \A j \in DOMAIN calls : j # i => calls'[j] = calls[j]
  <2>1. twice' = twice
    BY DEF SeatStep, LaunchRow, LaunchId, LaunchSeat, JoinSeat, JoinCount, JoinBack,
           JoinCode, ExchangeMark, ExchangeToken, LeaveTokens, LeaveSeat, LeaveCount,
           EndRow, EndSweep
  <2> QED BY <1>1, <2>1, SeatMoves DEF WentTo
<1>3. \/ calls'[i] = Answer
      \/ calls'[i].op = calls[i].op /\ calls'[i].code = calls[i].code
  BY <1>1 DEF WentTo
<1>4. \A k : Buying(k)' \subseteq Buying(k)
  BY <1>2, <1>3 DEF Buying, Answer
\* tokens
<1>5. \/ tokens' \subseteq tokens
      \/ ExchangeToken(i)
  BY DEF SeatStep, LaunchRow, LaunchId, LaunchSeat, JoinSeat, JoinCount, JoinBack, JoinCode,
         ExchangeMark, LeaveTokens, LeaveSeat, LeaveCount, EndRow, EndSweep, Drop
<1>6. ExchangeToken(i) =>
         /\ \A t \in tokens' : t \in tokens \/ t.code = calls[i].code
         /\ \A s, t \in tokens' : s \notin tokens /\ t \notin tokens => s = t
         /\ i \in Buying(calls[i].code) /\ calls[i].at = "token" /\ calls'[i] = Answer
  <2> SUFFICES ASSUME ExchangeToken(i)
               PROVE  /\ \A t \in tokens' : t \in tokens \/ t.code = calls[i].code
                      /\ \A s, t \in tokens' : s \notin tokens /\ t \notin tokens => s = t
                      /\ i \in Buying(calls[i].code) /\ calls[i].at = "token"
                      /\ calls'[i] = Answer
    OBVIOUS
  <2>1. calls'[i] = Answer
    BY GoneTo DEF ExchangeToken, WentTo, SeatStages
  <2> QED BY <2>1 DEF ExchangeToken, Buying, Stage
<1>7. \A t \in tokens' : Spent(t.code)' /\ calls'[t.code] = Answer
  <2> SUFFICES ASSUME NEW t \in tokens' PROVE Spent(t.code)' /\ calls'[t.code] = Answer
    OBVIOUS
  <2>1. t.code \in DOMAIN calls /\ calls[t.code] = Answer /\ Spent(t.code)
    <3>1. CASE t \in tokens
      BY <3>1 DEF CodesSpent, SeatTypes
    <3>2. CASE ExchangeToken(i) /\ t.code = calls[i].code
      BY <1>6, <3>2 DEF CodesSpent, Buying
    <3> QED BY <1>5, <1>6, <3>1, <3>2
  <2> QED BY <1>2, <2>1, SpentStays
\* the calls
<1>8. ASSUME NEW j \in DOMAIN calls
      PROVE  IF calls'[j].op = "exchange"
             THEN /\ calls'[j].code \in DOMAIN calls /\ calls'[calls'[j].code] = Answer
                  /\ calls'[j].at \in {"first", "token"}
                  /\ calls'[j].at = "token" => \A c \in codes' : c.id = calls'[j].code => c.used
             ELSE calls'[j].code = 0
  <2>1. CASE j # i
    <3>1. calls'[j] = calls[j]
      BY <1>2, <2>1
    <3>2. calls[j].op = "exchange" => /\ calls[j].code \in DOMAIN calls
                                      /\ calls[calls[j].code] = Answer
                                      /\ calls[j].at \in {"first", "token"}
                                      /\ calls[j].at = "token" => Spent(calls[j].code)
      BY DEF CodesSpent
    <3>3. calls[j].op # "exchange" => calls[j].code = 0
      BY DEF CodesSpent
    <3>4. calls[j].op = "exchange" /\ calls[j].at = "token"
             => \A c \in codes' : c.id = calls[j].code => c.used
      BY <3>2, SpentStays DEF Spent
    <3> QED BY <1>2, <3>1, <3>2, <3>3, <3>4
  <2>2. CASE j = i /\ calls'[i] = Answer
    BY <2>2 DEF Answer
  <2>3. CASE j = i /\ calls'[i] # Answer /\ calls[i].op # "exchange"
    BY <1>3, <2>3 DEF CodesSpent
  <2>4. CASE j = i /\ calls'[i] # Answer /\ calls[i].op = "exchange"
    <3>1. ExchangeMark(i)
      <4>1. ~ExchangeToken(i)
        BY <1>6, <2>4
      <4> QED BY <2>4, <4>1
              DEF SeatStep, LaunchRow, LaunchId, LaunchSeat, JoinSeat, JoinCount, JoinBack,
                  JoinCode, LeaveTokens, LeaveSeat, LeaveCount, EndRow, EndSweep, Stage
    <3>2. WentTo(i, "token", calls[i].game)
      BY <3>1, GoneTo DEF ExchangeMark, SeatStages
    <3>3. /\ calls'[i].op = "exchange" /\ calls'[i].code = calls[i].code
          /\ calls'[i].at = "token"
      BY <2>4, <3>2 DEF WentTo
    <3>4. calls[i].code \in DOMAIN calls /\ calls[calls[i].code] = Answer
      BY <2>4 DEF CodesSpent
    <3>5. ASSUME NEW c \in codes', c.id = calls[i].code PROVE c.used
      <4>1. codes' = {IF d.id = calls[i].code THEN [d EXCEPT !.used = TRUE] ELSE d : d \in codes}
        BY <3>1 DEF ExchangeMark
      <4>2. PICK d \in codes : c = IF d.id = calls[i].code THEN [d EXCEPT !.used = TRUE] ELSE d
        BY <4>1
      <4>3. codes \subseteq CodeRow /\ \A e \in CodeRow : [e EXCEPT !.used = TRUE].used
        BY DEF SeatTypes, CodeRow
      <4> QED BY <3>5, <4>2, <4>3
    <3> QED BY <1>2, <2>4, <3>3, <3>4, <3>5
  <2> QED BY <2>1, <2>2, <2>3, <2>4
\* a code and its token
<1>9. ASSUME NEW k \in DOMAIN calls \ twice
      PROVE  /\ \A j, l \in Buying(k)' : j = l
             /\ \A s, t \in tokens' : s.code = k /\ t.code = k => s = t
             /\ Buying(k)' # {} => \A t \in tokens' : t.code # k
  <2>1. /\ \A j, l \in Buying(k) : j = l
        /\ \A s, t \in tokens : s.code = k /\ t.code = k => s = t
        /\ Buying(k) # {} => \A t \in tokens : t.code # k
    BY DEF CodesSpent
  <2>2. CASE tokens' \subseteq tokens
    BY <1>4, <2>1, <2>2
  <2>3. CASE ExchangeToken(i) /\ k # calls[i].code
    BY <1>4, <1>6, <2>1, <2>3
  <2>4. CASE ExchangeToken(i) /\ k = calls[i].code
    <3>1. i \in Buying(k) /\ i \notin Buying(k)'
      BY <1>6, <2>4 DEF Buying, Answer
    <3>2. Buying(k)' = {}
      BY <1>4, <2>1, <3>1
    <3> QED BY <1>6, <2>1, <2>4, <3>1, <3>2
  <2> QED BY <1>5, <2>2, <2>3, <2>4
<1> QED BY <1>2, <1>7, <1>8, <1>9 DEF CodesSpent, Spent

LEMMA SeatCallSpent ==
    ASSUME SeatTypes, CodesSpent, NEW op \in Ops, NEW who \in Players, NEW g \in Games,
           NEW code \in 0 .. Len(calls), Call(op, who, g, code)
    PROVE  CodesSpent'
<1> DEFINE n == Len(calls) + 1
<1>1. /\ DOMAIN calls' = DOMAIN calls \cup {n} /\ n \notin DOMAIN calls
      /\ \A j \in DOMAIN calls : calls'[j] = calls[j]
      /\ calls'[n].op = op /\ calls'[n].code = code /\ calls'[n].at = "first"
      /\ IF op = "exchange" THEN code \in DOMAIN calls /\ calls[code] = Answer
         ELSE code = 0
  BY ZenonT(40), SeatAsked
<1>2. /\ codes' = codes /\ tokens' = tokens /\ twice \subseteq twice'
      /\ op = "exchange" => /\ ~Spent(code)
                            /\ (\E j \in DOMAIN calls : calls[j].code = code /\ calls[j].at = "first")
                                  => code \in twice'
  BY DEF Call, Spent
<1> HIDE DEF n
<1>3. \A k : Spent(k)' <=> Spent(k)
  BY <1>2 DEF Spent
<1>4. \A t \in tokens' : t.code \in DOMAIN calls /\ Spent(t.code)' /\ calls'[t.code] = Answer
  BY <1>1, <1>2, <1>3 DEF CodesSpent, SeatTypes
<1>5. ASSUME NEW j \in DOMAIN calls'
      PROVE  IF calls'[j].op = "exchange"
             THEN /\ calls'[j].code \in DOMAIN calls' /\ calls'[calls'[j].code] = Answer
                  /\ calls'[j].at \in {"first", "token"}
                  /\ calls'[j].at = "token" => \A c \in codes' : c.id = calls'[j].code => c.used
             ELSE calls'[j].code = 0
  BY <1>1, <1>2 DEF CodesSpent, Spent
<1>6. ASSUME NEW k \in DOMAIN calls' \ twice'
      PROVE  /\ \A j, l \in Buying(k)' : j = l
             /\ \A s, t \in tokens' : s.code = k /\ t.code = k => s = t
             /\ Buying(k)' # {} => \A t \in tokens' : t.code # k
  <2>1. CASE k = n
    <3>1. Buying(k)' = {}
      BY <1>1, <2>1 DEF Buying, CodesSpent
    <3> QED BY <1>1, <1>4, <2>1, <3>1
  <2>2. CASE k \in DOMAIN calls /\ op = "exchange" /\ k = code
    <3>1. \A t \in tokens : t.code # k
      BY <1>2, <2>2 DEF CodesSpent
    <3>2. Buying(k) = {}
      BY <1>2, <2>2 DEF Buying, CodesSpent
    <3>3. Buying(k)' \subseteq {n}
      BY <1>1, <3>2 DEF Buying
    <3> QED BY <1>2, <3>1, <3>3
  <2>3. CASE k \in DOMAIN calls /\ ~(op = "exchange" /\ k = code)
    <3>1. Buying(k)' = Buying(k)
      BY <1>1, <2>3 DEF Buying
    <3>2. k \in DOMAIN calls \ twice
      BY <1>2, <2>3
    <3> QED BY <1>2, <3>1, <3>2 DEF CodesSpent
  <2> QED BY <1>1, <2>1, <2>2, <2>3
<1> QED BY <1>4, <1>5, <1>6 DEF CodesSpent, Spent

LEMMA SeatCallKeeps ==
    ASSUME SeatsInv, NEW op \in Ops, NEW who \in Players, NEW g \in Games,
           NEW code \in 0 .. Len(calls), Call(op, who, g, code)
    PROVE  SeatsCounted' /\ GamesCared' /\ ToldToLeave'
<1> DEFINE n == Len(calls) + 1
<1>1. /\ DOMAIN calls' = DOMAIN calls \cup {n} /\ n \notin DOMAIN calls
      /\ \A j \in DOMAIN calls : calls'[j] = calls[j]
      /\ calls'[n].at = "first"
  BY SeatAsked DEF SeatsInv
<1> HIDE DEF n
<1>2. /\ UNCHANGED <<status, seats, crowded, astray>> /\ Games' = Games /\ Active' = Active
  BY DEF Call, Games, Active
<1>3. \A h : OnTrial(h)' = OnTrial(h)
  BY <1>1 DEF OnTrial
<1>4. \A h, j : j \in DOMAIN calls /\ Cared(j, h) => j \in DOMAIN calls' /\ Cared(j, h)'
  BY <1>1 DEF Cared
<1> QED BY <1>1, <1>2, <1>3, <1>4 DEF SeatsInv, SeatsCounted, GamesCared, ToldToLeave

LEMMA SeatsStep == SeatsInv /\ [SeatsNext]_seatsVars => SeatsInv'
<1> SUFFICES ASSUME SeatsInv, [SeatsNext]_seatsVars PROVE SeatsInv'
  OBVIOUS
<1>1. SeatTypes'
  BY SeatsNextTypes DEF SeatsInv
<1>2. CASE UNCHANGED <<status, seats, codes, tokens, calls, crowded, astray, twice>>
  <2>1. SeatsCounted' /\ GamesCared' /\ ToldToLeave' /\ CodesSpent'
    BY <1>2 DEF SeatsInv, SeatsCounted, GamesCared, ToldToLeave, CodesSpent, OnTrial,
                Cared, Buying, Spent, Games, Active
  <2> QED BY <1>1, <2>1 DEF SeatsInv
<1>3. ASSUME NEW op \in Ops, NEW who \in Players, NEW g \in Games,
             NEW code \in 0 .. Len(calls), Call(op, who, g, code)
      PROVE  SeatsInv'
  BY <1>1, <1>3, SeatCallKeeps, SeatCallSpent DEF SeatsInv
<1>4. ASSUME NEW i \in DOMAIN calls, SeatStep(i)
      PROVE  SeatsInv'
  BY <1>1, <1>4, SeatStepCounted, SeatStepCared, SeatStepTold, SeatStepSpent DEF SeatsInv
<1> QED BY <1>2, <1>3, <1>4 DEF SeatsNext, InsertElsewhere, seatsVars

LEMMA SeatsMeaning == SeatsInv => SeatsTypeOK /\ SeatsAreTrue
<1> SUFFICES ASSUME SeatsInv PROVE SeatsTypeOK /\ SeatsAreTrue
  OBVIOUS
<1>1. SeatTypes
  BY DEF SeatsInv
<1>2. SeatsTypeOK
  <2>1. codes \subseteq CodeRow /\ \A c \in CodeRow : c.who \in Players /\ c.used \in BOOLEAN
    BY <1>1 DEF SeatTypes, CodeRow
  <2>2. tokens \subseteq TokenRow /\ \A t \in TokenRow : t.who \in Players
    BY <1>1 DEF SeatTypes, TokenRow
  <2> QED BY <1>1, <2>1, <2>2, SeatRows DEF SeatTypes, SeatsTypeOK
<1>3. ASSUME Answered PROVE \A i \in DOMAIN calls : calls[i] = Answer
  BY <1>1, <1>3 DEF SeatTypes, Answered
<1>4. NotOverfull
  <2> SUFFICES ASSUME Answered, NEW g \in Games \ astray
               PROVE  Cardinality(seats[g]) <= MaxPlayers
    BY DEF NotOverfull
  <2>1. OnTrial(g) = {}
    BY <1>3 DEF OnTrial, Answer
  <2>2. seats[g] \ OnTrial(g) = seats[g]
    BY <2>1
  <2> QED BY <2>2 DEF SeatsInv, SeatsCounted
<1>5. PlayedOrEnded
  BY <1>3 DEF PlayedOrEnded, SeatsInv, GamesCared, Cared, Answer
<1>6. CodesBuyOneToken
  BY <1>1 DEF CodesBuyOneToken, SeatsInv, CodesSpent, SeatTypes
<1> QED BY <1>2, <1>4, <1>5, <1>6 DEF SeatsAreTrue

-----------------------------------------------------------------------------
(* The groups. *)

MemberRow == [who : Folk, admin : BOOLEAN]
GroupOps == {"create", "add", "remove", "leave", "invite", "answer"}
ErrandRow ==
  [n : Nat, op : GroupOps, by : Folk, to : Folk, group : Nat, led : BOOLEAN, yes : BOOLEAN,
   offer : Nat, read : Seq(MemberRow), at : Steps]
OfferRow == [id : Nat, group : Nat, by : Folk, to : Folk, status : {"pending", "accepted", "declined"}]

\* the rows of a list of members, one for each
Rows(list) == {list[k] : k \in DOMAIN list}
Once(list) == \A k, l \in DOMAIN list : list[k].who = list[l].who => k = l

\* the steps of each operation
Founding == {"rowid", "admin"}
Leaving == {"members", "go", "promote", "sweep", "drop"}
Removing == {"others", "delete"}
InCourse(e) ==
  /\ e.at \in Founding \cup {"row"} => e.op = "create"
  /\ e.at \in Leaving <=> e.op = "leave"
  /\ e.at \in Removing <=> e.op = "remove"
  /\ e.group = 0 <=> e.at = "row"

GroupTypes ==
  /\ keyed \in BOOLEAN /\ roll \in Seq(Seq(MemberRow)) /\ Len(roll) <= MaxGroupsMade
  /\ \A g \in Ids : Once(roll[g])
  /\ standing \subseteq Ids /\ makers \in [1 .. MaxGroupsMade -> Folk \cup {0}]
  /\ offers \subseteq OfferRow /\ \A o \in offers : o.group \in Ids
  /\ errands \subseteq ErrandRow /\ \A e \in errands : e.group \in Ids \cup {0} /\ InCourse(e)
  /\ errandsMade \in 0 .. MaxErrands /\ newest \in 0 .. Len(roll)
  /\ disturbed \subseteq Ids /\ late \subseteq Ids /\ mistaken \subseteq Ids

\* The groups of which no request is mistaken.
Whole == standing \ (disturbed \cup mistaken)

\* What a request read of its group is still so.
UpToDate(e) ==
  LET list == roll[e.group]
  IN  /\ e.at \in {"members", "go"} => (e.led <=> Seat(e.by, TRUE) \in Rows(list))
      /\ e.at = "go" => e.read = Without(list, e.by)
      /\ e.at = "promote" => e.read = list /\ list # << >> /\ \A m \in Rows(list) : ~m.admin
      /\ e.at \in {"sweep", "drop"} => list = << >>
      /\ e.at = "others" => e.to = e.by /\ Seat(e.by, TRUE) \in Rows(list)
      /\ e.at = "delete" => Seat(e.to, TRUE) \notin Rows(list)
ErrandsUpToDate == \A e \in errands : e.group \in Whole => UpToDate(e)

\* A group that was just made, and that its maker's account did not take with it, is
\* nobody's but its maker's.
MadeByOne ==
  \A e \in errands : e.at \in Founding /\ e.group \in standing \ mistaken =>
    /\ roll[e.group] = << >>
    /\ \A d \in errands : d.group = e.group => d = e
    /\ \A o \in offers : o.group # e.group

Led(list) == \E a \in Rows(list) : a.admin /\ \A m \in Rows(list) : m.admin => m = a
Settling(e) == e.at \in Founding \cup {"promote", "sweep", "drop"}
LedOrSettling == \A g \in Whole : Led(roll[g]) \/ \E e \in errands : e.group = g /\ Settling(e)

\* Nobody is about to be added or invited to a group that goes, or went.
Going(g) == g \notin standing \/ \E e \in errands : e.group = g /\ e.at = "drop"
LeftAlone(g) == /\ \A o \in offers : o.group # g
            /\ \A e \in errands : e.group = g => e.op \in {"leave", "remove"}
GoneQuietly == \A g \in Ids \ (late \cup disturbed \cup mistaken) : Going(g) => LeftAlone(g)

GroupsInv ==
  GroupTypes /\ ErrandsUpToDate /\ MadeByOne /\ LedOrSettling /\ GoneQuietly /\ NobodyInNoGroup

\* Lists of members.
LEMMA ListRows ==
    ASSUME NEW list \in Seq(MemberRow)
    PROVE  /\ Rows(list) \subseteq MemberRow
           /\ list = << >> <=> Rows(list) = {}
           /\ \A u : Within(list, u) <=> \E m \in Rows(list) : m.who = u
           /\ Heads(list) = {} <=> \A m \in Rows(list) : ~m.admin
<1>1. \A k \in DOMAIN list : list[k] \in MemberRow
  BY RowTyped
<1>2. list = << >> <=> DOMAIN list = {}
  <2> HIDE DEF MemberRow
  <2> QED OBVIOUS
<1>3. \A m : m \in Rows(list) <=> \E k \in DOMAIN list : m = list[k]
  BY DEF Rows
<1>4. Rows(list) \subseteq MemberRow /\ (list = << >> <=> Rows(list) = {})
  <2> HIDE DEF MemberRow
  <2> QED BY <1>1, <1>2, <1>3
<1>5. \A u : Within(list, u) <=> \E m \in Rows(list) : m.who = u
  BY <1>3 DEF Within
<1>6. Heads(list) = {} <=> \A m \in Rows(list) : ~m.admin
  BY <1>3 DEF Heads
<1> QED BY <1>4, <1>5, <1>6

LEMMA OnceIs ==
    ASSUME NEW list \in Seq(MemberRow), Once(list)
    PROVE  \A m, n \in Rows(list) : m.who = n.who => m = n
BY DEF Once, Rows

LEMMA SeatIsRow ==
    ASSUME NEW u \in Folk, NEW b \in BOOLEAN
    PROVE  Seat(u, b) \in MemberRow /\ Seat(u, b).who = u /\ Seat(u, b).admin = b
BY DEF Seat, MemberRow

LEMMA RowsAppended ==
    ASSUME NEW list \in Seq(MemberRow), Once(list), NEW m \in MemberRow, ~Within(list, m.who)
    PROVE  LET r == Append(list, m)
           IN  r \in Seq(MemberRow) /\ Once(r) /\ Rows(r) = Rows(list) \cup {m}
<1> DEFINE r == Append(list, m)
<1>1. /\ r \in Seq(MemberRow) /\ DOMAIN r = DOMAIN list \cup {Len(r)} /\ Len(r) \notin DOMAIN list
      /\ r[Len(r)] = m /\ \A j \in DOMAIN list : r[j] = list[j]
  <2> HIDE DEF MemberRow
  <2> QED BY SMTT(30), RowAdded
<1> HIDE DEF r
<1>2. Once(r)
  BY ZenonT(40), <1>1 DEF Once, Within
<1>3. Rows(r) = Rows(list) \cup {m}
  BY ZenonT(40), <1>1 DEF Rows
<1> QED BY <1>1, <1>2, <1>3 DEF r

LEMMA RowsWithout ==
    ASSUME NEW list \in Seq(MemberRow), Once(list), NEW u
    PROVE  LET r == Without(list, u)
           IN  /\ r \in Seq(MemberRow) /\ Once(r)
               /\ Rows(r) = {m \in Rows(list) : m.who # u}
<1> DEFINE r == Without(list, u)
<1>1. CASE ~Within(list, u)
  <2>1. r = list
    BY <1>1 DEF Without
  <2>2. \A m \in Rows(list) : m.who # u
    BY <1>1, ListRows
  <2>3. Rows(list) = {m \in Rows(list) : m.who # u}
    BY <2>2
  <2> HIDE DEF r
  <2>4. r \in Seq(MemberRow) /\ Once(r) /\ Rows(r) = {m \in Rows(list) : m.who # u}
    BY <2>1, <2>3
  <2> QED BY <2>4 DEF r
<1>2. CASE Within(list, u)
  <2> DEFINE c == CHOOSE k \in DOMAIN list : list[k].who = u
  <2>1. c \in DOMAIN list /\ list[c].who = u
    BY <1>2 DEF Within
  <2>2. r = RemoveAt(list, c)
    BY <1>2 DEF Without
  <2> HIDE DEF c, MemberRow
  <2>3. /\ Len(r) = Len(list) - 1 /\ r \in Seq(MemberRow) /\ Len(list) \in Nat
        /\ c \in 1 .. Len(list)
        /\ \A k \in 1 .. Len(r) : r[k] = IF k < c THEN list[k] ELSE list[k + 1]
    <3> HIDE DEF r
    <3>1. r = SubSeq(list, 1, c - 1) \o SubSeq(list, c + 1, Len(list))
      BY <2>2 DEF RemoveAt
    <3> DEFINE a == SubSeq(list, 1, c - 1)
               b == SubSeq(list, c + 1, Len(list))
    <3>2. c \in 1 .. Len(list) /\ Len(list) \in Nat
      BY <2>1
    <3>3. a \in Seq(MemberRow) /\ Len(a) = c - 1 /\ \A k \in 1 .. c - 1 : a[k] = list[k]
      BY <3>2
    <3>4. /\ b \in Seq(MemberRow) /\ Len(b) = Len(list) - c
          /\ \A k \in 1 .. Len(list) - c : b[k] = list[c + k]
      BY <3>2
    <3>5. r = a \o b
      BY <3>1
    <3> HIDE DEF a, b
    <3>6. /\ Len(r) = Len(a) + Len(b) /\ r \in Seq(MemberRow)
          /\ \A k \in 1 .. Len(r) : r[k] = IF k <= Len(a) THEN a[k] ELSE b[k - Len(a)]
      BY <3>3, <3>4, <3>5, RowsJoined
    <3>7. ASSUME NEW k \in 1 .. Len(r) PROVE r[k] = IF k < c THEN list[k] ELSE list[k + 1]
      <4>1. CASE k < c
        BY <3>2, <3>3, <3>6, <4>1
      <4>2. CASE ~(k < c)
        <5>1. k - Len(a) \in 1 .. Len(list) - c /\ c + (k - Len(a)) = k + 1 /\ ~(k <= Len(a))
          BY <3>2, <3>3, <3>4, <3>6, <4>2
        <5> QED BY <3>4, <3>6, <4>2, <5>1
      <4> QED BY <4>1, <4>2
    <3> QED BY <3>2, <3>3, <3>4, <3>6, <3>7
  <2> HIDE DEF r
  <2>4. DOMAIN r = 1 .. Len(r) /\ DOMAIN list = 1 .. Len(list)
    BY <2>3, RowTyped
  <2>5. \A k \in DOMAIN r : \E l \in DOMAIN list : l # c /\ r[k] = list[l]
                               /\ l = IF k < c THEN k ELSE k + 1
    BY <2>3, <2>4
  <2>6. \A l \in DOMAIN list : l # c => \E k \in DOMAIN r : r[k] = list[l]
    <3> SUFFICES ASSUME NEW l \in DOMAIN list, l # c PROVE \E k \in DOMAIN r : r[k] = list[l]
      OBVIOUS
    <3>1. CASE l < c
      BY <2>3, <2>4, <3>1
    <3>2. CASE l > c
      <4>1. l - 1 \in DOMAIN r /\ ~(l - 1 < c) /\ l - 1 + 1 = l
        BY <2>3, <2>4, <3>2
      <4> QED BY <2>3, <2>4, <4>1
    <3> QED BY <2>3, <2>4, <3>1, <3>2
  <2>7. Once(r)
    <3> SUFFICES ASSUME NEW k \in DOMAIN r, NEW l \in DOMAIN r, r[k].who = r[l].who PROVE k = l
      BY DEF Once
    <3>1. (IF k < c THEN k ELSE k + 1) = (IF l < c THEN l ELSE l + 1)
      BY <2>5 DEF Once
    <3> QED BY <2>3, <2>4, <3>1
  <2>8. \A l \in DOMAIN list : l # c => list[l].who # u
    BY <2>1 DEF Once
  <2>9. Rows(r) = {m \in Rows(list) : m.who # u}
    BY <2>1, <2>5, <2>6, <2>8 DEF Rows
  <2> QED BY <2>3, <2>7, <2>9 DEF r
<1> QED BY <1>1, <1>2

LEMMA RowsPromoted ==
    ASSUME NEW list \in Seq(MemberRow), Once(list), NEW h
    PROVE  LET r == [k \in DOMAIN list |->
                       IF list[k].who = h THEN Seat(list[k].who, TRUE) ELSE list[k]]
           IN  /\ r \in Seq(MemberRow) /\ Once(r) /\ Len(r) = Len(list)
               /\ Rows(r) = {IF m.who = h THEN Seat(m.who, TRUE) ELSE m : m \in Rows(list)}
<1> DEFINE r == [k \in DOMAIN list |->
                   IF list[k].who = h THEN Seat(list[k].who, TRUE) ELSE list[k]]
<1>1. \A k \in DOMAIN list : list[k] \in MemberRow
  BY RowTyped
<1>2. \A m \in MemberRow : Seat(m.who, TRUE) \in MemberRow /\ Seat(m.who, TRUE).who = m.who
  BY DEF MemberRow, Seat
<1>3. DOMAIN r = DOMAIN list /\ \A k \in DOMAIN list : r[k] \in MemberRow /\ r[k].who = list[k].who
  BY <1>1, <1>2
<1>4. r \in Seq(MemberRow) /\ Len(r) = Len(list)
  <2>1. DOMAIN list = 1 .. Len(list) /\ Len(list) \in Nat
    BY RowTyped
  <2>2. r \in [1 .. Len(list) -> MemberRow]
    BY <1>3, <2>1
  <2> HIDE DEF r, MemberRow
  <2> QED BY <2>1, <2>2
<1>5. Once(r)
  <2> HIDE DEF r
  <2> QED BY <1>3 DEF Once
<1>6. Rows(r) = {IF m.who = h THEN Seat(m.who, TRUE) ELSE m : m \in Rows(list)}
  BY DEF Rows
<1> QED BY <1>4, <1>5, <1>6

LEMMA GroupRows ==
    ASSUME GroupTypes
    PROVE  /\ Ids = 1 .. Len(roll) /\ Len(roll) \in Nat /\ 0 \notin Ids
           /\ \A g \in Ids : roll[g] \in Seq(MemberRow) /\ Once(roll[g])
           /\ \A e \in errands : /\ e \in ErrandRow /\ InCourse(e)
                                 /\ e.group \in Ids \cup {0}
                                 /\ e.at # "row" => e.group \in Ids
           /\ Whole \subseteq Ids
<1>1. Ids = 1 .. Len(roll) /\ Len(roll) \in Nat
  BY RowTyped DEF GroupTypes, Ids
<1>2. \A g \in Ids : roll[g] \in Seq(MemberRow)
  BY RowTyped DEF GroupTypes, Ids
<1>3. 0 \notin Ids
  BY <1>1
<1> QED BY <1>1, <1>2, <1>3 DEF GroupTypes, InCourse, Whole

LEMMA ErrandFields ==
    ASSUME NEW e \in ErrandRow
    PROVE  /\ e.op \in GroupOps /\ e.by \in Folk /\ e.to \in Folk /\ e.led \in BOOLEAN
           /\ e.read \in Seq(MemberRow) /\ e.group \in Nat /\ e.at \in Steps
BY DEF ErrandRow

\* Errand e becomes f, which is at another step.
Became(e, f, at, g, read) ==
  /\ errands' = (errands \ {e}) \cup {f} /\ f \in ErrandRow
  /\ f.op = e.op /\ f.by = e.by /\ f.to = e.to /\ f.led = e.led
  /\ f.at = at /\ f.group = g /\ f.read = read

LEMMA ErrandBecomes ==
    ASSUME GroupTypes, NEW e \in errands, NEW at \in Steps
    PROVE  /\ GoesOn(e, at) => \E f : Became(e, f, at, e.group, e.read)
           /\ \A g \in Nat : errands' = (errands \ {e}) \cup {[e EXCEPT !.at = at, !.group = g]}
                 => \E f : Became(e, f, at, g, e.read)
           /\ \A read \in Seq(MemberRow) :
                 errands' = (errands \ {e}) \cup {[e EXCEPT !.at = at, !.read = read]}
                 => \E f : Became(e, f, at, e.group, read)
<1>1. e \in ErrandRow
  BY DEF GroupTypes
<1>2. ASSUME GoesOn(e, at) PROVE \E f : Became(e, f, at, e.group, e.read)
  <2> DEFINE f == [e EXCEPT !.at = at]
  <2>1. f \in ErrandRow /\ f.op = e.op /\ f.by = e.by /\ f.to = e.to /\ f.led = e.led
        /\ f.at = at /\ f.group = e.group /\ f.read = e.read
    BY <1>1 DEF ErrandRow
  <2>2. errands' = (errands \ {e}) \cup {f}
    BY <1>2 DEF GoesOn
  <2> HIDE DEF f
  <2> QED BY <2>1, <2>2 DEF Became
<1>3. ASSUME NEW g \in Nat, errands' = (errands \ {e}) \cup {[e EXCEPT !.at = at, !.group = g]}
      PROVE  \E f : Became(e, f, at, g, e.read)
  <2> DEFINE f == [e EXCEPT !.at = at, !.group = g]
  <2>1. f \in ErrandRow /\ f.op = e.op /\ f.by = e.by /\ f.to = e.to /\ f.led = e.led
        /\ f.at = at /\ f.group = g /\ f.read = e.read
    BY <1>1 DEF ErrandRow
  <2>2. errands' = (errands \ {e}) \cup {f}
    BY <1>3
  <2> HIDE DEF f
  <2> QED BY <2>1, <2>2 DEF Became
<1>4. ASSUME NEW read \in Seq(MemberRow),
             errands' = (errands \ {e}) \cup {[e EXCEPT !.at = at, !.read = read]}
      PROVE  \E f : Became(e, f, at, e.group, read)
  <2> DEFINE f == [e EXCEPT !.at = at, !.read = read]
  <2>1. f \in ErrandRow /\ f.op = e.op /\ f.by = e.by /\ f.to = e.to /\ f.led = e.led
        /\ f.at = at /\ f.group = e.group /\ f.read = read
    BY <1>1 DEF ErrandRow
  <2>2. errands' = (errands \ {e}) \cup {f}
    BY <1>4
  <2> HIDE DEF f
  <2> QED BY <2>1, <2>2 DEF Became
<1> QED BY <1>2, <1>3, <1>4

\* What each step makes of its errand.
LEMMA ErrandCourse ==
    ASSUME GroupTypes, NEW e \in errands, ErrandStep(e)
    PROVE  \/ errands' = errands \ {e}
           \/ CreateRow(e) /\ \E f : Became(e, f, "rowid", Len(roll) + 1, e.read)
           \/ CreateRowId(e) /\ newest # 0 /\ \E f : Became(e, f, "admin", newest, e.read)
           \/ CreateAdmin(e) /\ \E f : Became(e, f, "insert", e.group, e.read)
           \/ Insert(e) /\ \E f : Became(e, f, "close", e.group, e.read)
           \/ OtherAdmins(e) /\ Heads(Without(roll[e.group], e.by)) # {}
                /\ \E f : Became(e, f, "delete", e.group, e.read)
           \/ LeaveMembers(e) /\ \E f : Became(e, f, "go", e.group, Without(roll[e.group], e.by))
           \/ LeaveGo(e) /\ e.read = << >> /\ \E f : Became(e, f, "sweep", e.group, e.read)
           \/ LeaveGo(e) /\ e.read # << >> /\ HandsOver(e)
                /\ \E f : Became(e, f, "promote", e.group, e.read)
           \/ LeaveSweep(e) /\ \E f : Became(e, f, "drop", e.group, e.read)
           \/ InviteCheck(e) /\ \E f : Became(e, f, "offer", e.group, e.read)
<1>1. Len(roll) + 1 \in Nat /\ newest \in Nat
  BY GroupRows DEF GroupTypes
<1>2. CASE CreateRow(e)
  <2>1. errands' = (errands \ {e}) \cup {[e EXCEPT !.at = "rowid", !.group = Len(roll) + 1]}
    BY SMTT(30), <1>2 DEF CreateRow
  <2> QED BY <1>1, <1>2, <2>1, ErrandBecomes DEF Steps
<1>3. CASE CreateRowId(e)
  <2>1. \/ errands' = errands \ {e}
        \/ newest # 0 /\ errands' = (errands \ {e}) \cup {[e EXCEPT !.at = "admin", !.group = newest]}
    BY SMTT(30), <1>3 DEF CreateRowId, Ends
  <2> QED BY <1>1, <1>3, <2>1, ErrandBecomes DEF Steps
<1>4. CASE LeaveMembers(e)
  <2>1. e.group \in Ids
    BY <1>4, GroupRows DEF LeaveMembers
  <2>2. Without(roll[e.group], e.by) \in Seq(MemberRow)
    BY <2>1, GroupRows, RowsWithout
  <2>3. errands' = (errands \ {e})
                     \cup {[e EXCEPT !.at = "go", !.read = Without(roll[e.group], e.by)]}
    BY <1>4 DEF LeaveMembers
  <2> QED BY <1>4, <2>2, <2>3, ErrandBecomes DEF Steps
<1>5. \A at \in Steps : GoesOn(e, at) => \E f : Became(e, f, at, e.group, e.read)
  BY ErrandBecomes
<1>6. CASE CreateAdmin(e)
  BY <1>5, <1>6 DEF CreateAdmin, Ends, Steps
<1>7. CASE Insert(e)
  BY <1>5, <1>7 DEF Insert, Ends, Steps
<1>8. CASE OtherAdmins(e)
  BY <1>5, <1>8 DEF OtherAdmins, Ends, Steps
<1>9. CASE LeaveGo(e)
  BY <1>5, <1>9 DEF LeaveGo, Ends, Steps
<1>10. CASE LeaveSweep(e)
  BY <1>5, <1>10 DEF LeaveSweep, Steps
<1>11. CASE InviteCheck(e)
  BY <1>5, <1>11 DEF InviteCheck, Ends, Steps
<1>12. CASE RemoveMember(e) \/ LeaveDrop(e) \/ Promote(e) \/ Offer(e) \/ CloseOffer(e) \/ Breaks(e)
  BY <1>12 DEF RemoveMember, LeaveDrop, Promote, Offer, CloseOffer, Breaks, Ends
<1> QED BY <1>2, <1>3, <1>4, <1>6, <1>7, <1>8, <1>9, <1>10, <1>11, <1>12 DEF ErrandStep

\* The list of group g becomes another.
Written(g, list) ==
  /\ roll' \in Seq(Seq(MemberRow)) /\ Len(roll') = Len(roll) /\ DOMAIN roll' = Ids
  /\ \A h \in Ids : Once(roll'[h])
  /\ roll'[g] = list /\ \A h \in Ids : h # g => roll'[h] = roll[h]

LEMMA RollWritten ==
    ASSUME GroupTypes, NEW g \in Ids, NEW list \in Seq(MemberRow), Once(list),
           roll' = [roll EXCEPT ![g] = list]
    PROVE  Written(g, list)
<1>1. roll \in Seq(Seq(MemberRow)) /\ DOMAIN roll = Ids
  BY DEF GroupTypes, Ids
<1>2. /\ roll' \in Seq(Seq(MemberRow)) /\ Len(roll') = Len(roll) /\ DOMAIN roll' = DOMAIN roll
      /\ roll'[g] = list /\ \A h \in DOMAIN roll : h # g => roll'[h] = roll[h]
  BY SMTT(30), <1>1, RowChanged
<1> QED BY <1>1, <1>2, GroupRows DEF Written

\* What each step makes of the list of its group.
Rewritten(e, list) ==
  \/ /\ CreateAdmin(e) /\ ~NoSuchGroup(e.group) /\ ~Within(roll[e.group], e.by)
     /\ Rows(list) = Rows(roll[e.group]) \cup {Seat(e.by, TRUE)}
  \/ /\ Insert(e) /\ ~NoSuchGroup(e.group)
     /\ Rows(list) = Rows(roll[e.group]) \cup {Seat(e.to, FALSE)}
  \/ RemoveMember(e) /\ list = Without(roll[e.group], e.to)
  \/ LeaveGo(e) /\ list = Without(roll[e.group], e.by)
  \/ LeaveDrop(e) /\ keyed /\ list = << >>
  \/ /\ Promote(e) /\ Len(list) = Len(roll[e.group])
     /\ Rows(list) = {IF m.who = Head(e.read).who THEN Seat(m.who, TRUE) ELSE m : m \in Rows(roll[e.group])}

LEMMA RollChanges ==
    ASSUME GroupTypes, NEW e \in errands, ErrandStep(e)
    PROVE  \/ CreateRow(e)
           \/ roll' = roll /\ ~RemoveMember(e) /\ ~LeaveGo(e) /\ ~Promote(e)
              /\ ~(LeaveDrop(e) /\ keyed)
              /\ (CreateAdmin(e) => Within(roll[e.group], e.by) \/ NoSuchGroup(e.group))
           \/ e.group \in Ids /\ \E list \in Seq(MemberRow) :
                 Written(e.group, list) /\ Rewritten(e, list)
<1> DEFINE g == e.group
           Done == \E list \in Seq(MemberRow) : Written(g, list) /\ Rewritten(e, list)
<1>1. /\ e.at # "row" => g \in Ids
      /\ g \in Ids => roll[g] \in Seq(MemberRow) /\ Once(roll[g])
      /\ e.by \in Folk /\ e.to \in Folk
  BY GroupRows, ErrandFields
<1>2. Seat(e.by, TRUE) \in MemberRow /\ Seat(e.by, TRUE).who = e.by
      /\ Seat(e.to, FALSE) \in MemberRow /\ Seat(e.to, FALSE).who = e.to
  BY <1>1, SeatIsRow
<1>3. CASE CreateAdmin(e) /\ ~(Within(roll[g], e.by) \/ NoSuchGroup(g))
  <2> DEFINE list == Append(roll[g], Seat(e.by, TRUE))
  <2>1. g \in Ids /\ roll' = [roll EXCEPT ![g] = list]
    BY <1>1, <1>3 DEF CreateAdmin
  <2>2. list \in Seq(MemberRow) /\ Once(list) /\ Rows(list) = Rows(roll[g]) \cup {Seat(e.by, TRUE)}
    <3> HIDE DEF MemberRow
    <3> QED BY <1>1, <1>2, <1>3, <2>1, RowsAppended
  <2> HIDE DEF list
  <2>3. Written(g, list)
    BY <2>1, <2>2, RollWritten
  <2>4. Rewritten(e, list)
    BY <1>3, <2>2 DEF Rewritten
  <2> QED BY <2>1, <2>2, <2>3, <2>4
<1>4. CASE Insert(e) /\ ~(Within(roll[g], e.to) \/ NoSuchGroup(g))
  <2> DEFINE list == Append(roll[g], Seat(e.to, FALSE))
  <2>1. g \in Ids /\ roll' = [roll EXCEPT ![g] = list]
    BY <1>1, <1>4 DEF Insert
  <2>2. list \in Seq(MemberRow) /\ Once(list) /\ Rows(list) = Rows(roll[g]) \cup {Seat(e.to, FALSE)}
    BY <1>1, <1>2, <1>4, <2>1, RowsAppended
  <2> HIDE DEF list
  <2>3. Written(g, list)
    BY <2>1, <2>2, RollWritten
  <2>4. Rewritten(e, list)
    BY <1>4, <2>2 DEF Rewritten
  <2> QED BY <2>1, <2>2, <2>3, <2>4
<1>5. CASE RemoveMember(e)
  <2> DEFINE list == Without(roll[g], e.to)
  <2>1. g \in Ids /\ roll' = [roll EXCEPT ![g] = list]
    BY <1>1, <1>5 DEF RemoveMember
  <2>2. list \in Seq(MemberRow) /\ Once(list)
    BY <1>1, <2>1, RowsWithout
  <2>3. Rewritten(e, list)
    BY <1>5 DEF Rewritten
  <2> HIDE DEF list
  <2>4. Written(g, list)
    BY <2>1, <2>2, RollWritten
  <2> QED BY <2>1, <2>2, <2>3, <2>4
<1>6. CASE LeaveGo(e)
  <2> DEFINE list == Without(roll[g], e.by)
  <2>1. g \in Ids /\ roll' = [roll EXCEPT ![g] = list]
    BY <1>1, <1>6 DEF LeaveGo
  <2>2. list \in Seq(MemberRow) /\ Once(list)
    BY <1>1, <2>1, RowsWithout
  <2>3. Rewritten(e, list)
    BY <1>6 DEF Rewritten
  <2> HIDE DEF list
  <2>4. Written(g, list)
    BY <2>1, <2>2, RollWritten
  <2> QED BY <2>1, <2>2, <2>3, <2>4
<1>7. CASE LeaveDrop(e) /\ keyed
  <2>1. g \in Ids /\ roll' = [roll EXCEPT ![g] = << >>]
    BY <1>1, <1>7 DEF LeaveDrop
  <2>2. << >> \in Seq(MemberRow) /\ Once(<< >>)
    BY DEF Once
  <2>3. Written(g, << >>)
    BY <2>1, <2>2, RollWritten
  <2>4. Rewritten(e, << >>)
    BY <1>7 DEF Rewritten
  <2> QED BY <2>1, <2>2, <2>3, <2>4
<1>8. CASE Promote(e)
  <2> DEFINE h == Head(e.read).who
             list == [k \in DOMAIN roll[g] |->
                        IF roll[g][k].who = h THEN Seat(roll[g][k].who, TRUE) ELSE roll[g][k]]
  <2>1. g \in Ids
    BY <1>1, <1>8 DEF Promote
  <2>2. roll' = [roll EXCEPT ![g] = list]
    BY <1>8, <2>1 DEF Promote
  <2>3. /\ list \in Seq(MemberRow) /\ Once(list) /\ Len(list) = Len(roll[g])
        /\ Rows(list) = {IF m.who = h THEN Seat(m.who, TRUE) ELSE m : m \in Rows(roll[g])}
    <3>1. roll[g] \in Seq(MemberRow) /\ Once(roll[g])
      BY <1>1, <2>1
    <3> HIDE DEF h
    <3> QED BY <3>1, RowsPromoted
  <2> HIDE DEF list
  <2>4. Written(g, list)
    BY <2>1, <2>2, <2>3, RollWritten
  <2>5. Rewritten(e, list)
    BY <1>8, <2>3 DEF Rewritten
  <2> QED BY <2>1, <2>3, <2>4, <2>5
<1>9. CASE roll' = roll
  BY <1>3, <1>5, <1>6, <1>7, <1>8, <1>9
<1> QED BY <1>3, <1>4, <1>5, <1>6, <1>7, <1>8, <1>9
        DEF ErrandStep, CreateRowId, CreateAdmin, Insert, OtherAdmins, LeaveMembers, LeaveSweep,
            LeaveDrop, InviteCheck, Offer, CloseOffer, Breaks

\* What a step leaves as it is, and what it notes when it does not.
LEMMA StepNotes ==
    ASSUME GroupTypes, NEW e \in errands, ErrandStep(e)
    PROVE  /\ keyed' = keyed /\ errandsMade' = errandsMade
           /\ disturbed \subseteq disturbed' /\ late \subseteq late' /\ mistaken \subseteq mistaken'
           /\ disturbed' \subseteq Ids /\ late' \subseteq Ids /\ mistaken' \subseteq Ids
           /\ makers' \in [1 .. MaxGroupsMade -> Folk \cup {0}]
           /\ IF CreateRow(e) THEN standing' = standing \cup {Len(roll) + 1} /\ newest' = Len(roll) + 1
              ELSE /\ standing' \subseteq standing /\ newest' = newest
                   /\ standing \subseteq standing' \/ (LeaveDrop(e) /\ standing' = standing \ {e.group})
<1>1. /\ \A d \in errands : d.at # "row" => d.group \in Ids
      /\ \A d \in errands : Relies(d) => d.group \in Ids
  <2>1. \A d \in errands : Relies(d) => d.at # "row"
    BY GroupRows DEF Relies, InCourse
  <2> QED BY <2>1, GroupRows
<1>2. disturbed \subseteq Ids /\ late \subseteq Ids /\ mistaken \subseteq Ids
      /\ newest \in 0 .. Len(roll) /\ Ids = 1 .. Len(roll) /\ Len(roll) \in Nat
  BY GroupRows DEF GroupTypes
<1>3. keyed' = keyed /\ errandsMade' = errandsMade
  BY DEF ErrandStep, CreateRow, CreateRowId, CreateAdmin, Insert, OtherAdmins, RemoveMember,
         LeaveMembers, LeaveGo, LeaveSweep, LeaveDrop, Promote, InviteCheck, Offer, CloseOffer,
         Breaks
<1>4. disturbed \subseteq disturbed' /\ disturbed' \subseteq Ids
  <2>1. CASE Disturbs(e)
    BY <1>1, <1>2, <2>1 DEF Disturbs
  <2>2. CASE Breaks(e)
    BY <1>1, <1>2, <2>2 DEF Breaks
  <2> QED BY <1>2, <2>1, <2>2
          DEF ErrandStep, CreateRow, CreateRowId, CreateAdmin, Insert, OtherAdmins, RemoveMember,
              LeaveMembers, LeaveGo, LeaveSweep, LeaveDrop, Promote, InviteCheck, Offer,
              CloseOffer, HistoryStands
<1>5. late \subseteq late' /\ late' \subseteq Ids
  <2>1. CASE Overtakes(e) /\ e.at # "row"
    BY <1>1, <1>2, <2>1 DEF Overtakes
  <2> QED BY <1>2, <2>1
          DEF ErrandStep, CreateRow, CreateRowId, CreateAdmin, Insert, OtherAdmins, RemoveMember,
              LeaveMembers, LeaveGo, LeaveSweep, LeaveDrop, Promote, InviteCheck, Offer,
              CloseOffer, HistoryStands, Breaks
<1>6. mistaken \subseteq mistaken' /\ mistaken' \subseteq Ids
  <2>1. CASE CreateRowId(e)
    BY <1>1, <1>2, <2>1 DEF CreateRowId
  <2> QED BY <1>2, <2>1
          DEF ErrandStep, CreateRow, CreateAdmin, Insert, OtherAdmins, RemoveMember,
              LeaveMembers, LeaveGo, LeaveSweep, LeaveDrop, Promote, InviteCheck, Offer,
              CloseOffer, HistoryStands, Breaks
<1>7. IF CreateRow(e) THEN standing' = standing \cup {Len(roll) + 1} /\ newest' = Len(roll) + 1
      ELSE /\ standing' \subseteq standing /\ newest' = newest
           /\ standing \subseteq standing' \/ (LeaveDrop(e) /\ standing' = standing \ {e.group})
  BY DEF ErrandStep, CreateRow, CreateRowId, CreateAdmin, Insert, OtherAdmins, RemoveMember,
         LeaveMembers, LeaveGo, LeaveSweep, LeaveDrop, Promote, InviteCheck, Offer,
         CloseOffer, HistoryStands, Breaks
<1>8. makers' \in [1 .. MaxGroupsMade -> Folk \cup {0}]
  <2>1. makers \in [1 .. MaxGroupsMade -> Folk \cup {0}] /\ e.by \in Folk
    BY ErrandFields DEF GroupTypes
  <2>2. CASE makers' = makers
    BY <2>1, <2>2
  <2>3. CASE CreateRow(e)
    BY <2>1, <2>3 DEF CreateRow
  <2> QED BY <2>2, <2>3
          DEF ErrandStep, CreateRowId, CreateAdmin, Insert, OtherAdmins, RemoveMember,
              LeaveMembers, LeaveGo, LeaveSweep, LeaveDrop, Promote, InviteCheck, Offer,
              CloseOffer, Breaks
<1> QED BY <1>3, <1>4, <1>5, <1>6, <1>7, <1>8

LEMMA StepOffers ==
    ASSUME GroupTypes, NEW e \in errands, ErrandStep(e)
    PROVE  /\ offers' \subseteq OfferRow
           /\ \A o \in offers' : \/ \E p \in offers : p.group = o.group
                                 \/ Offer(e) /\ o.group = e.group /\ e.group \in Ids
<1>1. offers \subseteq OfferRow
  BY DEF GroupTypes
<1>2. CASE offers' \subseteq offers
  BY <1>1, <1>2
<1>3. CASE Offer(e)
  <2> DEFINE new == [id |-> e.n + 1, group |-> e.group, by |-> e.by, to |-> e.to, status |-> "pending"]
  <2>1. e.n \in Nat /\ e.group \in Ids /\ e.group \in Nat /\ {e.by, e.to} \subseteq Folk
    BY <1>3, GroupRows DEF Offer, ErrandRow
  <2>2. new \in OfferRow /\ new.group = e.group
    BY <2>1 DEF OfferRow
  <2>3. offers' \subseteq offers \cup {new}
    BY <1>3 DEF Offer
  <2> HIDE DEF new
  <2> QED BY <1>1, <1>3, <2>1, <2>2, <2>3
<1>4. CASE CloseOffer(e)
  <2> DEFINE says == IF e.yes THEN "accepted" ELSE "declined"
  <2>1. offers' = {IF o.id = e.offer THEN [o EXCEPT !.status = says] ELSE o : o \in offers}
    BY <1>4 DEF CloseOffer
  <2>2. \A o \in OfferRow : /\ [o EXCEPT !.status = says] \in OfferRow
                            /\ [o EXCEPT !.status = says].group = o.group
    BY DEF OfferRow
  <2> HIDE DEF says
  <2>3. ASSUME NEW o \in offers'
        PROVE  o \in OfferRow /\ \E p \in offers : p.group = o.group
    <3>1. PICK p \in offers : o = IF p.id = e.offer THEN [p EXCEPT !.status = says] ELSE p
      BY <2>1
    <3> QED BY <1>1, <2>2, <3>1
  <2> QED BY <2>3
<1> QED BY <1>2, <1>3, <1>4
        DEF ErrandStep, CreateRow, CreateRowId, CreateAdmin, Insert, OtherAdmins, RemoveMember,
            LeaveMembers, LeaveGo, LeaveSweep, LeaveDrop, Promote, InviteCheck, Breaks

LEMMA RollMade ==
    ASSUME GroupTypes, NEW e \in errands, CreateRow(e)
    PROVE  LET n == Len(roll) + 1
           IN  /\ roll' \in Seq(Seq(MemberRow)) /\ Len(roll') = n /\ DOMAIN roll' = Ids \cup {n}
               /\ n \notin Ids /\ n \in Nat /\ n <= MaxGroupsMade
               /\ roll'[n] = << >> /\ \A h \in Ids : roll'[h] = roll[h]
               /\ \A h \in DOMAIN roll' : Once(roll'[h])
<1>1. /\ roll \in Seq(Seq(MemberRow)) /\ << >> \in Seq(MemberRow) /\ roll' = Append(roll, << >>)
      /\ Len(roll) \in Nat /\ MaxGroupsMade \in Nat /\ Len(roll) < MaxGroupsMade
  BY GroupRows, GroupBounds DEF GroupTypes, CreateRow
<1>2. /\ roll' \in Seq(Seq(MemberRow)) /\ Len(roll') = Len(roll) + 1
      /\ DOMAIN roll' = DOMAIN roll \cup {Len(roll')} /\ Len(roll') \notin DOMAIN roll
      /\ roll'[Len(roll')] = << >> /\ \A h \in DOMAIN roll : roll'[h] = roll[h]
  BY <1>1, RowAdded
<1>3. Once(<< >>)
  BY DEF Once
<1> QED BY <1>1, <1>2, <1>3, GroupRows DEF Ids

LEMMA GroupStepTypes ==
    ASSUME GroupTypes, NEW e \in errands, ErrandStep(e)
    PROVE  GroupTypes'
<1>1. /\ roll' \in Seq(Seq(MemberRow)) /\ Len(roll') <= MaxGroupsMade
      /\ \A g \in DOMAIN roll' : Once(roll'[g])
      /\ Ids \subseteq DOMAIN roll' /\ Len(roll) <= Len(roll') /\ Len(roll') \in Nat
      /\ CreateRow(e) => Len(roll) + 1 \in DOMAIN roll' /\ Len(roll') = Len(roll) + 1
  <2>1. CASE CreateRow(e)
    BY <2>1, RollMade, GroupRows
  <2>2. CASE ~CreateRow(e) /\ roll' = roll
    BY <2>2, GroupRows DEF GroupTypes, Ids
  <2>3. CASE ~CreateRow(e) /\ \E list \in Seq(MemberRow) : Written(e.group, list)
    BY <2>3, GroupRows DEF GroupTypes, Written
  <2> QED BY <2>1, <2>2, <2>3, RollChanges
<1>2. errands' \subseteq ErrandRow /\ \A d \in errands' : d.group \in DOMAIN roll' \cup {0} /\ InCourse(d)
  <2>1. ASSUME NEW f, NEW at, NEW g \in DOMAIN roll' \cup {0}, NEW read, Became(e, f, at, g, read), InCourse(f)
        PROVE  errands' \subseteq ErrandRow /\ \A d \in errands' : d.group \in DOMAIN roll' \cup {0} /\ InCourse(d)
    BY <1>1, <2>1 DEF Became, GroupTypes
  <2>2. CASE errands' = errands \ {e}
    BY <1>1, <2>2 DEF GroupTypes
  <2>3. e.at # "row" => e.group \in DOMAIN roll' /\ e.group # 0
    BY <1>1, GroupRows
  <2>4. newest # 0 => newest \in DOMAIN roll'
    BY <1>1, GroupRows DEF GroupTypes
  <2>5. InCourse(e) /\ 0 \notin DOMAIN roll'
    <3>1. DOMAIN roll' = 1 .. Len(roll')
      BY <1>1, RowTyped
    <3> QED BY <3>1, GroupRows
  <2>6. CASE CreateRow(e) /\ \E f : Became(e, f, "rowid", Len(roll) + 1, e.read)
    <3>1. PICK f : Became(e, f, "rowid", Len(roll) + 1, e.read)
      BY <2>6
    <3>2. InCourse(f)
      BY <1>1, <2>5, <2>6, <3>1 DEF Became, InCourse, CreateRow, Founding, Leaving, Removing
    <3> QED BY <1>1, <2>1, <2>6, <3>1, <3>2
  <2>7. CASE CreateRowId(e) /\ newest # 0 /\ \E f : Became(e, f, "admin", newest, e.read)
    <3>1. PICK f : Became(e, f, "admin", newest, e.read)
      BY <2>7
    <3>2. InCourse(f)
      BY <2>5, <2>7, <3>1 DEF Became, InCourse, CreateRowId, Founding, Leaving, Removing
    <3> QED BY <2>1, <2>4, <2>7, <3>1, <3>2
  <2>8. ASSUME NEW f, NEW at, NEW read, Became(e, f, at, e.group, read), e.at # "row",
               /\ at \notin Founding \cup {"row"}
               /\ at \in Leaving <=> e.at \in Leaving
               /\ at \in Removing <=> e.at \in Removing
        PROVE  errands' \subseteq ErrandRow /\ \A d \in errands' : d.group \in DOMAIN roll' \cup {0} /\ InCourse(d)
    <3>1. InCourse(f)
      BY <2>3, <2>5, <2>8 DEF Became, InCourse
    <3> QED BY <2>1, <2>3, <2>8, <3>1
  <2>9. CASE CreateAdmin(e) /\ \E f : Became(e, f, "insert", e.group, e.read)
    BY <2>8, <2>9 DEF CreateAdmin, Founding, Leaving, Removing
  <2>10. CASE Insert(e) /\ \E f : Became(e, f, "close", e.group, e.read)
    BY <2>8, <2>10 DEF Insert, Founding, Leaving, Removing
  <2>11. CASE OtherAdmins(e) /\ \E f : Became(e, f, "delete", e.group, e.read)
    BY <2>8, <2>11 DEF OtherAdmins, Founding, Leaving, Removing
  <2>12. CASE LeaveMembers(e) /\ \E f : Became(e, f, "go", e.group, Without(roll[e.group], e.by))
    BY <2>8, <2>12 DEF LeaveMembers, Founding, Leaving, Removing
  <2>13. CASE LeaveGo(e) /\ \E f : Became(e, f, "sweep", e.group, e.read)
    BY <2>8, <2>13 DEF LeaveGo, Founding, Leaving, Removing
  <2>14. CASE LeaveGo(e) /\ \E f : Became(e, f, "promote", e.group, e.read)
    BY <2>8, <2>14 DEF LeaveGo, Founding, Leaving, Removing
  <2>15. CASE LeaveSweep(e) /\ \E f : Became(e, f, "drop", e.group, e.read)
    BY <2>8, <2>15 DEF LeaveSweep, Founding, Leaving, Removing
  <2>16. CASE InviteCheck(e) /\ \E f : Became(e, f, "offer", e.group, e.read)
    BY <2>8, <2>16 DEF InviteCheck, Founding, Leaving, Removing
  <2> QED BY <2>2, <2>6, <2>7, <2>9, <2>10, <2>11, <2>12, <2>13, <2>14, <2>15, <2>16, ErrandCourse
<1>3. offers' \subseteq OfferRow /\ \A o \in offers' : o.group \in DOMAIN roll'
  BY <1>1, StepOffers DEF GroupTypes
<1>4. standing' \subseteq DOMAIN roll' /\ newest' \in 0 .. Len(roll')
  BY <1>1, StepNotes, GroupRows DEF GroupTypes
<1>5. /\ keyed' \in BOOLEAN /\ errandsMade' \in 0 .. MaxErrands
      /\ makers' \in [1 .. MaxGroupsMade -> Folk \cup {0}]
      /\ disturbed' \subseteq DOMAIN roll' /\ late' \subseteq DOMAIN roll'
      /\ mistaken' \subseteq DOMAIN roll'
  BY <1>1, StepNotes DEF GroupTypes
<1>6. Ids' = DOMAIN roll'
  BY DEF Ids
<1> QED BY <1>1, <1>2, <1>3, <1>4, <1>5, <1>6 DEF GroupTypes

\* A new request.
LEMMA GroupAsked ==
    ASSUME GroupTypes, NEW op \in GroupOps, NEW u \in Folk, NEW t \in Folk, NEW g \in Ids,
           NEW yes \in BOOLEAN, Asks(op, u, t, g, yes)
    PROVE  /\ UNCHANGED <<keyed, standing, roll, makers, offers, newest, disturbed, late, mistaken>>
           /\ Ids' = Ids /\ errandsMade' \in 0 .. MaxErrands
           /\ \E f \in ErrandRow :
                /\ errands' = errands \cup {f} /\ InCourse(f)
                /\ f.op = op /\ f.by = u /\ f.to = t /\ f.led = IsAdminOf(g, u)
                /\ f.group = IF op = "create" THEN 0 ELSE g
                /\ op = "leave" => f.at = "members"
                /\ op = "remove" => f.at = IF u = t /\ IsAdminOf(g, u) THEN "others" ELSE "delete"
                /\ f.at \notin Founding \cup {"go", "promote", "sweep", "drop"}
<1> DEFINE start == CASE op = "create" -> "row"
                     [] op = "add" -> "insert"
                     [] op = "remove" -> IF u = t /\ IsAdminOf(g, u) THEN "others" ELSE "delete"
                     [] op = "leave" -> "members"
                     [] op = "invite" -> "check"
                     [] op = "answer" -> IF yes THEN "insert" ELSE "close"
           group == IF op = "create" THEN 0 ELSE g
           offer == IF op = "answer" THEN OfferOf(g, u).id ELSE 0
           f == [n |-> errandsMade, op |-> op, by |-> u, to |-> t, group |-> group,
                 led |-> IsAdminOf(g, u), yes |-> yes, offer |-> offer, read |-> << >>, at |-> start]
<1>1. /\ UNCHANGED <<keyed, standing, roll, makers, offers, newest, disturbed, late, mistaken>>
      /\ errands' = errands \cup {f} /\ errandsMade' = errandsMade + 1 /\ errandsMade < MaxErrands
  BY DEF Asks, HistoryStands
<1>2. Ids' = Ids /\ errandsMade' \in 0 .. MaxErrands /\ errandsMade \in Nat
  BY <1>1, GroupBounds DEF Ids, GroupTypes
<1>3. offer \in Nat
  <2>1. CASE op = "answer"
    <3>1. OfferOf(g, u) \in offers
      BY <2>1 DEF Asks, OfferOf
    <3> QED BY <2>1, <3>1 DEF GroupTypes, OfferRow
  <2> QED BY <2>1
<1>4. start \in Steps
  BY DEF GroupOps, Steps
<1>5. group \in Nat /\ g # 0
  BY GroupRows
<1>6. IsAdminOf(g, u) \in BOOLEAN
  BY DEF IsAdminOf
<1>7. << >> \in Seq(MemberRow)
  OBVIOUS
<1>8. /\ op = "create" <=> start = "row"
      /\ op = "leave" <=> start = "members"
      /\ op = "remove" <=> start \in Removing
      /\ op = "remove" => start = IF u = t /\ IsAdminOf(g, u) THEN "others" ELSE "delete"
      /\ start \notin Founding \cup {"go", "promote", "sweep", "drop"}
  BY DEF GroupOps, Removing, Founding
<1>9. group = 0 <=> op = "create"
  BY <1>5
<1> HIDE DEF start, group, offer
<1>10. f \in ErrandRow
  BY <1>2, <1>3, <1>4, <1>5, <1>6, <1>7 DEF ErrandRow
<1>11. /\ f.op = op /\ f.by = u /\ f.to = t /\ f.led = IsAdminOf(g, u) /\ f.group = group
       /\ f.at = start
  OBVIOUS
<1>12. InCourse(f)
  BY <1>8, <1>9, <1>11 DEF InCourse, Leaving
<1> HIDE DEF f
<1> QED BY <1>1, <1>2, <1>8, <1>10, <1>11, <1>12 DEF group

\* An account that goes: what it leaves of every list.
LEMMA AccountLists ==
    ASSUME GroupTypes, NEW u \in Folk, AccountGoes(u)
    PROVE  /\ roll' \in Seq(Seq(MemberRow)) /\ Len(roll') = Len(roll) /\ Ids' = Ids
           /\ standing' \subseteq standing /\ offers' \subseteq offers
           /\ disturbed \subseteq disturbed' /\ late \subseteq late'
           /\ \A g \in Ids : g \in standing /\ g \notin standing' => roll'[g] = << >>
           /\ \A g \in Ids : ~(g \in standing /\ g \notin standing') => roll'[g] = Without(roll[g], u)
<1> DEFINE taken == {g \in standing : makers[g] = u}
           list(g) == IF g \in taken THEN << >> ELSE Without(roll[g], u)
<1>1. /\ standing' = standing \ taken /\ roll' = [g \in Ids |-> list(g)]
      /\ offers' \subseteq offers /\ disturbed \subseteq disturbed' /\ late \subseteq late'
  BY DEF AccountGoes
<1>2. Ids = 1 .. Len(roll) /\ Len(roll) \in Nat
  BY GroupRows DEF GroupTypes
<1>3. ASSUME NEW g \in Ids PROVE list(g) \in Seq(MemberRow)
  <2>1. Without(roll[g], u) \in Seq(MemberRow) /\ << >> \in Seq(MemberRow)
    BY GroupRows, RowsWithout
  <2> QED BY <2>1
<1>4. roll' \in [1 .. Len(roll) -> Seq(MemberRow)]
  <2> HIDE DEF list, MemberRow
  <2> QED BY <1>1, <1>2, <1>3
<1>5. roll' \in Seq(Seq(MemberRow)) /\ Len(roll') = Len(roll)
  <2> DEFINE M == Seq(MemberRow)
             n == Len(roll)
  <2>1. roll' \in [1 .. n -> M] /\ n \in Nat
    BY <1>2, <1>4
  <2> HIDE DEF M, n
  <2>2. roll' \in Seq(M) /\ Len(roll') = n
    BY <2>1
  <2> QED BY <2>2 DEF M, n
<1>6. Ids' = Ids
  BY <1>1, <1>2 DEF Ids
<1>7. \A g \in Ids : roll'[g] = list(g)
  <2> HIDE DEF list
  <2> QED BY <1>1
<1> QED BY <1>1, <1>5, <1>6, <1>7

LEMMA AccountTypes ==
    ASSUME GroupTypes, NEW u \in Folk, AccountGoes(u)
    PROVE  GroupTypes'
<1>1. UNCHANGED <<keyed, makers, errands, newest, mistaken>>
  BY DEF AccountGoes
<1>2. \A g \in Ids : Once(roll'[g])
  <2>1. Once(<< >>)
    BY DEF Once
  <2>2. \A g \in Ids : Once(Without(roll[g], u))
    BY GroupRows, RowsWithout
  <2> QED BY <2>1, <2>2, AccountLists
<1>3. disturbed' \subseteq Ids
  BY DEF AccountGoes, GroupTypes
<1>4. late' \subseteq Ids
  BY DEF AccountGoes, GroupTypes
<1>5. errandsMade' \in 0 .. MaxErrands
  BY GroupBounds DEF AccountGoes, GroupTypes
<1> QED BY <1>1, <1>2, <1>3, <1>4, <1>5, AccountLists DEF GroupTypes

LEMMA GroupsNextTypes ==
    ASSUME GroupTypes, [GroupsNext]_groupsVars
    PROVE  GroupTypes'
<1>1. CASE UNCHANGED groupsVars
  BY <1>1 DEF groupsVars, GroupTypes, Ids
<1>2. CASE InsertsAnywhere
  BY <1>2 DEF InsertsAnywhere, HistoryStands, GroupTypes, Ids
<1>3. ASSUME NEW op \in GroupOps, NEW u \in Folk, NEW t \in Folk, NEW g \in Ids,
             NEW yes \in BOOLEAN, Asks(op, u, t, g, yes)
      PROVE  GroupTypes'
  <2>1. PICK f \in ErrandRow : /\ errands' = errands \cup {f} /\ InCourse(f)
                               /\ f.group \in Ids \cup {0}
    BY <1>3, GroupAsked
  <2>2. /\ UNCHANGED <<keyed, standing, roll, makers, offers, newest, disturbed, late, mistaken>>
        /\ Ids' = Ids /\ errandsMade' \in 0 .. MaxErrands
    BY <1>3, GroupAsked
  <2> QED BY <2>1, <2>2 DEF GroupTypes
<1>4. ASSUME NEW u \in Folk, AccountGoes(u)
      PROVE  GroupTypes'
  BY <1>4, AccountTypes
<1> QED BY <1>1, <1>2, <1>3, <1>4, GroupStepTypes DEF GroupsNext, GroupOps

LEMMA GroupsStart == GroupsInit => GroupsInv
<1> SUFFICES ASSUME GroupsInit PROVE GroupsInv
  OBVIOUS
<1>1. PICK n \in 2 .. Cardinality(Folk) : roll = <<[k \in 1 .. n |-> Seat(k, k = 1)]>>
  BY DEF GroupsInit
<1> DEFINE list == [k \in 1 .. n |-> Seat(k, k = 1)]
<1>2. Cardinality(Folk) \in Nat /\ Folk = 1 .. Cardinality(Folk)
  BY GroupBounds, FS_CardinalityType
<1>3. \A k \in 1 .. n : Seat(k, k = 1) \in MemberRow /\ Seat(k, k = 1).who = k
         /\ (Seat(k, k = 1).admin <=> k = 1)
  <2> SUFFICES ASSUME NEW k \in 1 .. n
               PROVE  /\ Seat(k, k = 1) \in MemberRow /\ Seat(k, k = 1).who = k
                      /\ Seat(k, k = 1).admin <=> k = 1
    OBVIOUS
  <2>1. k \in Folk /\ (k = 1) \in BOOLEAN
    BY <1>2
  <2>2. /\ Seat(k, k = 1) \in MemberRow /\ Seat(k, k = 1).who = k
        /\ Seat(k, k = 1).admin = (k = 1)
    BY ONLY <2>1, SeatIsRow
  <2> QED BY <2>2
<1>4. list \in Seq(MemberRow) /\ DOMAIN list = 1 .. n /\ n \in Nat
  <2>1. list \in [1 .. n -> MemberRow] /\ n \in Nat
    BY <1>2, <1>3
  <2> HIDE DEF list, MemberRow
  <2> QED BY <2>1
<1>5. Once(list) /\ Led(list)
  <2>1. Once(list)
    BY <1>3, <1>4 DEF Once
  <2>2. list[1] \in Rows(list) /\ list[1].admin
    <3>1. 1 \in 1 .. n
      BY <1>2
    <3> QED BY <1>3, <1>4, <3>1 DEF Rows
  <2>3. \A m \in Rows(list) : m.admin => m = list[1]
    BY <1>3, <1>4 DEF Rows
  <2> QED BY <2>1, <2>2, <2>3 DEF Led
<1> HIDE DEF list
<1>6. roll = <<list>> /\ Ids = {1} /\ roll[1] = list /\ Len(roll) = 1
  BY <1>1 DEF list, Ids
<1>7. GroupTypes
  <2>1. roll \in Seq(Seq(MemberRow))
    BY <1>4, <1>6
  <2>2. 1 <= MaxGroupsMade /\ MaxErrands \in Nat
    BY GroupBounds
  <2>3. makers \in [1 .. MaxGroupsMade -> Folk \cup {0}]
    <3>1. 1 \in Folk
      BY <1>2
    <3> QED BY <3>1 DEF GroupsInit
  <2> QED BY <1>5, <1>6, <2>1, <2>2, <2>3 DEF GroupTypes, GroupsInit
<1>8. errands = {} /\ standing = {1}
  BY DEF GroupsInit
<1>9. ErrandsUpToDate /\ MadeByOne
  BY <1>8 DEF ErrandsUpToDate, MadeByOne
<1>10. LedOrSettling
  BY <1>5, <1>6, <1>8 DEF LedOrSettling, Whole
<1>11. GoneQuietly /\ NobodyInNoGroup
  BY <1>6, <1>8 DEF GoneQuietly, Going, NobodyInNoGroup
<1> QED BY <1>7, <1>9, <1>10, <1>11 DEF GroupsInv

LEMMA AdminRow ==
    ASSUME NEW list \in Seq(MemberRow), NEW w
    PROVE  Seat(w, TRUE) \in Rows(list) <=> \E m \in Rows(list) : m.who = w /\ m.admin
<1>1. Rows(list) \subseteq MemberRow
  BY ListRows
<1>2. \A m \in MemberRow : m.admin => m = Seat(m.who, TRUE)
  BY DEF MemberRow, Seat
<1>3. Seat(w, TRUE).who = w /\ Seat(w, TRUE).admin
  BY DEF Seat
<1> QED BY <1>1, <1>2, <1>3

LEMMA WholeBefore ==
    ASSUME GroupTypes, NEW e \in errands, ErrandStep(e), NEW g \in Whole'
    PROVE  \/ g \in Whole /\ g \in Ids
           \/ CreateRow(e) /\ g = Len(roll) + 1
BY StepNotes, GroupRows DEF Whole

\* What another request read of a group that stays whole is still so.
LEMMA OthersStand ==
    ASSUME GroupTypes, NEW e \in errands, ErrandStep(e), NEW d \in errands \ {e},
           d.at \in Leaving \cup Removing, d.group \in Whole'
    PROVE  d.group \in Whole /\ roll'[d.group] = roll[d.group]
<1>1. d.group \in Ids /\ Relies(d)
  BY GroupRows DEF Relies, InCourse, Leaving, Removing
<1>2. d.group \in Whole
  BY <1>1, WholeBefore, GroupRows
<1>3. CASE CreateRow(e)
  BY <1>1, <1>2, <1>3, RollMade
<1>4. CASE \E list \in Seq(MemberRow) : Written(e.group, list) /\ Rewritten(e, list)
  <2>1. CASE d.group # e.group
    BY <1>1, <1>2, <1>4, <2>1 DEF Written
  <2>2. CASE d.group = e.group /\ Disturbs(e)
    BY <1>1, <2>2 DEF Disturbs, Whole
  <2>3. CASE d.group = e.group /\ LeaveDrop(e)
    BY <2>3 DEF LeaveDrop, Whole
  <2> QED BY <1>4, <2>1, <2>2, <2>3
          DEF Rewritten, CreateAdmin, Insert, RemoveMember, LeaveGo, Promote
<1> QED BY <1>2, <1>3, <1>4, RollChanges

\* A group of which no request is mistaken has one admin at most.
LEMMA OneHead ==
    ASSUME GroupTypes, ErrandsUpToDate, MadeByOne, LedOrSettling, NEW g \in Whole,
           NEW a \in Rows(roll[g]), NEW b \in Rows(roll[g]), a.admin, b.admin
    PROVE  a = b
<1>1. g \in Ids /\ roll[g] \in Seq(MemberRow) /\ g \in standing \ mistaken
  BY GroupRows DEF Whole
<1>2. roll[g] # << >>
  BY <1>1, ListRows
<1>3. CASE Led(roll[g])
  BY <1>3 DEF Led
<1>4. ASSUME NEW d \in errands, d.group = g, Settling(d)
      PROVE  FALSE
  <2>1. UpToDate(d)
    BY <1>4 DEF ErrandsUpToDate
  <2>2. d.at \notin Founding
    BY <1>1, <1>2, <1>4 DEF MadeByOne
  <2> QED BY <1>2, <1>4, <2>1, <2>2 DEF Settling, UpToDate
<1> QED BY <1>3, <1>4 DEF LedOrSettling

LEMMA StepUpToDate ==
    ASSUME GroupTypes, ErrandsUpToDate, MadeByOne, LedOrSettling, NEW e \in errands, ErrandStep(e)
    PROVE  ErrandsUpToDate'
<1> SUFFICES ASSUME NEW d \in errands', d.group \in Whole' PROVE UpToDate(d)'
  BY DEF ErrandsUpToDate
<1>1. CASE d \in errands \ {e}
  <2>1. CASE d.at \in Leaving \cup Removing
    <3>1. roll'[d.group] = roll[d.group] /\ UpToDate(d)
      BY <1>1, <2>1, OthersStand DEF ErrandsUpToDate
    <3> QED BY <3>1 DEF UpToDate
  <2> QED BY <2>1 DEF UpToDate, Leaving, Removing
<1>2. ASSUME d.at \notin Leaving \cup Removing
      PROVE  UpToDate(d)'
  BY <1>2 DEF UpToDate, Leaving, Removing
<1>3. /\ e.at # "row" => e.group \in Ids /\ roll[e.group] \in Seq(MemberRow) /\ Once(roll[e.group])
      /\ e.by \in Folk /\ e.to \in Folk
  BY GroupRows, ErrandFields
<1>4. e.group \in Whole => UpToDate(e)
  BY DEF ErrandsUpToDate
<1>5. ~CreateRow(e) => d.group \in Whole
  BY WholeBefore
<1>6. CASE /\ OtherAdmins(e) /\ Heads(Without(roll[e.group], e.by)) # {}
           /\ Became(e, d, "delete", e.group, e.read)
  <2>1. e.at = "others" /\ d.group = e.group /\ d.to = e.to /\ d.at = "delete" /\ roll' = roll
    BY <1>6 DEF OtherAdmins, Became
  <2>2. e.group \in Whole /\ e.to = e.by /\ Seat(e.by, TRUE) \in Rows(roll[e.group])
    BY <1>4, <1>5, <1>6, <2>1 DEF UpToDate, OtherAdmins, CreateRow
  <2>3. PICK m \in Rows(roll[e.group]) : m.who # e.by /\ m.admin
    BY <1>3, <1>6, <2>1, RowsWithout, ListRows
  <2>4. Seat(e.by, TRUE).admin /\ Seat(e.by, TRUE).who = e.by
    BY DEF Seat
  <2>5. FALSE
    BY <2>2, <2>3, <2>4, OneHead
  <2> QED BY <2>5
<1>7. CASE LeaveMembers(e) /\ Became(e, d, "go", e.group, Without(roll[e.group], e.by))
  <2>1. /\ e.at = "members" /\ d.group = e.group /\ d.by = e.by /\ d.at = "go" /\ roll' = roll
        /\ d.led = e.led /\ d.read = Without(roll[e.group], e.by)
    BY <1>7 DEF LeaveMembers, Became
  <2>2. e.led <=> Seat(e.by, TRUE) \in Rows(roll[e.group])
    BY <1>4, <1>5, <1>7, <2>1 DEF UpToDate, CreateRow
  <2>3. /\ d.led <=> Seat(d.by, TRUE) \in Rows(roll'[d.group])
        /\ d.read = Without(roll'[d.group], d.by)
    BY <2>1, <2>2
  <2> QED BY <2>1, <2>3 DEF UpToDate
<1>8. CASE LeaveGo(e) /\ \E at \in {"sweep", "promote"} :
             /\ Became(e, d, at, e.group, e.read)
             /\ at = "sweep" => e.read = << >>
             /\ at = "promote" => e.read # << >> /\ HandsOver(e)
  <2>1. e.at = "go" /\ d.group = e.group /\ d.read = e.read /\ e.group \in Ids /\ d.at \in {"sweep", "promote"}
    BY <1>3, <1>8 DEF LeaveGo, Became
  <2>2. e.read = Without(roll[e.group], e.by)
    BY <1>4, <1>5, <1>8, <2>1 DEF UpToDate, LeaveGo, CreateRow
  <2>3. roll'[e.group] = e.read
    BY <1>8, <2>1, <2>2 DEF LeaveGo, Ids
  <2>4. d.at = "sweep" => e.read = << >>
    BY <1>8 DEF Became
  <2>5. d.at = "promote" => e.read # << >> /\ Heads(e.read) = {}
    BY <1>8 DEF Became, HandsOver
  <2>6. d.at = "promote" => \A m \in Rows(e.read) : ~m.admin
    BY <1>3, <2>1, <2>2, <2>5, RowsWithout, ListRows
  <2> QED BY <2>1, <2>3, <2>4, <2>5, <2>6 DEF UpToDate
<1>9. CASE LeaveSweep(e) /\ Became(e, d, "drop", e.group, e.read)
  <2>1. e.at = "sweep" /\ d.group = e.group /\ d.at = "drop" /\ roll' = roll
    BY <1>9 DEF LeaveSweep, Became
  <2>2. roll[e.group] = << >>
    BY <1>4, <1>5, <1>9, <2>1 DEF UpToDate, LeaveSweep, CreateRow
  <2> QED BY <2>1, <2>2 DEF UpToDate
<1>10. ASSUME NEW f, NEW at, NEW h, NEW read, Became(e, f, at, h, read)
       PROVE  d \in errands \ {e} \/ (d = f /\ d.at = at)
  BY <1>10 DEF Became
<1>11. CASE d \notin errands \ {e} /\ d.at \in Leaving \cup Removing
  <2>1. \/ OtherAdmins(e) /\ Heads(Without(roll[e.group], e.by)) # {}
             /\ Became(e, d, "delete", e.group, e.read)
        \/ LeaveMembers(e) /\ Became(e, d, "go", e.group, Without(roll[e.group], e.by))
        \/ LeaveGo(e) /\ e.read = << >> /\ Became(e, d, "sweep", e.group, e.read)
        \/ LeaveGo(e) /\ e.read # << >> /\ HandsOver(e)
             /\ Became(e, d, "promote", e.group, e.read)
        \/ LeaveSweep(e) /\ Became(e, d, "drop", e.group, e.read)
    BY <1>10, <1>11, ErrandCourse DEF Leaving, Removing
  <2> QED BY <1>6, <1>7, <1>8, <1>9, <2>1
<1> QED BY <1>1, <1>2, <1>11

\* What is new after a step is its own errand.
LEMMA NewErrand ==
    ASSUME GroupTypes, NEW e \in errands, ErrandStep(e), NEW d \in errands', d \notin errands \ {e}
    PROVE  /\ d.op = e.op /\ d.by = e.by /\ d.to = e.to
           /\ IF CreateRow(e) THEN d.group = Len(roll) + 1 /\ d.at = "rowid"
              ELSE IF CreateRowId(e) THEN newest # 0 /\ d.group = newest /\ d.at = "admin"
              ELSE d.group = e.group /\ d.at \notin Founding
<1>1. ASSUME NEW f, NEW at, NEW h, NEW read, Became(e, f, at, h, read)
      PROVE  d.op = e.op /\ d.by = e.by /\ d.to = e.to /\ d.at = at /\ d.group = h
  BY <1>1 DEF Became
<1>2. \A f, at, h, read : Became(e, f, at, h, read) =>
         d.op = e.op /\ d.by = e.by /\ d.to = e.to /\ d.at = at /\ d.group = h
  BY <1>1
<1>3. ~(CreateRow(e) /\ CreateRowId(e))
  BY DEF CreateRow, CreateRowId
<1>4. CASE CreateRow(e) /\ \E f : Became(e, f, "rowid", Len(roll) + 1, e.read)
  BY <1>2, <1>3, <1>4
<1>5. CASE CreateRowId(e) /\ newest # 0 /\ \E f : Became(e, f, "admin", newest, e.read)
  BY <1>2, <1>3, <1>5
<1>6. ASSUME NEW f, NEW at, NEW read, Became(e, f, at, e.group, read),
             e.at \notin {"row", "rowid"}, at \notin Founding
      PROVE  /\ d.op = e.op /\ d.by = e.by /\ d.to = e.to
             /\ ~CreateRow(e) /\ ~CreateRowId(e) /\ d.group = e.group /\ d.at \notin Founding
  BY <1>2, <1>6 DEF CreateRow, CreateRowId
<1>7. CASE CreateAdmin(e) /\ \E f : Became(e, f, "insert", e.group, e.read)
  BY <1>6, <1>7 DEF CreateAdmin, Founding
<1>8. CASE Insert(e) /\ \E f : Became(e, f, "close", e.group, e.read)
  BY <1>6, <1>8 DEF Insert, Founding
<1>9. CASE OtherAdmins(e) /\ \E f : Became(e, f, "delete", e.group, e.read)
  BY <1>6, <1>9 DEF OtherAdmins, Founding
<1>10. CASE LeaveMembers(e) /\ \E f : Became(e, f, "go", e.group, Without(roll[e.group], e.by))
  BY <1>6, <1>10 DEF LeaveMembers, Founding
<1>11. CASE LeaveSweep(e) /\ \E f : Became(e, f, "drop", e.group, e.read)
  BY <1>6, <1>11 DEF LeaveSweep, Founding
<1>12. CASE InviteCheck(e) /\ \E f : Became(e, f, "offer", e.group, e.read)
  BY <1>6, <1>12 DEF InviteCheck, Founding
<1>13. errands' # errands \ {e}
  OBVIOUS
<1>14. CASE LeaveGo(e) /\ \E f : \/ Became(e, f, "sweep", e.group, e.read)
                                 \/ Became(e, f, "promote", e.group, e.read)
  BY <1>6, <1>14 DEF LeaveGo, Founding
<1> QED BY <1>4, <1>5, <1>7, <1>8, <1>9, <1>10, <1>11, <1>12, <1>13, <1>14, ErrandCourse

\* The list of a group changes by an errand on that group.
LEMMA ListKept ==
    ASSUME GroupTypes, NEW e \in errands, ErrandStep(e), NEW g \in Ids
    PROVE  g # e.group => roll'[g] = roll[g]
BY RollChanges, RollMade DEF Written

LEMMA StepMadeByOne ==
    ASSUME GroupTypes, MadeByOne, NEW e \in errands, ErrandStep(e)
    PROVE  MadeByOne'
<1> SUFFICES ASSUME NEW d \in errands', d.at \in Founding, d.group \in standing', d.group \notin mistaken'
             PROVE  /\ roll'[d.group] = << >>
                    /\ \A x \in errands' : x.group = d.group => x = d
                    /\ \A o \in offers' : o.group # d.group
  BY DEF MadeByOne
<1>1. /\ mistaken \subseteq mistaken' /\ Len(roll) + 1 \notin Ids /\ 0 \notin Ids
      /\ Len(roll) + 1 # 0
      /\ \A x \in errands : x.group \in Ids \cup {0}
      /\ \A x \in errands : x.at # "row" => x.group \in Ids
      /\ \A o \in offers : o.group \in Ids
  BY StepNotes, GroupRows DEF GroupTypes
<1>2. /\ ~CreateRow(e) => standing' \subseteq standing
      /\ CreateRow(e) => standing' = standing \cup {Len(roll) + 1}
  BY StepNotes
<1>3. CASE d \in errands \ {e}
  <2>1. /\ d.group \in standing /\ roll[d.group] = << >> /\ d.group \in Ids
        /\ \A x \in errands : x.group = d.group => x = d
        /\ \A o \in offers : o.group # d.group
    <3>1. d.at # "row" /\ d.group \notin mistaken
      BY <1>1 DEF Founding
    <3>2. d.group \in Ids
      BY <1>1, <1>3, <3>1
    <3>3. d.group # Len(roll) + 1
      BY <1>1, <3>2
    <3>4. d.group \in standing
      BY <1>2, <3>3
    <3> QED BY <1>3, <3>1, <3>2, <3>4 DEF MadeByOne
  <2>2. e.group # d.group
    BY <1>3, <2>1
  <2>3. roll'[d.group] = << >>
    BY <2>1, <2>2, ListKept
  <2>4. \A o \in offers' : o.group # d.group
    BY <2>1, <2>2, StepOffers
  <2>5. ASSUME NEW x \in errands', x \notin errands \ {e} PROVE x.group # d.group
    <3>1. CASE CreateRow(e)
      BY <1>1, <2>1, <2>5, <3>1, NewErrand
    <3>2. CASE CreateRowId(e) /\ ~CreateRow(e)
      <4>1. newest # 0 /\ x.group = newest
        BY <2>5, <3>2, NewErrand
      <4>2. newest = e.group \/ newest \in mistaken'
        BY <3>2, <4>1 DEF CreateRowId
      <4> QED BY <2>2, <4>1, <4>2
    <3>3. CASE ~CreateRow(e) /\ ~CreateRowId(e)
      BY <2>2, <2>5, <3>3, NewErrand
    <3> QED BY <3>1, <3>2, <3>3
  <2> QED BY <2>1, <2>3, <2>4, <2>5
<1>4. CASE d \notin errands \ {e} /\ CreateRow(e)
  <2>1. d.group = Len(roll) + 1 /\ roll'[d.group] = << >>
    BY <1>4, NewErrand, RollMade
  <2>2. \A o \in offers' : o.group # d.group
    BY <1>1, <1>4, <2>1 DEF CreateRow
  <2>3. \A x \in errands \ {e} : x.group # d.group
    BY <1>1, <2>1
  <2>4. \A x \in errands' : x \notin errands \ {e} => x = d
    BY <1>4, ErrandCourse DEF Became
  <2> QED BY <2>1, <2>2, <2>3, <2>4
<1>5. CASE d \notin errands \ {e} /\ ~CreateRow(e)
  <2>1. CreateRowId(e) /\ newest # 0 /\ d.group = newest /\ d.at = "admin"
    BY <1>5, NewErrand
  <2>2. newest = e.group /\ e.at = "rowid"
    BY <2>1 DEF CreateRowId
  <2>4. standing' = standing /\ roll' = roll /\ offers' = offers
    BY <2>1 DEF CreateRowId
  <2>3. /\ roll[e.group] = << >> /\ e.group \in Ids
        /\ \A x \in errands : x.group = e.group => x = e
        /\ \A o \in offers : o.group # e.group
    BY <1>1, <2>1, <2>2, <2>4 DEF MadeByOne, Founding
  <2>5. \A x \in errands' : x \notin errands \ {e} => x = d
    BY <1>5, ErrandCourse DEF Became
  <2> QED BY <2>1, <2>2, <2>3, <2>4, <2>5
<1> QED BY <1>3, <1>4, <1>5

\* The errands that do not change a list leave a group led as it was.
LEMMA StepLedOrSettling ==
    ASSUME GroupTypes, ErrandsUpToDate, MadeByOne, LedOrSettling, NEW e \in errands, ErrandStep(e)
    PROVE  LedOrSettling'
<1> SUFFICES ASSUME NEW g \in Whole'
             PROVE  Led(roll'[g]) \/ \E d \in errands' : d.group = g /\ Settling(d)
  BY DEF LedOrSettling, Settling
<1>1. g \in standing' /\ g \notin disturbed' /\ g \notin mistaken' /\ errands \ {e} \subseteq errands'
  BY ErrandCourse DEF Whole, Became
<1>2. CASE CreateRow(e)
  <2>1. CASE g \in Whole /\ g \in Ids
    <3>1. roll'[g] = roll[g] /\ e.group = 0 /\ g # 0
      BY <1>2, <2>1, RollMade, GroupRows DEF CreateRow, InCourse
    <3> QED BY <1>1, <2>1, <3>1 DEF LedOrSettling
  <2>2. CASE g = Len(roll) + 1
    <3>1. PICK f : Became(e, f, "rowid", Len(roll) + 1, e.read)
      <4>1. errands' # errands \ {e}
        <5>1. errands' = (errands \ {e}) \cup {[e EXCEPT !.at = "rowid", !.group = Len(roll) + 1]}
          BY <1>2 DEF CreateRow
        <5>2. [e EXCEPT !.at = "rowid", !.group = Len(roll) + 1].group = Len(roll) + 1
          BY GroupRows DEF ErrandRow
        <5>3. \A d \in errands : d.group # Len(roll) + 1
          BY GroupRows
        <5> QED BY <5>1, <5>2, <5>3
      <4> QED BY <1>2, <4>1, ErrandCourse
              DEF CreateRow, CreateRowId, CreateAdmin, Insert, OtherAdmins, LeaveMembers,
                  LeaveGo, LeaveSweep, InviteCheck
    <3> QED BY SMTT(30), <2>2, <3>1 DEF Became, Settling, Founding
  <2> QED BY <2>1, <2>2, WholeBefore
<1>3. CASE ~CreateRow(e)
  <2>1. g \in Whole /\ g \in Ids /\ g \notin mistaken
    BY <1>3, WholeBefore DEF Whole
  <2> DEFINE list == roll[g]
  <2>2. list \in Seq(MemberRow) /\ Once(list)
    BY <2>1, GroupRows
  <2>3. \/ Led(list)
        \/ g = e.group /\ Settling(e)
        \/ \E d \in errands' : d.group = g /\ Settling(d)
    BY <1>1, <2>1 DEF LedOrSettling
  <2>4. CASE Led(list) /\ roll'[g] = roll[g]
    BY <2>4
  <2>5. CASE g # e.group
    BY <2>1, <2>3, <2>5, ListKept
  <2>6. CASE g = e.group /\ Settling(e)
    <3>1. UpToDate(e)
      BY <2>1, <2>6 DEF ErrandsUpToDate
    <3>2. e.at \in Founding => list = << >>
      BY <2>1, <2>6 DEF MadeByOne, Whole
    <3>3. CASE CreateRowId(e)
      <4>1. newest = g /\ newest # 0
        BY <1>1, <2>1, <2>6, <3>3, GroupRows DEF CreateRowId
      <4>2. e.at = "rowid" /\ errands' = (errands \ {e}) \cup {[e EXCEPT !.at = "admin", !.group = newest]}
        BY <3>3, <4>1 DEF CreateRowId
      <4>3. PICK f : Became(e, f, "admin", newest, e.read)
        <5>1. newest \in Nat
          BY GroupRows DEF GroupTypes
        <5> QED BY <4>2, <5>1, ErrandBecomes DEF Steps
      <4> QED BY <4>1, <4>3 DEF Became, Settling, Founding
    <3>4. CASE CreateAdmin(e)
      <4>1. list = << >> /\ g \in standing /\ g \in Ids
        BY <2>1, <3>2, <3>4 DEF CreateAdmin, Founding, Whole
      <4>2. ~Within(list, e.by) /\ ~NoSuchGroup(g)
        BY <4>1 DEF Within, NoSuchGroup
      <4>3. roll'[g] = Append(list, Seat(e.by, TRUE))
        BY <2>6, <3>4, <4>1, <4>2 DEF CreateAdmin, Ids
      <4>4. Seat(e.by, TRUE) \in MemberRow /\ Seat(e.by, TRUE).who = e.by /\ Seat(e.by, TRUE).admin
        BY SeatIsRow, ErrandFields, GroupRows
      <4>5. Rows(roll'[g]) = Rows(list) \cup {Seat(e.by, TRUE)}
        BY <2>2, <4>2, <4>3, <4>4, RowsAppended
      <4>6. Rows(list) = {}
        BY <4>1, <2>2, ListRows
      <4> QED BY <4>4, <4>5, <4>6 DEF Led
    <3>5. CASE Promote(e)
      <4>1. e.read = list /\ list # << >> /\ \A m \in Rows(list) : ~m.admin
        BY <2>6, <3>1, <3>5 DEF UpToDate, Promote
      <4> DEFINE h == Head(list)
      <4>2. h \in Rows(list)
        <5>1. 1 \in DOMAIN list /\ h = list[1]
          <6> HIDE DEF list, MemberRow
          <6> QED BY <2>2, <4>1
        <5> QED BY <5>1 DEF Rows
      <4>3. Rows(roll'[g]) = {IF m.who = h.who THEN Seat(m.who, TRUE) ELSE m : m \in Rows(list)}
        <5>1. ~(roll' = roll /\ ~Promote(e)) /\ ~CreateAdmin(e) /\ ~Insert(e) /\ ~RemoveMember(e)
              /\ ~LeaveGo(e) /\ ~LeaveDrop(e)
          BY <3>5 DEF Promote, CreateAdmin, Insert, RemoveMember, LeaveGo, LeaveDrop
        <5>2. PICK l2 : Written(e.group, l2) /\ Rewritten(e, l2)
          BY <1>3, <3>5, RollChanges
        <5>3. roll'[g] = l2
          BY <2>6, <5>2 DEF Written
        <5>4. Rows(l2) = {IF m.who = Head(e.read).who THEN Seat(m.who, TRUE) ELSE m :
                            m \in Rows(roll[e.group])}
          BY <5>1, <5>2 DEF Rewritten
        <5>5. e.read = list /\ roll[e.group] = list
          BY <2>6, <4>1
        <5> QED BY <5>3, <5>4, <5>5
      <4>4. Seat(h.who, TRUE).admin
        BY DEF Seat
      <4> DEFINE a == Seat(h.who, TRUE)
      <4>5. a \in Rows(roll'[g])
        BY <4>2, <4>3
      <4>6. \A m \in Rows(roll'[g]) : m.admin => m = a
        BY <4>1, <4>3
      <4> QED BY <4>4, <4>5, <4>6 DEF Led
    <3>6. CASE LeaveSweep(e)
      <4>1. PICK f : Became(e, f, "drop", e.group, e.read)
        BY <3>6, ErrandBecomes DEF LeaveSweep, Steps
      <4> QED BY <2>6, <4>1 DEF Became, Settling
    <3>7. CASE LeaveDrop(e)
      BY <1>1, <2>6, <3>7 DEF LeaveDrop
    <3>8. CASE Breaks(e)
      BY <1>1, <2>6, <3>8 DEF Breaks, Settling, Founding
    <3> QED BY <1>3, <2>6, <3>3, <3>4, <3>5, <3>6, <3>7, <3>8
            DEF ErrandStep, Settling, Founding, Insert, OtherAdmins, RemoveMember, LeaveMembers,
                LeaveGo, InviteCheck, Offer, CloseOffer
  <2>7. CASE g = e.group /\ ~Settling(e) /\ Led(list) /\ roll' # roll
    <3>1. PICK a \in Rows(list) : a.admin /\ \A m \in Rows(list) : m.admin => m = a
      BY <2>7 DEF Led
    <3>2. PICK l2 \in Seq(MemberRow) : roll'[g] = l2 /\ Rewritten(e, l2)
      BY <1>3, <2>7, RollChanges DEF Written
    <3>3. /\ ~CreateAdmin(e) /\ ~LeaveDrop(e) /\ ~Promote(e)
          /\ UpToDate(e)
      BY <2>1, <2>7 DEF Settling, CreateAdmin, LeaveDrop, Promote, Founding, ErrandsUpToDate
    <3>4. a \in MemberRow /\ (a.who \notin {u \in {a.who} : Seat(u, TRUE) \notin Rows(list)})
      BY <2>2, <3>1, ListRows, AdminRow
    <3>5. \A u : Seat(u, TRUE) \notin Rows(list) => a.who # u
      BY <3>4
    <3>6. CASE Insert(e)
      <4>1. ~RemoveMember(e) /\ ~LeaveGo(e)
        BY <3>6 DEF Insert, RemoveMember, LeaveGo
      <4>2. Rows(l2) = Rows(list) \cup {Seat(e.to, FALSE)} /\ ~Seat(e.to, FALSE).admin
        BY <2>7, <3>2, <3>3, <4>1 DEF Rewritten, Seat
      <4> QED BY <3>1, <3>2, <4>2 DEF Led
    <3>7. ASSUME NEW u, l2 = Without(list, u), Seat(u, TRUE) \notin Rows(list)
          PROVE  Led(l2)
      <4>1. Rows(l2) = {m \in Rows(list) : m.who # u}
        BY <2>2, <3>7, RowsWithout
      <4> QED BY <3>1, <3>5, <3>7, <4>1 DEF Led
    <3>8. CASE RemoveMember(e)
      <4>1. l2 = Without(list, e.to)
        BY <2>7, <3>2, <3>8 DEF Rewritten, CreateAdmin, Insert, RemoveMember, LeaveGo, LeaveDrop, Promote
      <4> QED BY <3>2, <3>3, <3>7, <3>8, <2>7, <4>1 DEF RemoveMember, UpToDate
    <3>9. CASE LeaveGo(e)
      <4>1. l2 = Without(list, e.by) /\ e.at = "go" /\ e.read = l2
            /\ (e.led <=> Seat(e.by, TRUE) \in Rows(list))
        BY <2>7, <3>2, <3>3, <3>9
           DEF Rewritten, CreateAdmin, Insert, RemoveMember, LeaveGo, LeaveDrop, Promote, UpToDate
      <4>2. CASE ~e.led
        BY <3>2, <3>7, <4>1, <4>2
      <4>3. CASE e.led
        <5>1. Heads(l2) = {}
          <6>1. Rows(l2) = {m \in Rows(list) : m.who # e.by}
            BY <2>2, <4>1, RowsWithout
          <6>2. a = Seat(e.by, TRUE) /\ a.who = e.by
            BY <3>1, <4>1, <4>3 DEF Seat
          <6> QED BY <3>1, <3>2, <6>1, <6>2, ListRows
        <5>2. PICK at \in {"sweep", "promote"} : GoesOn(e, at)
          BY SMTT(30), <3>9, <4>1, <4>3, <5>1 DEF LeaveGo, HandsOver
        <5>3. PICK f : Became(e, f, at, e.group, e.read)
          BY <5>2, ErrandBecomes DEF Steps
        <5> QED BY <2>7, <5>3 DEF Became, Settling
      <4> QED BY <4>2, <4>3
    <3> QED BY <3>2, <3>3, <3>6, <3>8, <3>9 DEF Rewritten
  <2> QED BY <2>3, <2>4, <2>5, <2>6, <2>7
<1> QED BY <1>2, <1>3

LEMMA StepGoneQuietly ==
    ASSUME GroupTypes, GoneQuietly, NEW e \in errands, ErrandStep(e)
    PROVE  GoneQuietly'
<1> SUFFICES ASSUME NEW g \in DOMAIN roll', g \notin late', g \notin disturbed', g \notin mistaken',
                    g \notin standing' \/ \E d \in errands' : d.group = g /\ d.at = "drop"
             PROVE  /\ \A o \in offers' : o.group # g
                    /\ \A d \in errands' : d.group = g => d.op \in {"leave", "remove"}
  BY DEF GoneQuietly, Going, LeftAlone, Ids
<1>1. g \notin late /\ g \notin disturbed /\ g \notin mistaken
  BY StepNotes
<1>2. g \in Ids
  <2>1. CASE CreateRow(e)
    <3>1. DOMAIN roll' = Ids \cup {Len(roll) + 1} /\ Len(roll) + 1 \in standing'
      BY <2>1, RollMade, StepNotes
    <3>2. \A d \in errands' : d.at = "drop" => d.group \in Ids
      BY <2>1, NewErrand, GroupRows
    <3> QED BY <3>1, <3>2
  <2>2. CASE ~CreateRow(e)
    BY <2>2, RollChanges DEF Written, Ids
  <2> QED BY <2>1, <2>2
\* what goes away, went before
<1>3. ASSUME Going(g)
      PROVE  /\ \A o \in offers' : o.group # g
             /\ \A d \in errands' : d.group = g => d.op \in {"leave", "remove"}
  <2>1. /\ \A o \in offers : o.group # g
        /\ \A d \in errands : d.group = g => d.op \in {"leave", "remove"}
    BY <1>1, <1>2, <1>3 DEF GoneQuietly, LeftAlone
  <2>2. ~(Offer(e) /\ e.group = g)
    <3>1. Offer(e) => e.op \notin {"leave", "remove"}
      BY GroupRows DEF Offer, InCourse, Leaving, Removing
    <3> QED BY <2>1, <3>1
  <2>3. ASSUME NEW d \in errands', d \notin errands \ {e}, d.group = g
        PROVE  d.op \in {"leave", "remove"}
    <3>1. CASE CreateRow(e)
      BY <1>2, <2>3, <3>1, NewErrand, GroupRows
    <3>2. CASE CreateRowId(e) /\ ~CreateRow(e)
      <4>1. newest # 0 /\ newest = g
        BY <2>3, <3>2, NewErrand
      <4>2. newest = e.group \/ newest \in mistaken'
        BY <3>2, <4>1 DEF CreateRowId
      <4> QED BY <2>1, <2>3, <4>1, <4>2, NewErrand
    <3>3. CASE ~CreateRow(e) /\ ~CreateRowId(e)
      BY <2>1, <2>3, <3>3, NewErrand
    <3> QED BY <3>1, <3>2, <3>3
  <2> QED BY <2>1, <2>2, <2>3, StepOffers
<1>4. CASE ~Going(g)
  <2>1. g \in standing /\ \A d \in errands : d.group = g => d.at # "drop"
    BY <1>4 DEF Going
  <2>2. ~LeaveDrop(e) \/ g # e.group
    BY <2>1 DEF LeaveDrop
  <2>3. g \in standing'
    BY <2>1, <2>2, StepNotes
  <2>4. PICK d \in errands' : d.group = g /\ d.at = "drop"
    BY <2>3
  <2>5. d \notin errands \ {e}
    BY <2>1, <2>4
  <2>6. LeaveSweep(e) /\ g = e.group
    <3>1. ASSUME NEW f, NEW at, NEW h, NEW read, Became(e, f, at, h, read)
          PROVE  at = "drop" /\ h = g
      BY <2>4, <2>5, <3>1 DEF Became
    <3>2. errands' # errands \ {e}
      BY <2>5
    <3> QED BY <3>1, <3>2, ErrandCourse
  <2>7. \A o \in offers' : o.group # g
    BY <2>6 DEF LeaveSweep
  <2>8. \A x \in errands \ {e} : x.group = g => x.op \in {"leave", "remove"}
    BY <2>6 DEF LeaveSweep, Overtakes
  <2>9. e.op = "leave"
    BY <2>6, GroupRows DEF LeaveSweep, InCourse, Leaving
  <2> QED BY <2>7, <2>8, <2>9, NewErrand
<1> QED BY <1>3, <1>4

LEMMA StepNobodyInNoGroup ==
    ASSUME GroupTypes, ErrandsUpToDate, GoneQuietly, NobodyInNoGroup, NEW e \in errands, ErrandStep(e)
    PROVE  NobodyInNoGroup'
<1> SUFFICES ASSUME NEW g \in DOMAIN roll', g \notin standing',
                    keyed' \/ g \notin late' \cup disturbed' \cup mistaken'
             PROVE  roll'[g] = << >>
  BY DEF NobodyInNoGroup, Ids
<1>1. /\ keyed' = keyed
      /\ keyed \/ (g \notin late /\ g \notin disturbed /\ g \notin mistaken)
  BY StepNotes
<1>2. g \in Ids
  BY RollChanges, RollMade, StepNotes DEF Written, Ids
<1>3. CASE g \notin standing
  <2>1. roll[g] = << >>
    BY <1>1, <1>2, <1>3 DEF NobodyInNoGroup
  <2>2. CASE roll'[g] = roll[g]
    BY <2>1, <2>2
  <2>3. CASE roll'[g] # roll[g]
    <3>1. g = e.group /\ ~CreateRow(e)
      BY <1>2, <2>3, ListKept, RollMade
    <3>2. PICK list \in Seq(MemberRow) : roll'[g] = list /\ Rewritten(e, list)
      BY <2>3, <3>1, RollChanges DEF Written
    <3>3. roll[g] \in Seq(MemberRow) /\ Once(roll[g]) /\ Rows(roll[g]) = {}
      BY <1>2, <2>1, GroupRows DEF Rows
    <3>4. \A u : Rows(Without(roll[g], u)) = {} /\ Without(roll[g], u) \in Seq(MemberRow)
      BY <3>3, RowsWithout
    <3>5. list # << >>
      BY <2>1, <2>3, <3>2
    <3>6. \A u : list # Without(roll[g], u)
      BY <3>4, <3>5, ListRows
    <3>7. Len(list) # Len(roll[g])
      <4> HIDE DEF MemberRow
      <4> QED BY <2>1, <3>2, <3>5
    <3>8. (CreateAdmin(e) \/ Insert(e)) /\ ~NoSuchGroup(g)
      BY <3>1, <3>2, <3>5, <3>6, <3>7 DEF Rewritten
    <3>9. e.op \notin {"leave", "remove"}
      BY <3>8, GroupRows DEF CreateAdmin, Insert, InCourse, Leaving, Removing
    <3>10. ~keyed
      BY <1>3, <3>8 DEF NoSuchGroup
    <3>11. LeftAlone(g)
      BY <1>1, <1>2, <1>3, <3>10 DEF GoneQuietly, Going
    <3> QED BY <3>1, <3>9, <3>11 DEF LeftAlone
  <2> QED BY <2>2, <2>3
<1>4. CASE g \in standing
  <2>1. LeaveDrop(e) /\ g = e.group
    BY <1>4, StepNotes
  <2>2. CASE keyed
    BY <1>2, <2>1, <2>2 DEF LeaveDrop, Ids
  <2>3. CASE ~keyed
    <3>1. g \in Whole /\ roll' = roll
      BY <1>1, <1>4, <2>1, <2>3 DEF Whole, LeaveDrop
    <3> QED BY <2>1, <3>1 DEF ErrandsUpToDate, UpToDate, LeaveDrop
  <2> QED BY <2>2, <2>3
<1> QED BY <1>3, <1>4

LEMMA GroupAskKeeps ==
    ASSUME GroupsInv, NEW op \in GroupOps, NEW u \in Folk, NEW t \in Folk, NEW g \in Ids,
           NEW yes \in BOOLEAN, Asks(op, u, t, g, yes)
    PROVE  ErrandsUpToDate' /\ MadeByOne' /\ LedOrSettling' /\ GoneQuietly' /\ NobodyInNoGroup'
<1> USE DEF GroupsInv
<1>1. /\ UNCHANGED <<keyed, standing, roll, offers, disturbed, late, mistaken>>
      /\ Ids' = Ids /\ Whole' = Whole
  BY GroupAsked DEF Whole
<1>2. PICK f \in ErrandRow :
         /\ errands' = errands \cup {f} /\ InCourse(f)
         /\ f.op = op /\ f.by = u /\ f.to = t /\ f.led = IsAdminOf(g, u)
         /\ f.group = IF op = "create" THEN 0 ELSE g
         /\ op = "leave" => f.at = "members"
         /\ op = "remove" => f.at = IF u = t /\ IsAdminOf(g, u) THEN "others" ELSE "delete"
         /\ f.at \notin Founding \cup {"go", "promote", "sweep", "drop"}
  BY GroupAsked
<1>3. roll[g] \in Seq(MemberRow) /\ Once(roll[g]) /\ 0 \notin Ids
  BY GroupRows
<1>4. IsAdminOf(g, u) <=> g \in standing /\ Seat(u, TRUE) \in Rows(roll[g])
  <2>1. (\E k \in Heads(roll[g]) : roll[g][k].who = u)
           <=> \E m \in Rows(roll[g]) : m.who = u /\ m.admin
    BY DEF Heads, Rows
  <2> QED BY <1>3, <2>1, AdminRow DEF IsAdminOf
\* a request on a group that is there, which has members, or was invited to
<1>5. \/ op = "create"
      \/ g \in standing /\ roll[g] # << >>
      \/ op = "answer" /\ \E o \in offers : o.group = g
  <2>1. IsAdminOf(g, u) \/ SeesGroup(g, u) => g \in standing /\ roll[g] # << >>
    BY DEF IsAdminOf, SeesGroup, Within, Heads
  <2> QED BY <2>1 DEF Asks, GroupOps
<1>6. ErrandsUpToDate'
  <2>1. ASSUME f.group \in Whole PROVE UpToDate(f)'
    <3>1. f.group = g /\ g \in standing
      BY <1>2, <1>3, <2>1 DEF Whole, GroupTypes
    <3>2. f.at = "members" => (f.led <=> Seat(f.by, TRUE) \in Rows(roll[g]))
      BY <1>2, <1>4, <3>1
    <3>3. f.at = "others" => f.to = f.by /\ Seat(f.by, TRUE) \in Rows(roll[g])
      BY <1>2, <1>4 DEF InCourse, Removing
    <3>4. f.at = "delete" => Seat(f.to, TRUE) \notin Rows(roll[g])
      <4> SUFFICES ASSUME f.at = "delete", Seat(t, TRUE) \in Rows(roll[g]) PROVE FALSE
        BY <1>2
      <4>1. op = "remove" /\ ~(u = t /\ IsAdminOf(g, u))
        BY <1>2 DEF InCourse, Removing
      <4>2. IsAdminOf(g, u) /\ u # t
        BY <1>4, <3>1, <4>1 DEF Asks
      <4>3. Seat(u, TRUE) \in Rows(roll[g])
        BY <1>4, <4>2
      <4>4. /\ Seat(u, TRUE).admin /\ Seat(t, TRUE).admin
            /\ Seat(u, TRUE).who = u /\ Seat(t, TRUE).who = t
        BY DEF Seat
      <4>5. Seat(u, TRUE) = Seat(t, TRUE)
        BY <2>1, <3>1, <4>3, <4>4, OneHead
      <4> QED BY <4>2, <4>4, <4>5
    <3> QED BY <1>1, <1>2, <3>1, <3>2, <3>3, <3>4 DEF UpToDate
  <2>2. \A d \in errands : d.group \in Whole => UpToDate(d)'
    BY <1>1 DEF ErrandsUpToDate, UpToDate
  <2> QED BY <1>1, <1>2, <2>1, <2>2 DEF ErrandsUpToDate
<1>7. MadeByOne'
  <2> SUFFICES ASSUME NEW d \in errands, d.at \in Founding, d.group \in standing, d.group \notin mistaken
               PROVE  f.group # d.group
    BY <1>1, <1>2 DEF MadeByOne
  <2>1. roll[d.group] = << >> /\ \A o \in offers : o.group # d.group
    BY DEF MadeByOne
  <2>2. d.group \in Ids
    BY GroupRows DEF Founding
  <2> QED BY <1>2, <1>3, <1>5, <2>1, <2>2
<1>8. LedOrSettling'
  BY <1>1, <1>2 DEF LedOrSettling, Settling
<1>9. GoneQuietly'
  <2> SUFFICES ASSUME NEW h \in Ids, h \notin late \cup disturbed \cup mistaken, Going(h)'
               PROVE  LeftAlone(h)'
    BY <1>1 DEF GoneQuietly
  <2>1. Going(h)
    BY <1>1, <1>2 DEF Going
  <2>2. LeftAlone(h)
    BY <2>1 DEF GoneQuietly
  <2>3. f.group = h => f.op \in {"leave", "remove"}
    <3> SUFFICES ASSUME f.group = h, f.op \notin {"leave", "remove"} PROVE FALSE
      OBVIOUS
    <3>1. h = g /\ g \in standing /\ roll[g] # << >>
      BY <1>2, <1>3, <1>5, <2>2 DEF LeftAlone
    <3>2. PICK d \in errands : d.group = g /\ d.at = "drop"
      BY <2>1, <3>1 DEF Going
    <3>3. UpToDate(d)
      BY <3>1, <3>2 DEF ErrandsUpToDate, Whole
    <3> QED BY <3>1, <3>2, <3>3 DEF UpToDate
  <2> QED BY <1>1, <1>2, <2>2, <2>3 DEF LeftAlone
<1>10. NobodyInNoGroup'
  BY <1>1 DEF NobodyInNoGroup
<1> QED BY <1>6, <1>7, <1>8, <1>9, <1>10

LEMMA AccountKeeps ==
    ASSUME GroupsInv, NEW u \in Folk, AccountGoes(u)
    PROVE  GroupsInv'
<1> USE DEF GroupsInv
<1>1. /\ UNCHANGED <<keyed, errands, mistaken>> /\ Ids' = Ids
      /\ standing' \subseteq standing /\ offers' \subseteq offers /\ standing \subseteq Ids
      /\ disturbed \subseteq disturbed' /\ late \subseteq late' /\ Whole' \subseteq Whole
  BY AccountLists DEF AccountGoes, GroupTypes, Whole
\* a group that stays whole, and what was read of it
<1>2. ASSUME NEW g \in Whole'
      PROVE  /\ g \in Ids /\ roll'[g] = Without(roll[g], u)
             /\ Seat(u, TRUE) \notin Rows(roll[g])
             /\ \A e \in errands : e.group = g /\ Relies(e) => roll'[g] = roll[g]
  <2>1. g \in Ids /\ g \in standing /\ g \in standing'
    BY <1>1 DEF Whole
  <2>2. roll'[g] = Without(roll[g], u)
    BY <2>1, AccountLists
  <2>3. Within(roll[g], u) => ~IsAdminOf(g, u) /\ \A e \in errands : e.group = g => ~Relies(e)
    BY <2>1 DEF AccountGoes, Whole
  <2>4. Seat(u, TRUE) \in Rows(roll[g]) => Within(roll[g], u) /\ IsAdminOf(g, u)
    BY <2>1 DEF Rows, Within, IsAdminOf, Heads, Seat
  <2>5. ~Within(roll[g], u) => roll'[g] = roll[g]
    BY <2>2 DEF Without
  <2> QED BY <2>1, <2>2, <2>3, <2>4, <2>5
<1>3. GroupTypes'
  BY AccountTypes
<1>4. ErrandsUpToDate'
  <2> SUFFICES ASSUME NEW e \in errands, e.group \in Whole' PROVE UpToDate(e)'
    BY <1>1 DEF ErrandsUpToDate
  <2>1. UpToDate(e)
    BY <1>1 DEF ErrandsUpToDate
  <2>2. CASE Relies(e)
    BY <1>2, <2>1, <2>2 DEF UpToDate
  <2>3. CASE ~Relies(e)
    <3>1. InCourse(e)
      BY GroupRows
    <3>2. e.at \notin {"members", "go", "promote", "sweep", "drop", "others", "delete"}
      BY <2>3, <3>1 DEF Relies, InCourse, Leaving, Removing
    <3> QED BY <3>2 DEF UpToDate
  <2> QED BY <2>2, <2>3
<1>5. ASSUME NEW g \in Ids, roll[g] = << >> PROVE roll'[g] = << >>
  <2>1. Without(roll[g], u) = << >>
    BY <1>5 DEF Without, Within
  <2> QED BY <2>1, AccountLists
<1>6. MadeByOne'
  <2> SUFFICES ASSUME NEW e \in errands, e.at \in Founding, e.group \in standing' \ mistaken
               PROVE  /\ roll'[e.group] = << >>
                      /\ \A d \in errands : d.group = e.group => d = e
                      /\ \A o \in offers' : o.group # e.group
    BY <1>1 DEF MadeByOne
  <2>1. e.group \in Ids /\ e.group \in standing \ mistaken
    BY <1>1
  <2> QED BY <1>1, <1>5, <2>1 DEF MadeByOne
<1>7. LedOrSettling'
  <2> SUFFICES ASSUME NEW g \in Whole'
               PROVE  Led(roll'[g]) \/ \E e \in errands : e.group = g /\ Settling(e)
    BY <1>1 DEF LedOrSettling, Settling
  <2>1. CASE Led(roll[g])
    <3>1. PICK a \in Rows(roll[g]) : a.admin /\ \A m \in Rows(roll[g]) : m.admin => m = a
      BY <2>1 DEF Led
    <3>2. roll[g] \in Seq(MemberRow) /\ Once(roll[g])
      BY <1>2, GroupRows
    <3>3. Rows(roll'[g]) = {m \in Rows(roll[g]) : m.who # u}
      BY <1>2, <3>2, RowsWithout
    <3>4. a.who # u
      BY <1>2, <3>1, <3>2, AdminRow
    <3> QED BY <3>1, <3>3, <3>4 DEF Led
  <2> QED BY <1>1, <2>1 DEF LedOrSettling
<1>8. GoneQuietly'
  <2> SUFFICES ASSUME NEW g \in Ids, g \notin late' \cup disturbed' \cup mistaken, Going(g)'
               PROVE  LeftAlone(g)'
    BY <1>1 DEF GoneQuietly
  <2>1. CASE Going(g)
    <3>1. LeftAlone(g)
      BY <1>1, <2>1 DEF GoneQuietly
    <3> QED BY <1>1, <3>1 DEF LeftAlone
  <2>2. CASE ~Going(g)
    <3>1. g \in standing /\ g \notin standing'
      BY <1>1, <2>2 DEF Going
    <3>2. makers[g] = u
      BY <3>1 DEF AccountGoes
    <3>3. \A o \in offers' : o.group # g
      BY <3>1, <3>2 DEF AccountGoes
    <3>4. \A e \in errands : e.group = g => e.op \in {"leave", "remove"}
      BY <3>1, <3>2 DEF AccountGoes
    <3> QED BY <1>1, <3>3, <3>4 DEF LeftAlone
  <2> QED BY <2>1, <2>2
<1>9. NobodyInNoGroup'
  <2> SUFFICES ASSUME NEW g \in Ids, g \notin standing',
                      ~(~keyed /\ g \in late' \cup disturbed' \cup mistaken)
               PROVE  roll'[g] = << >>
    BY <1>1 DEF NobodyInNoGroup
  <2>1. CASE g \in standing
    BY <2>1, AccountLists
  <2>2. CASE g \notin standing
    <3>1. roll[g] = << >>
      BY <1>1, <2>2 DEF NobodyInNoGroup
    <3> QED BY <1>5, <3>1
  <2> QED BY <2>1, <2>2
<1> QED BY <1>3, <1>4, <1>6, <1>7, <1>8, <1>9

LEMMA GroupsStep == GroupsInv /\ [GroupsNext]_groupsVars => GroupsInv'
<1> SUFFICES ASSUME GroupsInv, [GroupsNext]_groupsVars PROVE GroupsInv'
  OBVIOUS
<1>1. GroupTypes'
  BY GroupsNextTypes DEF GroupsInv
<1>2. CASE UNCHANGED <<keyed, standing, roll, offers, errands, disturbed, late, mistaken>>
  <2>1. ErrandsUpToDate' /\ MadeByOne'
    BY <1>2 DEF GroupsInv, ErrandsUpToDate, MadeByOne, UpToDate, Whole
  <2>2. LedOrSettling' /\ GoneQuietly' /\ NobodyInNoGroup'
    BY <1>2 DEF GroupsInv, LedOrSettling, GoneQuietly, NobodyInNoGroup, Settling, Whole, Going,
                LeftAlone, Ids
  <2> QED BY <1>1, <2>1, <2>2 DEF GroupsInv
<1>3. ASSUME NEW op \in GroupOps, NEW u \in Folk, NEW t \in Folk, NEW g \in Ids,
             NEW yes \in BOOLEAN, Asks(op, u, t, g, yes)
      PROVE  GroupsInv'
  BY <1>1, <1>3, GroupAskKeeps DEF GroupsInv
<1>4. ASSUME NEW e \in errands, ErrandStep(e)
      PROVE  GroupsInv'
  BY <1>1, <1>4, StepUpToDate, StepMadeByOne, StepLedOrSettling, StepGoneQuietly,
     StepNobodyInNoGroup DEF GroupsInv
<1>5. ASSUME NEW u \in Folk, AccountGoes(u)
      PROVE  GroupsInv'
  BY <1>5, AccountTypes, AccountKeeps
<1> QED BY <1>2, <1>3, <1>4, <1>5 DEF GroupsNext, GroupOps, InsertsAnywhere, HistoryStands, groupsVars

LEMMA GroupsMeaning == GroupsInv => GroupsTypeOK /\ GroupsAreTrue
<1> SUFFICES ASSUME GroupsInv PROVE GroupsTypeOK /\ GroupsAreTrue
  OBVIOUS
<1>1. GroupTypes
  BY DEF GroupsInv
<1>2. ASSUME NEW g \in Ids
      PROVE  /\ Len(roll[g]) <= Cardinality(Folk)
             /\ \A k, l \in DOMAIN roll[g] : roll[g][k].who = roll[g][l].who => k = l
  <2> DEFINE list == roll[g]
             who == [k \in 1 .. Len(list) |-> list[k].who]
  <2>1. list \in Seq(MemberRow) /\ Once(list)
    BY <1>1, <1>2, GroupRows
  <2>2. \A k \in DOMAIN list : list[k] \in MemberRow
    BY <2>1, RowTyped
  <2>3. DOMAIN list = 1 .. Len(list) /\ Len(list) \in Nat
    BY <2>1, RowTyped
  <2>4. who \in Injection(1 .. Len(list), Folk)
    <3>1. \A k \in 1 .. Len(list) : list[k].who \in Folk
      BY <2>2, <2>3 DEF MemberRow
    <3>2. who \in [1 .. Len(list) -> Folk]
      BY <3>1
    <3>3. \A k, l \in 1 .. Len(list) : list[k].who = list[l].who => k = l
      BY <2>1, <2>3 DEF Once
    <3>4. \A k, l \in 1 .. Len(list) : who[k] = who[l] => k = l
      BY <3>3
    <3> HIDE DEF who, list
    <3> QED BY <3>2, <3>4 DEF Injection, IsInjective
  <2>5. Cardinality(1 .. Len(list)) <= Cardinality(Folk)
    <3> HIDE DEF who
    <3> QED BY <2>4, GroupBounds, FS_Injection
  <2>6. Cardinality(1 .. Len(list)) = Len(list)
    <3> DEFINE n == Len(list)
    <3>1. n \in Nat
      BY <2>3
    <3> HIDE DEF n
    <3>2. Cardinality(1 .. n) = IF 1 > n THEN 0 ELSE n - 1 + 1
      BY <3>1, FS_Interval
    <3>3. Cardinality(1 .. n) = n
      BY <3>1, <3>2
    <3> QED BY <3>3 DEF n
  <2> QED BY <2>1, <2>5, <2>6 DEF Once
<1>3. GroupsTypeOK
  <2>1. \A o \in offers : {o.by, o.to} \subseteq Folk /\ o.status \in {"pending", "accepted", "declined"}
    BY <1>1 DEF GroupTypes, OfferRow
  <2>2. \A e \in errands : e.by \in Folk /\ e.group \in 0 .. Len(roll) /\ e.at \in Steps
    BY <1>1, GroupRows, ErrandFields DEF GroupTypes
  <2> QED BY <1>1, <1>2, <2>1, <2>2 DEF GroupTypes, GroupsTypeOK
<1>4. GroupIsLed
  <2> SUFFICES ASSUME errands = {}, NEW g \in Whole PROVE Cardinality(Heads(roll[g])) = 1
    BY DEF GroupIsLed, Whole
  <2>1. g \in Ids /\ Led(roll[g])
    BY <1>1, GroupRows DEF GroupsInv, LedOrSettling
  <2>2. PICK a \in Rows(roll[g]) : a.admin /\ \A m \in Rows(roll[g]) : m.admin => m = a
    BY <2>1 DEF Led
  <2>3. PICK k \in DOMAIN roll[g] : roll[g][k] = a
    BY <2>2 DEF Rows
  <2>4. Heads(roll[g]) = {k}
    BY <1>2, <2>1, <2>2, <2>3 DEF Heads, Rows
  <2> QED BY <2>4, FS_Singleton
<1> QED BY <1>3, <1>4 DEF GroupsAreTrue, GroupsInv

-----------------------------------------------------------------------------
(* The server: its parts share no state. *)

RecordsInv == SeatsInv /\ BondInv /\ GroupsInv

LEMMA RecordsStart == ServerInit => RecordsInv
BY SeatsStart, BondsStart, GroupsStart DEF ServerInit, RecordsInv

LEMMA RecordsStep == RecordsInv /\ [ServerNext]_serverVars => RecordsInv'
<1> SUFFICES ASSUME RecordsInv, [ServerNext]_serverVars PROVE RecordsInv'
  OBVIOUS
<1>1. [SeatsNext]_seatsVars /\ [BondsNext]_bondVars /\ [GroupsNext]_groupsVars
  BY DEF ServerNext, serverVars
<1> QED BY <1>1, SeatsStep, BondsStep, GroupsStep DEF RecordsInv

\* The rows of games, friend requests and groups say what the people asked for
\* (activities.rs, friends.rs, groups.rs), whatever order their statements run in and
\* wherever a request ends half way: a game has no more players than it seats and somebody
\* in it, a code buys one token; a friendship was wished by both; a group has one admin,
\* and one that is gone has no members; save for the crossings the parts name, and the
\* group whose admin came to it by succession and deleted the account.
THEOREM RecordsHold == ServerSpec => []RecordsAreTrue
<1>1. RecordsInv => RecordsAreTrue
  BY SeatsMeaning, BondsMeaning, GroupsMeaning DEF RecordsInv, RecordsAreTrue
<1> QED BY <1>1, RecordsStart, RecordsStep, PTL DEF ServerSpec

LEMMA LedgerStep == LedgerInv /\ [ServerNext]_serverVars => LedgerInv'
<1>1. [ServerNext]_serverVars => LedgerNext \/ UNCHANGED ledgerVars
  BY DEF ServerNext, serverVars
<1> QED BY <1>1, LedgerKeeps

\* Whatever the requests, faults and crashes, and whoever else writes in between: outside a
\* transaction each balance is what the user's audit trail adds up to (economy.rs:8), gifts
\* and searches do not overdraw it, every reward is paid as often as it is owed, and an
\* answered write is kept, with the exceptions the properties name.
THEOREM LedgerHolds == ServerSpec => []LedgerIsTrue
<1>1. ServerInit => LedgerInv
  BY LedgerStarts DEF ServerInit
<1> QED BY <1>1, LedgerStep, LedgerMeans, PTL DEF ServerSpec

LEMMA PresenceKept == PresenceInv /\ [ServerNext]_serverVars => PresenceInv'
<1>1. [ServerNext]_serverVars => [PresenceNext]_presenceVars
  BY DEF ServerNext, serverVars
<1> QED BY <1>1, PresenceStep

\* Whatever tabs come, go and reconnect and whenever the server notices (route.rs:90,
\* sockets.rs:205, presence.rs): once nothing is under way a page shows the friends that are
\* online, save those who came or went while an announcement about them was under way and
\* those the registry forgot.
THEOREM PresenceHolds == ServerSpec => []PresenceSettles
<1>1. ServerInit => PresenceInv
  BY PresenceStarts DEF ServerInit
<1> QED BY <1>1, PresenceKept, PresenceMeans, PTL DEF ServerSpec

\* Every table and every registry of the server keeps its type.
THEOREM ServerTypes == ServerSpec => []ServerTypeOK
<1>1. ServerInit => PresenceInv /\ LedgerInv
  BY PresenceStarts, LedgerStarts DEF ServerInit
<1>2. PresenceInv /\ LedgerInv /\ RecordsInv => ServerTypeOK
  BY PresenceMeans, SeatsMeaning, BondsMeaning, GroupsMeaning DEF LedgerInv, RecordsInv, ServerTypeOK
<1> QED BY <1>1, <1>2, RecordsStart, PresenceKept, LedgerStep, RecordsStep, PTL DEF ServerSpec
=============================================================================
