----------------------------- MODULE Admission -----------------------------
(***************************************************************************)
(* What becomes of the preferences a client sends with queue:join: the     *)
(* checks of `join' in rust/src/ws/handlers.rs turn them into the record   *)
(* the engine compares.  Two clients are admitted, one after the other;    *)
(* the invariants say what the compatibility rules then make of them.      *)
(***************************************************************************)
EXTENDS MatchPolicy

CONSTANTS
    RawPreferences,     \* the JSON objects clients send
    Malformed,          \* a JSON value of another type than expected
    first_socket, second_socket,
    NoPeer

ASSUME SocketAssumption == {first_socket, second_socket} \subseteq Sockets
ASSUME TwoSocketsAssumption == first_socket # second_socket
ASSUME NoPeerAssumption == NoPeer \notin Peers

VARIABLES first, second        \* the peers admitted so far

vars == <<first, second>>

\* Faulty: stores what the client sent (tests TypeOK).
faulty_admitted(raw, user) == raw

\* Signed-out callers lose their identity filters.
admitted(raw, user) ==
    LET prefs == normalize_preferences(raw, Malformed)
    IN  IF user = NoUser THEN force_guest_preferences(prefs) ELSE prefs

\* Group mode has an entry point of its own.
Refused(raw) == raw.mode = "group"

queue_peer(at, s, user, prefs) ==
    [at |-> at, socket |-> s, user |-> user, prefs |-> prefs, session |-> s]

Init == first = NoPeer /\ second = NoPeer

JoinFirst ==
    /\ first = NoPeer
    /\ \E raw \in RawPreferences, user \in Users \cup {NoUser} :
          /\ ~Refused(raw)
          /\ first' = queue_peer(1, first_socket, user, admitted(raw, user))
    /\ UNCHANGED second

JoinSecond ==
    /\ first # NoPeer /\ second = NoPeer
    /\ \E raw \in RawPreferences, user \in Users \cup {NoUser} :
          /\ ~Refused(raw)
          /\ second' = queue_peer(2, second_socket, user, admitted(raw, user))
    /\ UNCHANGED first

Next == JoinFirst \/ JoinSecond

Spec == Init /\ [][Next]_vars

-----------------------------------------------------------------------------
Both == first # NoPeer /\ second # NoPeer

\* Whatever the client sends, what the engine stores is a legal preference set.
TypeOK ==
    /\ first \in Peers \cup {NoPeer}
    /\ second \in Peers \cup {NoPeer}

\* The decision does not depend on who searches and who waits, as long as
\* neither refuses rematches.
MutualAcceptance ==
    Both => \A blocked \in SUBSET {{u, v} : u, v \in Users} :
        LET recent == pair_keys(first, second)
        IN  first.prefs.allow_same = second.prefs.allow_same =>
                (compatible(blocked, recent, first, second)
                    <=> compatible(blocked, recent, second, first))

\* "anything a guest sends for them is dropped": a guest meets every guest and
\* exactly the registered users with an open pool, whatever either filters by.
GuestFiltersDropped ==
    Both /\ first.user = NoUser =>
        (compatible({}, {}, first, second)
            <=> second.user = NoUser \/ second.prefs.pool = "all")

\* A peer every member of a room accepts is accepted by the room's aggregated
\* preferences too, if the room's own preferences are those of a member: the
\* second check of the group searches never turns anybody away by itself.
AggregateFaithful ==
    Both => LET room == {first, second} IN
        \A host \in room, raw \in RawPreferences :
            LET prefs == normalize_preferences(raw, Malformed)
            IN  (\A m \in room : preferences_compatible(prefs, m.prefs)) =>
                    preferences_compatible(prefs,
                        aggregate_group_preferences(room, host.prefs, "all"))
=============================================================================
