---------------------------- MODULE MatchPolicy ----------------------------
(***************************************************************************)
(* The compatibility rules of the matchmaking engine: the stateless        *)
(* functions of rust/src/matchmaking/core.rs and the pair memory of        *)
(* EngineState they consult.                                               *)
(*                                                                         *)
(* A peer is a record [at, socket, user, prefs, session].  It stands for   *)
(* QueuePeer and GroupParticipant alike: participant_as_peer only copies   *)
(* fields.  `at' is the position in the Vec that holds the peer.           *)
(***************************************************************************)
EXTENDS Naturals, FiniteSets

CONSTANTS
    Sockets,     \* connection ids
    Users,       \* ids of registered users (never 0)
    NoUser,      \* user_id = None
    GuestId,     \* the id 0 a merged group room records for a guest
    NoSession,   \* the empty session key
    Countries,   \* country codes, "any" included
    Languages,   \* language codes, "any" included
    Interests    \* interest tags

ASSUME InterestAssumption == IsFiniteSet(Interests)
ASSUME AnyAssumption == "any" \in Countries /\ "any" \in Languages
ASSUME GuestAssumption == NoUser \notin Users /\ GuestId \notin Users

Genders == {"any", "male", "female", "other"}

Preferences ==
    [country : Countries, language : Languages, gender : Genders,
     looking_for : Genders, interests : SUBSET Interests,
     allow_same : BOOLEAN, scope : {"solo", "group", "all"},
     pool : {"all", "registered"}]

UserIds  == Users \cup {NoUser, GuestId}
Sessions == Sockets \cup {NoSession}

Peers ==
    [at : Nat, socket : Sockets, user : UserIds, prefs : Preferences,
     session : Sessions]

-----------------------------------------------------------------------------
(* Preferences. *)

\* Faulty: looks at the searching side only (tests MutualAcceptance).
faulty_any_or_equal(x, y) == x = "any" \/ x = y

any_or_equal(x, y) == x = "any" \/ y = "any" \/ x = y

interest_score(A, B) == Cardinality(A \cap B)

preferences_compatible(p, q) ==
    /\ any_or_equal(p.country, q.country)
    /\ any_or_equal(p.language, q.language)
    /\ any_or_equal(p.looking_for, q.gender)
    /\ any_or_equal(q.looking_for, p.gender)

\* A client value that is absent or of the wrong kind is Malformed.
normalize_preferences(raw, Malformed) ==
    LET Read(key, valid, default) ==
            IF key \in DOMAIN raw /\ raw[key] # Malformed /\ raw[key] \in valid
            THEN raw[key] ELSE default
    IN  [country     |-> Read("country", Countries, "any"),
         language    |-> Read("language", Languages, "any"),
         gender      |-> Read("gender", Genders, "any"),
         looking_for |-> Read("lookingFor", Genders, "any"),
         interests   |-> Read("interests", SUBSET Interests, {}),
         allow_same  |-> Read("allowMatchWithSameUsers", BOOLEAN, TRUE),
         scope       |-> Read("matchScope", {"solo", "group"}, "all"),
         pool        |-> Read("matchPool", {"registered"}, "all")]

\* Faulty: a guest keeps one filter (tests GuestFiltersDropped).
faulty_force_guest_preferences(p) ==
    [p EXCEPT !.country = "any", !.language = "any", !.gender = "any",
              !.interests = {}, !.pool = "all"]

force_guest_preferences(p) ==
    [p EXCEPT !.country = "any", !.language = "any", !.gender = "any",
              !.looking_for = "any", !.interests = {}, !.pool = "all"]

-----------------------------------------------------------------------------
(* Who may meet whom. *)

is_guest(user) == user \in {NoUser, GuestId}

pool_ok(a, b) ==
    CASE is_guest(a.user) /\ ~is_guest(b.user) -> b.prefs.pool = "all"
      [] ~is_guest(a.user) /\ is_guest(b.user) -> a.prefs.pool = "all"
      [] OTHER -> TRUE

\* Faulty: blocks are forgotten (tests BlockedApart).
faulty_is_blocked_pair(blocked, u, v) == FALSE

is_blocked_pair(blocked, u, v) ==
    u \in Users /\ v \in Users /\ {u, v} \in blocked

\* The keys pair_key_users and pair_key_sessions build for two peers.
user_key(a, b)    == <<"u", {a.user, b.user}>>
session_key(a, b) == <<"s", {a.session, b.session}>>

pair_keys(a, b) ==
    {session_key(a, b)} \cup
    (IF NoUser \in {a.user, b.user} THEN {} ELSE {user_key(a, b)})

is_recent_pair(recent, a, b) == pair_keys(a, b) \cap recent # {}

\* a is the side that searches: only its allow flag is consulted.
compatible(blocked, recent, a, b) ==
    /\ a.socket # b.socket
    /\ ~is_blocked_pair(blocked, a.user, b.user)
    /\ a.prefs.allow_same \/ ~is_recent_pair(recent, a, b)
    /\ pool_ok(a, b)
    /\ preferences_compatible(a.prefs, b.prefs)

-----------------------------------------------------------------------------
(* The preferences of a whole room. *)

\* The value the last member in Vec order with a choice of its own made.
last_choice(members, field) ==
    LET chosen == {m \in members : m.prefs[field] # "any"}
    IN  IF chosen = {} THEN "any"
        ELSE (CHOOSE m \in chosen : \A n \in chosen : n.at <= m.at).prefs[field]

\* Faulty: takes gender for looking_for (tests AggregateFaithful).
faulty_aggregate_group_preferences(members, host_prefs, scope) ==
    [host_prefs EXCEPT
        !.country     = last_choice(members, "country"),
        !.language    = last_choice(members, "language"),
        !.looking_for = host_prefs.gender,
        !.interests   = UNION {m.prefs.interests : m \in members},
        !.allow_same  = TRUE,
        !.scope       = scope]

\* Interests are compared as sets; the cap of ten tags is left out.
aggregate_group_preferences(members, host_prefs, scope) ==
    [host_prefs EXCEPT
        !.country    = last_choice(members, "country"),
        !.language   = last_choice(members, "language"),
        !.interests  = UNION {m.prefs.interests : m \in members},
        !.allow_same = TRUE,
        !.scope      = scope]

\* Interests at least half of the people list.
compute_shared_interests(members) ==
    {i \in Interests :
        2 * Cardinality({m \in members : i \in m.prefs.interests})
            >= Cardinality(members) /\ \E m \in members : i \in m.prefs.interests}

\* The interests two people of different sides share, summed over all such pairs.
group_pair_score(A, B) ==
    Cardinality({x \in A \X B \X Interests :
                    x[3] \in x[1].prefs.interests \cap x[2].prefs.interests})
=============================================================================
