---------------------------- MODULE PolicyLemmas ----------------------------
(***************************************************************************)
(* Facts about the compatibility rules, for all peers and rooms.           *)
(***************************************************************************)
EXTENDS MatchPolicy, FiniteSetTheorems, WellFoundedInduction, TLAPS

\* Every non-empty set of natural numbers has a least element.
LEMMA LeastNumber ==
    ASSUME NEW T \in SUBSET Nat, T # {}
    PROVE  \E n \in T : \A m \in T : n <= m
<1> DEFINE R == {ss \in Nat \X Nat : ss[1] < ss[2]}
<1>1. IsWellFoundedOn(R, Nat)
  BY NatLessThanWellFounded DEF OpToRel
<1>2. \E n \in T : \A m \in T : ~ (<<m, n>> \in R)
  <2> HIDE DEF R
  <2> QED BY <1>1, WFMin
<1>3. PICK n \in T : \A m \in T : ~ (<<m, n>> \in R)
  BY <1>2
<1>4. ASSUME NEW m \in T PROVE n <= m
  <2>1. m \in Nat /\ n \in Nat
    OBVIOUS
  <2>2. m < n => <<m, n>> \in R
    BY <2>1
  <2>3. ~ (m < n)
    BY <1>3, <2>2
  <2> QED BY <2>1, <2>3
<1> QED BY <1>4

\* Every finite set has a greatest element in a relation that is total and
\* transitive on it: what the CHOOSEs over positions and scores rely on.
LEMMA GreatestExists ==
    ASSUME NEW Q, IsFiniteSet(Q), Q # {}, NEW R,
           \A x, y \in Q : <<x, y>> \in R \/ <<y, x>> \in R,
           \A x, y, z \in Q : <<x, y>> \in R /\ <<y, z>> \in R => <<x, z>> \in R
    PROVE  \E m \in Q : \A n \in Q : <<n, m>> \in R
<1> DEFINE HasTop(S) == \E m \in S : \A n \in S : <<n, m>> \in R
           Bad == {k \in Nat : \E S \in SUBSET Q :
                      S # {} /\ Cardinality(S) = k /\ ~HasTop(S)}
<1>1. SUFFICES ASSUME ~HasTop(Q) PROVE FALSE
  OBVIOUS
<1>2. Bad # {}
  <2>1. Cardinality(Q) \in Nat
    BY FS_CardinalityType
  <2> QED BY <2>1, <1>1
<1>3. PICK k \in Bad : \A l \in Bad : k <= l
  BY <1>2, LeastNumber
<1>4. PICK S \in SUBSET Q : S # {} /\ Cardinality(S) = k /\ ~HasTop(S)
  BY <1>3
<1>5. PICK x \in S : TRUE
  BY <1>4
<1>6. IsFiniteSet(S)
  BY FS_Subset
<1>7. Cardinality(S \ {x}) = k - 1 /\ k \in Nat /\ k - 1 \in Nat
  <2>1. IsFiniteSet(S \ {x}) /\ Cardinality(S \ {x}) = Cardinality(S) - 1
    BY <1>6, <1>5, FS_RemoveElement
  <2>2. Cardinality(S \ {x}) \in Nat
    BY <2>1, FS_CardinalityType
  <2>3. k \in Nat /\ Cardinality(S) = k
    BY <1>4
  <2> QED BY <2>1, <2>2, <2>3
<1>8. CASE S \ {x} = {}
  <2>1. \A n \in S : n = x
    BY <1>8
  <2>2. <<x, x>> \in R
    BY <1>5
  <2> QED BY <2>1, <2>2, <1>4, <1>5
<1>9. CASE S \ {x} # {}
  <2>1. k - 1 \notin Bad
    BY <1>3, <1>7
  <2>2. HasTop(S \ {x})
    <3> HIDE DEF HasTop
    <3> QED BY <2>1, <1>7, <1>9, <1>4
  <2>3. PICK m \in S \ {x} : \A n \in S \ {x} : <<n, m>> \in R
    BY <2>2
  <2>4. m \in Q /\ x \in Q /\ <<x, x>> \in R
    BY <1>5
  <2>5. CASE <<x, m>> \in R
    <3>1. \A n \in S : <<n, m>> \in R
      BY <2>3, <2>5
    <3> QED BY <3>1, <2>3, <1>4
  <2>6. CASE <<m, x>> \in R
    <3>1. \A n \in S : <<n, x>> \in R
      BY <2>3, <2>4, <2>6
    <3> QED BY <3>1, <1>5, <1>4
  <2> QED BY <2>4, <2>5, <2>6
<1> QED BY <1>8, <1>9

\* The elements of a function with a finite domain are finitely many.
LEMMA FiniteRange ==
    ASSUME NEW A, IsFiniteSet(A), NEW f, DOMAIN f = A, f = [x \in A |-> f[x]]
    PROVE  IsFiniteSet({f[x] : x \in A})
<1>1. f \in Surjection(A, {f[x] : x \in A})
  BY DEF Surjection
<1> QED BY <1>1, FS_Surjection

\* The decision does not depend on who searches and who waits, except for the
\* rematch flag, of which only the searching side's is read.
LEMMA CompatibleSymmetric ==
    ASSUME NEW blocked, NEW recent, NEW a \in Peers, NEW b \in Peers,
           a.prefs.allow_same = b.prefs.allow_same
    PROVE  compatible(blocked, recent, a, b) <=> compatible(blocked, recent, b, a)
<1>1. is_blocked_pair(blocked, a.user, b.user) <=> is_blocked_pair(blocked, b.user, a.user)
  <2>1. {a.user, b.user} = {b.user, a.user}
    OBVIOUS
  <2> QED BY <2>1 DEF is_blocked_pair
<1>2. is_recent_pair(recent, a, b) <=> is_recent_pair(recent, b, a)
  <2>1. {a.user, b.user} = {b.user, a.user} /\ {a.session, b.session} = {b.session, a.session}
    OBVIOUS
  <2> QED BY <2>1 DEF is_recent_pair, pair_keys, user_key, session_key
<1>3. pool_ok(a, b) <=> pool_ok(b, a)
  BY DEF pool_ok
<1>4. preferences_compatible(a.prefs, b.prefs) <=> preferences_compatible(b.prefs, a.prefs)
  BY DEF preferences_compatible, any_or_equal
<1> QED BY <1>1, <1>2, <1>3, <1>4 DEF compatible

\* The value a room ends up with is "any" or the choice of one of its members.
LEMMA ChoiceOfAMember ==
    ASSUME NEW room, IsFiniteSet(room), \A m \in room : m.at \in Nat, NEW field
    PROVE  \/ last_choice(room, field) = "any"
           \/ \E m \in room : last_choice(room, field) = m.prefs[field]
<1> DEFINE chosen == {m \in room : m.prefs[field] # "any"}
<1>1. CASE chosen = {}
  BY <1>1 DEF last_choice
<1>2. CASE chosen # {}
  <2>1. IsFiniteSet(chosen)
    BY FS_Subset
  <2>2. \E m \in chosen : \A n \in chosen : n.at <= m.at
    <3> DEFINE R == {z \in chosen \X chosen : z[1].at <= z[2].at}
    <3>1. \A x, y \in chosen : <<x, y>> \in R <=> x.at <= y.at
      OBVIOUS
    <3>2. \A x \in chosen : x.at \in Nat
      OBVIOUS
    <3> HIDE DEF chosen, R
    <3>3. /\ \A x, y \in chosen : <<x, y>> \in R \/ <<y, x>> \in R
          /\ \A x, y, z \in chosen :
                <<x, y>> \in R /\ <<y, z>> \in R => <<x, z>> \in R
      BY <3>1, <3>2
    <3>4. \E m \in chosen : \A n \in chosen : <<n, m>> \in R
      BY <1>2, <2>1, <3>3, GreatestExists
    <3> QED BY <3>1, <3>4
  <2> QED BY <1>2, <2>2 DEF last_choice
<1> QED BY <1>1, <1>2

\* Whoever every member accepts, the aggregated preferences of the room accept,
\* however large the room is and whichever member hosts it.
LEMMA AggregateAccepts ==
    ASSUME NEW room, IsFiniteSet(room), room \subseteq Peers, NEW host \in room,
           NEW prefs \in Preferences, NEW scope,
           \A m \in room : preferences_compatible(prefs, m.prefs)
    PROVE  preferences_compatible(prefs,
               aggregate_group_preferences(room, host.prefs, scope))
<1> DEFINE agg == aggregate_group_preferences(room, host.prefs, scope)
<1>1. host.prefs \in Preferences /\ \A m \in room : m.at \in Nat
  BY DEF Peers
<1>2. /\ agg.country = last_choice(room, "country")
      /\ agg.language = last_choice(room, "language")
      /\ agg.looking_for = host.prefs.looking_for
      /\ agg.gender = host.prefs.gender
  BY <1>1 DEF aggregate_group_preferences, Preferences
<1>3. any_or_equal(prefs.country, agg.country)
  BY <1>1, <1>2, ChoiceOfAMember DEF any_or_equal, preferences_compatible
<1>4. any_or_equal(prefs.language, agg.language)
  BY <1>1, <1>2, ChoiceOfAMember DEF any_or_equal, preferences_compatible
<1>5. any_or_equal(prefs.looking_for, agg.gender) /\ any_or_equal(agg.looking_for, prefs.gender)
  BY <1>2 DEF preferences_compatible
<1> QED BY <1>3, <1>4, <1>5 DEF preferences_compatible
=============================================================================
