---------------------------- MODULE LedgerProofs ----------------------------
(***************************************************************************)
(* The points economy, for every number of accounts, requests and faults.  *)
(***************************************************************************)
EXTENDS Ledger, FiniteSetTheorems, WellFoundedInduction, TLAPS

-----------------------------------------------------------------------------
(* Counting up, and what rows add up to: induction as the existence of a      *)
(* least counterexample.                                                      *)

LEMMA Counting ==
  ASSUME NEW S, 0 \in S, \A n \in Nat : n \in S => n + 1 \in S
  PROVE  \A n \in Nat : n \in S
<1> DEFINE T == {n \in Nat : n \notin S}
<1> SUFFICES ASSUME T # {} PROVE FALSE
  OBVIOUS
<1> HIDE DEF T
<1>1. T \subseteq Nat
  BY DEF T
<1>2. PICK x \in T : \A y \in T : ~(<<y, x>> \in OpToRel(<, Nat))
  BY <1>1, NatLessThanWellFounded, WFMin
<1>3. x \in Nat /\ x \notin S
  BY DEF T
<1>4. x - 1 \in Nat /\ x - 1 \notin S
  BY <1>3
<1>5. x - 1 \in T
  BY <1>4 DEF T
<1>6. <<x - 1, x>> \in OpToRel(<, Nat)
  BY <1>3, <1>4 DEF OpToRel
<1> QED
  BY <1>2, <1>5, <1>6

Totals(posts, sum) ==
  sum = [k \in 0 .. Len(posts) |-> IF k = 0 THEN 0 ELSE sum[k - 1] + posts[k].delta]

LEMMA TrailIsTotal == ASSUME NEW posts, NEW sum, sum = CHOOSE s : Totals(posts, s)
  PROVE TrailOf(posts) = sum[Len(posts)]
  BY DEF TrailOf, Totals

\* the running totals are there
LEMMA TotalsExist ==
  ASSUME NEW posts, Len(posts) \in Nat
  PROVE  \E sum : Totals(posts, sum)
<1> DEFINE Is(n, f) == f = [k \in 0 .. n |-> IF k = 0 THEN 0 ELSE f[k - 1] + posts[k].delta]
           S == {n \in Nat : \E f : Is(n, f)}
<1>1. 0 \in S
  <2> DEFINE f == [k \in 0 .. 0 |-> 0]
  <2>1. Is(0, f)
    OBVIOUS
  <2> QED
    BY <2>1
<1>2. \A n \in Nat : n \in S => n + 1 \in S
  <2> TAKE n \in Nat
  <2> HAVE n \in S
  <2>0. PICK f : Is(n, f)
    OBVIOUS
  <2> DEFINE g == [k \in 0 .. n + 1 |-> IF k = n + 1 THEN f[n] + posts[n + 1].delta ELSE f[k]]
  <2>1. \A k \in 0 .. n : f[k] = IF k = 0 THEN 0 ELSE f[k - 1] + posts[k].delta
    BY <2>0
  <2>2. g = [k \in 0 .. n + 1 |-> IF k = 0 THEN 0 ELSE g[k - 1] + posts[k].delta]
    <3> SUFFICES ASSUME NEW k \in 0 .. n + 1
                 PROVE  g[k] = IF k = 0 THEN 0 ELSE g[k - 1] + posts[k].delta
      OBVIOUS
    <3>1. CASE k = n + 1
      BY <3>1
    <3>2. CASE k # n + 1
      BY <3>2, <2>1
    <3> QED
      BY <3>1, <3>2
  <2>3. \E h : Is(n + 1, h)
    BY <2>2
  <2> HIDE DEF Is
  <2> QED
    BY <2>3
<1> QED
  <2> HIDE DEF S
  <2>1. Len(posts) \in S
    BY <1>1, <1>2, Counting
  <2> QED
    BY <2>1 DEF S, Totals

LEMMA TrailEmpty == TrailOf(<<>>) = 0
<1> DEFINE sum == CHOOSE s : Totals(<<>>, s)
<1>1. Totals(<<>>, sum)
  BY TotalsExist
<1>2. TrailOf(<<>>) = sum[0]
  BY TrailIsTotal
<1> QED
  BY <1>1, <1>2 DEF Totals

\* any totals of the posts give their sum
LEMMA TotalsAgree ==
  ASSUME NEW posts, Len(posts) \in Nat, NEW f, NEW g, Totals(posts, f), Totals(posts, g)
  PROVE  \A k \in 0 .. Len(posts) : f[k] = g[k]
<1> DEFINE S == {n \in Nat : n \in 0 .. Len(posts) => f[n] = g[n]}
<1>1. 0 \in S
  BY DEF Totals
<1>2. \A n \in Nat : n \in S => n + 1 \in S
  <2> TAKE n \in Nat
  <2> HAVE n \in S
  <2> SUFFICES ASSUME n + 1 \in 0 .. Len(posts) PROVE f[n + 1] = g[n + 1]
    OBVIOUS
  <2>1. f[n + 1] = f[n] + posts[n + 1].delta
    BY DEF Totals
  <2>2. g[n + 1] = g[n] + posts[n + 1].delta
    BY DEF Totals
  <2> QED
    BY <2>1, <2>2
<1> HIDE DEF S
<1>3. \A n \in Nat : n \in S
  BY <1>1, <1>2, Counting
<1> QED
  BY <1>3 DEF S

LEMMA TrailIs ==
  ASSUME NEW posts, Len(posts) \in Nat, NEW f, Totals(posts, f)
  PROVE  TrailOf(posts) = f[Len(posts)]
<1> DEFINE sum == CHOOSE s : Totals(posts, s)
<1>1. Totals(posts, sum)
  OBVIOUS
<1>2. TrailOf(posts) = sum[Len(posts)]
  BY TrailIsTotal
<1> HIDE DEF sum
<1> QED
  BY <1>1, <1>2, TotalsAgree

LEMMA TrailAdded ==
  ASSUME NEW D, NEW posts \in Seq(D), NEW e \in D
  PROVE  TrailOf(Append(posts, e)) = TrailOf(posts) + e.delta
<1> DEFINE n == Len(posts)
           more == Append(posts, e)
<1>1. PICK f : Totals(posts, f)
  BY TotalsExist
<1> DEFINE g == [k \in 0 .. n + 1 |-> IF k = n + 1 THEN f[n] + e.delta ELSE f[k]]
<1>2. n \in Nat /\ Len(more) = n + 1 /\ more[n + 1] = e /\ \A k \in 1 .. n : more[k] = posts[k]
  OBVIOUS
<1> HIDE DEF more, n
<1>3. \A k \in 0 .. n : f[k] = IF k = 0 THEN 0 ELSE f[k - 1] + posts[k].delta
  BY <1>1 DEF Totals, n
<1>4. g = [k \in 0 .. n + 1 |-> IF k = 0 THEN 0 ELSE g[k - 1] + more[k].delta]
  <2> SUFFICES ASSUME NEW k \in 0 .. n + 1
               PROVE  g[k] = IF k = 0 THEN 0 ELSE g[k - 1] + more[k].delta
    OBVIOUS
  <2>1. CASE k = n + 1
    BY <1>2, <2>1
  <2>2. CASE k # n + 1
    BY <1>2, <1>3, <2>2
  <2> QED
    BY <2>1, <2>2
<1>5. Totals(more, g)
  BY <1>2, <1>4 DEF Totals
<1>6. g[n + 1] = f[n] + e.delta
  BY <1>2
<1> HIDE DEF g
<1>7. TrailOf(more) = g[n + 1]
  BY <1>2, <1>5, TrailIs
<1>8. TrailOf(posts) = f[n]
  BY <1>1, <1>2, TrailIs DEF n
<1> QED
  BY <1>6, <1>7, <1>8 DEF more

LEMMA TrailTyped ==
  ASSUME NEW posts, Len(posts) \in Nat, \A k \in 1 .. Len(posts) : posts[k].delta \in Int
  PROVE  TrailOf(posts) \in Int
<1>1. PICK f : Totals(posts, f)
  BY TotalsExist
<1> DEFINE S == {n \in Nat : n \in 0 .. Len(posts) => f[n] \in Int}
<1>2. 0 \in S
  BY <1>1 DEF Totals
<1>3. \A n \in Nat : n \in S => n + 1 \in S
  <2> TAKE n \in Nat
  <2> HAVE n \in S
  <2> SUFFICES ASSUME n + 1 \in 0 .. Len(posts) PROVE f[n + 1] \in Int
    OBVIOUS
  <2>1. f[n + 1] = f[n] + posts[n + 1].delta
    BY <1>1 DEF Totals
  <2> QED
    BY <2>1
<1> HIDE DEF S
<1>4. Len(posts) \in S
  BY <1>2, <1>3, Counting
<1> QED
  BY <1>1, <1>4, TrailIs DEF S

-----------------------------------------------------------------------------
(* The invariant. *)

\* one transaction is open at a time, and there are tables to go back to then
Running == {"first", "rest", "commit"}
OneOpen ==
  /\ open # 0 => asked[open].at \in Running
  /\ open = 0 => kept = Blank
  /\ \A i \in DOMAIN asked : asked[i].at \in Running => i = open

DownIsIdle == ~up => open = 0 /\ \A i \in DOMAIN asked : asked[i].at = "done"

StagesOf(op) ==
  CASE op = "signup" -> {"create", "begin", "first", "rest", "commit", "undo", "unmake", "done"}
    [] op \in {"welcome", "daily", "search"} -> {"begin", "first", "rest", "commit", "done"}
    [] op = "claim" -> {"check", "cap", "begin", "first", "rest", "commit", "done"}
    [] op \in {"gift", "adjust"} -> {"check", "begin", "first", "rest", "commit", "done"}
    [] op = "delete" -> {"begin", "first", "commit", "identity", "row", "done"}
RequestsFit ==
  \A i \in DOMAIN asked : /\ asked[i].at \in StagesOf(asked[i].op)
                          /\ asked[i].op = "gift" <=> asked[i].to # asked[i].user

\* an account is made once, and what is to be made has left no trace yet
SignsUp(i, u) == asked[i].op \in {"signup", "welcome"} /\ asked[i].user = u
Unborn(u) == u \notin Veterans /\ \A i \in DOMAIN asked : SignsUp(i, u) => asked[i].at = "create"
Unknown(tables, u) == u \notin tables.accounts /\ tables.balance[u] = 0 /\ tables.ledger[u] = <<>>
SignedUpOnce ==
  \A u \in Holders :
    /\ \A i \in DOMAIN asked : SignsUp(i, u) => u \notin Veterans
    /\ \A i, j \in DOMAIN asked : SignsUp(i, u) /\ SignsUp(j, u) => i = j
UnbornUnknown ==
  \A u \in Holders : Unborn(u) =>
    /\ Unknown(db, u) /\ Unknown(kept, u)
    /\ \A i \in DOMAIN asked :
         /\ asked[i].user = u => SignsUp(i, u)
         /\ asked[i].to = u => SignsUp(i, u) \/ asked[i].at \in {"check", "done"}
GrantToCome ==
  \A i \in DOMAIN asked :
    asked[i].op = "signup" /\ asked[i].at \in {"create", "begin", "first", "rest"} =>
      /\ DOMAIN RowsOf(db.ledger[asked[i].user], "signup") = {}
      /\ DOMAIN RowsOf(kept.ledger[asked[i].user], "signup") = {}

\* Between its two statements a transaction has moved the balance of its user and not
\* posted it, or the reverse.
Amount(op) ==
  CASE op \in {"daily", "welcome"} -> DailyReward
    [] op = "gift" -> -Gift
    [] op = "search" -> -MatchCost
    [] op = "claim" -> AdReward
    [] op = "adjust" -> -Penalty
    [] op = "signup" -> StartGrant
ReasonOf(op) ==
  CASE op \in {"daily", "welcome"} -> "daily"
    [] op = "gift" -> "gift"
    [] op = "search" -> "match_spend"
    [] op = "claim" -> "ad"
    [] op = "adjust" -> "admin"
    [] op = "signup" -> "signup"
Halfway(u) == open # 0 /\ asked[open].at = "rest" /\ asked[open].user = u
Ahead(u) ==
  IF ~Halfway(u) THEN 0
  ELSE IF Daily(asked[open]) THEN -DailyReward ELSE Amount(asked[open].op)
Due(u) == IF Halfway(u) /\ asked[open].op = "adjust" THEN Penalty ELSE 0
Balanced(tables, u, ahead, due) ==
  u \in tables.accounts \ tables.bared =>
    /\ tables.balance[u] = TrailOf(tables.ledger[u]) + ahead
    /\ tables.balance[u] + Penalty * Penalties(tables.ledger[u]) + due >= 0
BooksKept ==
  \A u \in Holders : Balanced(db, u, Ahead(u), Due(u)) /\ Balanced(kept, u, 0, 0)

Dated(posts) == \A k \in DOMAIN posts : posts[k].at <= clock
Owed(posts) == Dated(posts) /\ DailiesApart(posts) /\ GrantedOnce(posts)
Capped(posts) == AdsApart(posts) /\ AdsCapped(posts)
PaidSoFar ==
  \A u \in Holders : /\ Owed(db.ledger[u]) /\ Owed(kept.ledger[u])
                     /\ u \notin raced => Capped(db.ledger[u]) /\ Capped(kept.ledger[u])

\* a claim past its checks still finds what it found, whatever is rolled back
Room(posts) == Cardinality(AdsOn(posts, Today)) < AdCap
Past(i, u) == asked[i].op = "claim" /\ asked[i].user = u /\ asked[i].at \notin {"check", "done"}
ClaimsChecked ==
  \A u \in Holders \ raced :
    /\ \A i, j \in DOMAIN asked : Past(i, u) /\ Past(j, u) => i = j
    /\ \A i \in DOMAIN asked : Past(i, u) /\ asked[i].at # "commit" =>
         Waited(db.ledger[u]) /\ Waited(kept.ledger[u])
    /\ \A i \in DOMAIN asked : Past(i, u) /\ asked[i].at \notin {"cap", "commit"} =>
         Room(db.ledger[u]) /\ Room(kept.ledger[u])

\* what a remote transaction shows nobody yet holds no ad reward that is not in the
\* tables the others see, save its own
AdsWithin(posts, others) ==
  \A k \in DOMAIN RowsOf(posts, "ad") : k \in DOMAIN RowsOf(others, "ad") /\ others[k] = posts[k]
NothingHidden ==
  open # 0 /\ ~local =>
    \A u \in Holders : \/ asked[open].op = "claim" /\ asked[open].user = u
                       \/ AdsWithin(db.ledger[u], kept.ledger[u])

AnswersWritten ==
  promised \ swept \subseteq db.other /\ (open # 0 => promised \ swept \subseteq kept.other)

LedgerInv ==
  /\ LedgerTypeOK /\ OneOpen /\ DownIsIdle /\ RequestsFit /\ SignedUpOnce /\ UnbornUnknown
  /\ GrantToCome /\ BooksKept /\ PaidSoFar /\ ClaimsChecked /\ NothingHidden /\ AnswersWritten

-----------------------------------------------------------------------------
(* A user's rows: another one at the end, or none at all. *)

LEMMA RowsPlace ==
  ASSUME NEW posts, NEW reason
  PROVE  DOMAIN RowsOf(posts, reason) = {k \in DOMAIN posts : posts[k].reason = reason}
  BY DEF RowsOf

LEMMA RowsTyped ==
  ASSUME NEW posts \in Seq(Entries), NEW reason
  PROVE  /\ \A k \in DOMAIN posts : /\ k \in Nat \ {0} /\ k <= Len(posts)
                                    /\ posts[k] \in Entries /\ posts[k].at \in Nat /\ posts[k].delta \in Int
         /\ DOMAIN posts = 1 .. Len(posts) /\ Len(posts) \in Nat
         /\ DOMAIN RowsOf(posts, reason) \subseteq DOMAIN posts
         /\ IsFiniteSet(DOMAIN RowsOf(posts, reason))
<1> DEFINE R == DOMAIN RowsOf(posts, reason)
<1>1. R = {k \in DOMAIN posts : posts[k].reason = reason}
  BY RowsPlace
<1>2. \A k \in DOMAIN posts : k \in Nat \ {0} /\ k <= Len(posts) /\ posts[k] \in Entries
  OBVIOUS
<1>3. DOMAIN posts = 1 .. Len(posts) /\ Len(posts) \in Nat
  OBVIOUS
<1>4. \A e \in Entries : e.at \in Nat /\ e.delta \in Int
  BY DEF Entries
<1> DEFINE n == Len(posts)
<1>a. IsFiniteSet(1 .. n)
  <2>1. n \in Int /\ 1 \in Int
    BY <1>3
  <2> HIDE DEF n
  <2> QED
    BY <2>1, FS_Interval
<1> HIDE DEF R
<1>5. R \subseteq DOMAIN posts
  BY <1>1
<1>6. IsFiniteSet(R)
  BY <1>3, <1>5, <1>a, FS_Subset
<1> QED
  BY <1>2, <1>3, <1>4, <1>5, <1>6 DEF R

OneMore(posts, more, n, e) ==
  /\ posts \in Seq(Entries) /\ more \in Seq(Entries) /\ e \in Entries
  /\ n \in Nat /\ n \notin DOMAIN posts /\ DOMAIN more = DOMAIN posts \cup {n}
  /\ more[n] = e /\ \A k \in DOMAIN posts : more[k] = posts[k] /\ k < n /\ k \in Nat

LEMMA OneMoreRow ==
  ASSUME NEW posts \in Seq(Entries), NEW e \in Entries
  PROVE  OneMore(posts, Append(posts, e), Len(posts) + 1, e)
  BY DEF OneMore

LEMMA RowsAdded ==
  ASSUME NEW posts, NEW more, NEW n, NEW e, OneMore(posts, more, n, e), NEW reason
  PROVE  /\ DOMAIN RowsOf(posts, reason) \subseteq DOMAIN posts
         /\ e.reason = reason => DOMAIN RowsOf(more, reason) = DOMAIN RowsOf(posts, reason) \cup {n}
         /\ e.reason # reason => DOMAIN RowsOf(more, reason) = DOMAIN RowsOf(posts, reason)
<1>1. DOMAIN RowsOf(more, reason) = {k \in DOMAIN more : more[k].reason = reason}
  BY RowsPlace
<1>2. DOMAIN RowsOf(posts, reason) = {k \in DOMAIN posts : posts[k].reason = reason}
  BY RowsPlace
<1>3. e.reason = reason => {k \in DOMAIN more : more[k].reason = reason}
        = {k \in DOMAIN posts : posts[k].reason = reason} \cup {n}
  BY DEF OneMore
<1>4. e.reason # reason => {k \in DOMAIN more : more[k].reason = reason}
        = {k \in DOMAIN posts : posts[k].reason = reason}
  BY DEF OneMore
<1> QED
  BY <1>1, <1>2, <1>3, <1>4

LEMMA PenaltiesAdded ==
  ASSUME NEW posts, NEW more, NEW n, NEW e, OneMore(posts, more, n, e)
  PROVE  /\ Penalties(posts) \in Nat
         /\ e.reason = "admin" => Penalties(more) = Penalties(posts) + 1
         /\ e.reason # "admin" => Penalties(more) = Penalties(posts)
<1> DEFINE R == DOMAIN RowsOf(posts, "admin")
           S == DOMAIN RowsOf(more, "admin")
<1>1. IsFiniteSet(R)
  BY RowsTyped DEF OneMore
<1>2. /\ R \subseteq DOMAIN posts
      /\ e.reason = "admin" => S = R \cup {n}
      /\ e.reason # "admin" => S = R
  BY RowsAdded
<1>3. Penalties(posts) = Cardinality(R) /\ Penalties(more) = Cardinality(S)
  BY DEF Penalties
<1> HIDE DEF R, S
<1>4. Cardinality(R) \in Nat
  BY <1>1, FS_CardinalityType
<1>5. Cardinality(R \cup {n}) = Cardinality(R) + 1
  BY <1>1, <1>2, FS_AddElement DEF OneMore
<1> QED
  BY <1>2, <1>3, <1>4, <1>5

LEMMA OwedAdded ==
  ASSUME NEW posts, NEW more, NEW n, NEW e, OneMore(posts, more, n, e), Owed(posts), e.at <= clock,
         e.reason = "daily" => \A k \in DOMAIN RowsOf(posts, "daily") : DayOf(posts[k]) # DayOf(e),
         e.reason = "signup" => DOMAIN RowsOf(posts, "signup") = {}
  PROVE  Owed(more)
<1>1. /\ DOMAIN RowsOf(posts, "daily") \subseteq DOMAIN posts
      /\ e.reason = "daily" => DOMAIN RowsOf(more, "daily") = DOMAIN RowsOf(posts, "daily") \cup {n}
      /\ e.reason # "daily" => DOMAIN RowsOf(more, "daily") = DOMAIN RowsOf(posts, "daily")
  BY ONLY OneMore(posts, more, n, e), RowsAdded
<1>2. /\ DOMAIN RowsOf(posts, "signup") \subseteq DOMAIN posts
      /\ e.reason = "signup" => DOMAIN RowsOf(more, "signup") = DOMAIN RowsOf(posts, "signup") \cup {n}
      /\ e.reason # "signup" => DOMAIN RowsOf(more, "signup") = DOMAIN RowsOf(posts, "signup")
  BY ONLY OneMore(posts, more, n, e), RowsAdded
<1>4. Dated(more)
  BY DEF Owed, Dated, OneMore
<1>5. DailiesApart(more)
  <2> DEFINE P == DOMAIN RowsOf(posts, "daily")
             M == DOMAIN RowsOf(more, "daily")
  <2>1. \A j, k \in P : j # k => DayOf(posts[j]) # DayOf(posts[k])
    BY DEF Owed, DailiesApart
  <2>2. e.reason = "daily" => \A k \in P : DayOf(posts[k]) # DayOf(e)
    OBVIOUS
  <2>3. P \subseteq DOMAIN posts /\ (M = P \/ (e.reason = "daily" /\ M = P \cup {n}))
    BY <1>1
  <2> HIDE DEF P, M
  <2>4. \A j, k \in M : j # k => DayOf(more[j]) # DayOf(more[k])
    BY <2>1, <2>2, <2>3 DEF OneMore
  <2> QED
    BY <2>4 DEF DailiesApart, M
<1>6. GrantedOnce(more)
  BY <1>2 DEF Owed, GrantedOnce
<1> QED
  BY <1>4, <1>5, <1>6 DEF Owed

LEMMA AdsAdded ==
  ASSUME NEW posts, NEW more, NEW n, NEW e, OneMore(posts, more, n, e), NEW day
  PROVE  /\ Cardinality(AdsOn(posts, day)) \in Nat
         /\ e.reason = "ad" /\ DayOf(e) = day =>
              Cardinality(AdsOn(more, day)) = Cardinality(AdsOn(posts, day)) + 1
         /\ ~(e.reason = "ad" /\ DayOf(e) = day) =>
              Cardinality(AdsOn(more, day)) = Cardinality(AdsOn(posts, day))
<1> DEFINE P == DOMAIN RowsOf(posts, "ad")
           M == DOMAIN RowsOf(more, "ad")
           A == AdsOn(posts, day)
           B == AdsOn(more, day)
<1>1. /\ P \subseteq DOMAIN posts
      /\ e.reason = "ad" => M = P \cup {n}
      /\ e.reason # "ad" => M = P
  BY ONLY OneMore(posts, more, n, e), RowsAdded
<1>2. IsFiniteSet(P)
  BY RowsTyped DEF OneMore
<1>3. A = {k \in P : DayOf(posts[k]) = day} /\ B = {k \in M : DayOf(more[k]) = day}
  BY DEF AdsOn
<1>4. \A k \in DOMAIN posts : more[k] = posts[k]
  BY DEF OneMore
<1>5. more[n] = e /\ n \notin DOMAIN posts
  BY DEF OneMore
<1> HIDE DEF P, M, A, B
<1>6. A \subseteq P
  BY <1>3
<1>7. IsFiniteSet(A) /\ n \notin A
  BY <1>1, <1>2, <1>5, <1>6, FS_Subset
<1>8. Cardinality(A) \in Nat /\ Cardinality(A \cup {n}) = Cardinality(A) + 1
  BY <1>7, FS_CardinalityType, FS_AddElement
<1>9. e.reason = "ad" /\ DayOf(e) = day => B = A \cup {n}
  BY <1>1, <1>3, <1>4, <1>5
<1>10. ~(e.reason = "ad" /\ DayOf(e) = day) => B = A
  BY <1>1, <1>3, <1>4, <1>5
<1> QED
  BY <1>8, <1>9, <1>10 DEF A, B

LEMMA NoAdAdded ==
  ASSUME NEW posts, NEW more, NEW n, NEW e, OneMore(posts, more, n, e), e.reason # "ad"
  PROVE  /\ Waited(posts) => Waited(more)
         /\ Room(posts) => Room(more)
         /\ Capped(posts) => Capped(more)
         /\ \A others : AdsWithin(posts, others) => AdsWithin(more, others)
<1> DEFINE P == DOMAIN RowsOf(posts, "ad")
           M == DOMAIN RowsOf(more, "ad")
<1>1. P \subseteq DOMAIN posts /\ M = P
  <2>1. /\ P \subseteq DOMAIN posts
        /\ e.reason = "ad" => M = P \cup {n}
        /\ e.reason # "ad" => M = P
    BY ONLY OneMore(posts, more, n, e), RowsAdded
  <2> QED
    BY <2>1
<1>2. \A k \in P : more[k] = posts[k]
  BY <1>1 DEF OneMore
<1>3. \A day : Cardinality(AdsOn(more, day)) = Cardinality(AdsOn(posts, day))
  BY ONLY OneMore(posts, more, n, e), e.reason # "ad", AdsAdded
<1>4. Waited(posts) => Waited(more)
  BY <1>1, <1>2 DEF Waited
<1>5. Room(posts) => Room(more)
  BY <1>3 DEF Room
<1>6. Capped(posts) => Capped(more)
  BY <1>1, <1>2, <1>3 DEF Capped, AdsApart, AdsCapped
<1>7. \A others : AdsWithin(posts, others) => AdsWithin(more, others)
  BY <1>1, <1>2 DEF AdsWithin
<1> QED
  BY <1>4, <1>5, <1>6, <1>7

LEMMA AdAdded ==
  ASSUME NEW posts, NEW more, NEW n, NEW e, OneMore(posts, more, n, e), e.reason = "ad",
         e.at = clock, Waited(posts), Room(posts), Capped(posts)
  PROVE  Capped(more)
<1> DEFINE P == DOMAIN RowsOf(posts, "ad")
           M == DOMAIN RowsOf(more, "ad")
<1>1. P \subseteq DOMAIN posts /\ M = P \cup {n}
  BY ONLY OneMore(posts, more, n, e), e.reason = "ad", RowsAdded
<1>2. /\ \A k \in P : more[k] = posts[k] /\ k < n /\ k \in Nat
      /\ more[n] = e /\ n \in Nat
  BY <1>1 DEF OneMore
<1>3. AdsApart(more)
  <2>1. \A j, k \in P : j < k => posts[k].at - posts[j].at >= Cooldown
    BY DEF Capped, AdsApart
  <2>2. \A k \in P : clock - posts[k].at >= Cooldown
    BY DEF Waited
  <2> HIDE DEF P, M
  <2> SUFFICES ASSUME NEW j \in M, NEW k \in M, j < k PROVE more[k].at - more[j].at >= Cooldown
    BY DEF AdsApart, M
  <2>3. j # n
    BY <1>1, <1>2
  <2>4. CASE k = n
    BY <1>1, <1>2, <2>2, <2>3, <2>4
  <2>5. CASE k # n
    BY <1>1, <1>2, <2>1, <2>3, <2>5
  <2> QED
    BY <2>4, <2>5
<1>4. AdsCapped(more)
  <2> SUFFICES ASSUME NEW day \in 0 .. Today PROVE Cardinality(AdsOn(more, day)) <= AdCap
    BY DEF AdsCapped
  <2>1. Cardinality(AdsOn(posts, day)) <= AdCap /\ Cardinality(AdsOn(posts, Today)) < AdCap
    BY DEF Capped, AdsCapped, Room
  <2>2. DayOf(e) = Today
    BY DEF DayOf, Today
  <2>3. AdCap \in Nat
    BY LedgerBounds
  <2>4. /\ Cardinality(AdsOn(posts, day)) \in Nat
        /\ DayOf(e) = day => Cardinality(AdsOn(more, day)) = Cardinality(AdsOn(posts, day)) + 1
        /\ ~(DayOf(e) = day) => Cardinality(AdsOn(more, day)) = Cardinality(AdsOn(posts, day))
    BY ONLY OneMore(posts, more, n, e), e.reason = "ad", AdsAdded
  <2> DEFINE A == Cardinality(AdsOn(posts, day))
             B == Cardinality(AdsOn(more, day))
             C == Cardinality(AdsOn(posts, Today))
  <2>5. /\ A <= AdCap /\ C < AdCap /\ A \in Nat
        /\ day = Today => A = C /\ B = A + 1
        /\ day # Today => B = A
    BY <2>1, <2>2, <2>4
  <2> HIDE DEF A, B, C
  <2>6. B <= AdCap
    BY <2>3, <2>5
  <2> QED
    BY <2>6 DEF B
<1> QED
  BY <1>3, <1>4 DEF Capped

LEMMA NoRows ==
  /\ \A reason : DOMAIN RowsOf(<<>>, reason) = {}
  /\ TrailOf(<<>>) = 0 /\ Penalties(<<>>) = 0
  /\ Owed(<<>>) /\ Capped(<<>>) /\ Waited(<<>>) /\ Room(<<>>)
  /\ \A others : AdsWithin(<<>>, others)
<1>1. \A reason : DOMAIN RowsOf(<<>>, reason) = {}
  BY DEF RowsOf
<1>2. \A day : AdsOn(<<>>, day) = {}
  BY <1>1 DEF AdsOn
<1>3. Cardinality({}) = 0 /\ AdCap \in Nat \ {0}
  BY FS_EmptySet, LedgerBounds
<1>4. Penalties(<<>>) = 0
  BY <1>1, <1>3 DEF Penalties
<1>5. Owed(<<>>)
  BY <1>1 DEF Owed, Dated, DailiesApart, GrantedOnce
<1>a. \A day : Cardinality(AdsOn(<<>>, day)) = 0
  BY <1>2, <1>3
<1>b. AdsApart(<<>>) /\ Waited(<<>>)
  BY <1>1 DEF AdsApart, Waited
<1>c. AdsCapped(<<>>) /\ Room(<<>>)
  BY <1>a, <1>3 DEF AdsCapped, Room
<1>6. Capped(<<>>) /\ Waited(<<>>) /\ Room(<<>>)
  BY <1>b, <1>c DEF Capped
<1> QED
  BY <1>1, <1>4, <1>5, <1>6, TrailEmpty DEF AdsWithin

LEMMA DaysPass ==
  ASSUME NEW a \in Nat, NEW b \in Nat, a <= b
  PROVE  a \div DayTicks \in Nat /\ a \div DayTicks <= b \div DayTicks
<1>1. DayTicks \in Nat \ {0}
  BY LedgerBounds
<1> DEFINE p == a \div DayTicks
           q == b \div DayTicks
<1>2. /\ p \in Int /\ DayTicks * p <= a /\ a < DayTicks * (p + 1)
      /\ q \in Int /\ DayTicks * q <= b /\ b < DayTicks * (q + 1)
  BY <1>1
<1> HIDE DEF p, q
<1>3. p >= 0
  BY <1>1, <1>2
<1>4. p <= q
  <2> SUFFICES ASSUME q + 1 <= p PROVE FALSE
    BY <1>2
  <2>1. DayTicks * (q + 1) <= DayTicks * p
    BY <1>1, <1>2
  <2> QED
    BY <1>1, <1>2, <2>1
<1> QED
  BY <1>2, <1>3, <1>4 DEF p, q

\* time passes
LEMMA Ticks ==
  ASSUME NEW posts \in Seq(Entries), clock \in Nat, clock' = clock + 1, Owed(posts)
  PROVE  /\ Owed(posts)'
         /\ Capped(posts) => Capped(posts)'
         /\ Waited(posts) => Waited(posts)'
         /\ Room(posts) => Room(posts)'
<1>1. \A k \in DOMAIN posts : posts[k].at \in Nat /\ posts[k].at <= clock
  BY RowsTyped DEF Owed, Dated
<1> DEFINE P == DOMAIN RowsOf(posts, "ad")
<1>2. P \subseteq DOMAIN posts
  BY RowsTyped
<1>3. Today \in Nat /\ Today' \in Nat /\ Today <= Today'
  BY DaysPass DEF Today
<1>4. \A k \in P : DayOf(posts[k]) \in Nat /\ DayOf(posts[k]) <= Today
  BY <1>1, <1>2, DaysPass DEF DayOf, Today
<1>5. Owed(posts)'
  <2>1. Dated(posts)'
    BY <1>1 DEF Dated
  <2> QED
    BY <2>1 DEF Owed, DailiesApart, GrantedOnce
<1>6. \A day : day > Today /\ day \in Nat => Cardinality(AdsOn(posts, day)) = 0
  <2> SUFFICES ASSUME NEW day \in Nat, day > Today PROVE Cardinality(AdsOn(posts, day)) = 0
    OBVIOUS
  <2>1. AdsOn(posts, day) = {k \in P : DayOf(posts[k]) = day}
    BY DEF AdsOn
  <2> HIDE DEF P
  <2>2. AdsOn(posts, day) = {}
    BY <1>3, <1>4, <2>1
  <2> QED
    BY <2>2, FS_EmptySet
<1>7. AdCap \in Nat \ {0} /\ Cooldown \in Nat
  BY LedgerBounds
<1>8. ASSUME Capped(posts) PROVE Capped(posts)'
  <2>1. AdsCapped(posts)'
    <3> SUFFICES ASSUME NEW day \in 0 .. Today' PROVE Cardinality(AdsOn(posts, day)) <= AdCap
      BY DEF AdsCapped
    <3>1. CASE day <= Today
      <4>1. day \in 0 .. Today
        BY <1>3, <3>1
      <4> QED
        BY <1>8, <4>1 DEF Capped, AdsCapped
    <3>2. CASE day > Today
      BY <1>3, <1>6, <1>7, <3>2
    <3> QED
      BY <1>3, <3>1, <3>2
  <2>2. AdsApart(posts)'
    BY <1>8 DEF Capped, AdsApart
  <2> QED
    BY <2>1, <2>2 DEF Capped
<1>9. Waited(posts) => Waited(posts)'
  BY <1>1, <1>2, <1>7 DEF Waited
<1>10. Room(posts) => Room(posts)'
  <2>1. CASE Today' = Today
    BY <2>1 DEF Room
  <2>2. CASE Today' # Today
    BY <1>3, <1>6, <1>7, <2>2 DEF Room
  <2> QED
    BY <2>1, <2>2
<1> QED
  BY <1>5, <1>8, <1>9, <1>10

-----------------------------------------------------------------------------
(* The tables: what a statement changes. *)

LEMMA TablesTyped ==
  ASSUME NEW t \in Tables
  PROVE  /\ t.accounts \subseteq Holders /\ t.bared \subseteq Holders /\ t.other \subseteq {1}
         /\ \A v \in Holders : t.balance[v] \in Int /\ t.ledger[v] \in Seq(Entries)
  BY DEF Tables

LEMMA BlankTyped ==
  /\ Blank \in Tables /\ Blank.accounts = {} /\ Blank.other = {}
  /\ \A v \in Holders : Blank.balance[v] = 0 /\ Blank.ledger[v] = <<>>
  BY DEF Blank, Tables

\* two tables say the same of a user
Same(t, s, v) ==
  /\ v \in t.accounts <=> v \in s.accounts
  /\ v \in t.bared <=> v \in s.bared
  /\ t.balance[v] = s.balance[v] /\ t.ledger[v] = s.ledger[v]

LEMMA CreditedIs ==
  ASSUME NEW t \in Tables, NEW u \in Holders, NEW delta \in Int, NEW s, s = Credited(t, u, delta)
  PROVE  /\ s \in Tables /\ s.accounts = t.accounts /\ s.bared = t.bared /\ s.other = t.other
         /\ s.ledger = t.ledger
         /\ u \in t.accounts => s.balance[u] = t.balance[u] + delta
         /\ u \notin t.accounts => s.balance[u] = t.balance[u]
         /\ \A v \in Holders : v # u => s.balance[v] = t.balance[v] /\ Same(t, s, v)
<1> DEFINE b == IF u \in t.accounts THEN t.balance[u] + delta ELSE t.balance[u]
<1>1. t.balance \in [Holders -> Int] /\ b \in Int
  BY DEF Tables
<1>2. s = [t EXCEPT !.balance = [t.balance EXCEPT ![u] = b]]
  BY DEF Credited, Tables
<1> HIDE DEF b
<1>a. PICK f : f = [t.balance EXCEPT ![u] = b]
  OBVIOUS
<1>b. f \in [Holders -> Int]
  BY <1>1, <1>a
<1>c. s = [t EXCEPT !.balance = f]
  BY <1>2, <1>a
<1>3. /\ s.accounts = t.accounts /\ s.bared = t.bared /\ s.other = t.other /\ s.ledger = t.ledger
      /\ s.balance = [t.balance EXCEPT ![u] = b] /\ s \in Tables
  <2>1. s \in Tables
    BY ONLY <1>b, <1>c, t \in Tables DEF Tables
  <2>2. /\ s.accounts = t.accounts /\ s.bared = t.bared /\ s.other = t.other /\ s.ledger = t.ledger
        /\ s.balance = f
    BY ONLY <1>c, t \in Tables DEF Tables
  <2> QED
    BY <1>a, <2>1, <2>2
<1>4. s.balance[u] = b /\ \A v \in Holders : v # u => s.balance[v] = t.balance[v]
  BY <1>1, <1>3
<1> QED
  BY <1>3, <1>4 DEF Same, b

LEMMA PostedIs ==
  ASSUME NEW t \in Tables, NEW u \in Holders, NEW delta \in Int, NEW reason \in Reasons,
         clock \in Nat, NEW s, s = Posted(t, u, delta, reason)
  PROVE  /\ s \in Tables /\ s.accounts = t.accounts /\ s.bared = t.bared /\ s.other = t.other
         /\ s.balance = t.balance
         /\ s.ledger[u] = Append(t.ledger[u], Entry(delta, reason))
         /\ \A v \in Holders : v # u => s.ledger[v] = t.ledger[v] /\ Same(t, s, v)
<1>1. Entry(delta, reason) \in Entries
  BY DEF Entry, Entries
<1>2. Append(t.ledger[u], Entry(delta, reason)) \in Seq(Entries)
  BY <1>1, TablesTyped
<1> QED
  BY <1>2 DEF Posted, Tables, Same

\* The same of what was posted, named as it is computed: the user's own row, and the others.
LEMMA PostedRow ==
  ASSUME NEW t \in Tables, NEW u \in Holders, NEW delta \in Int, NEW reason \in Reasons,
         clock \in Nat
  PROVE  /\ Posted(t, u, delta, reason) \in Tables
         /\ Posted(t, u, delta, reason).accounts = t.accounts
         /\ Posted(t, u, delta, reason).bared = t.bared
         /\ Posted(t, u, delta, reason).other = t.other
         /\ Posted(t, u, delta, reason).balance = t.balance
         /\ Posted(t, u, delta, reason).ledger[u] = Append(t.ledger[u], Entry(delta, reason))
<1>1. PICK s : s = Posted(t, u, delta, reason)
  OBVIOUS
<1> QED
  BY <1>1, PostedIs

LEMMA PostedBeside ==
  ASSUME NEW t \in Tables, NEW u \in Holders, NEW delta \in Int, NEW reason \in Reasons,
         clock \in Nat, NEW v \in Holders, v # u
  PROVE  /\ Posted(t, u, delta, reason).ledger[v] = t.ledger[v]
         /\ Same(t, Posted(t, u, delta, reason), v)
<1>1. PICK s : s = Posted(t, u, delta, reason)
  OBVIOUS
<1> QED
  BY <1>1, PostedIs

LEMMA ClearedIs ==
  ASSUME NEW t \in Tables, NEW u \in Holders, NEW s, s = LedgerCleared(t, u)
  PROVE  /\ s \in Tables /\ s.accounts = t.accounts /\ s.bared = t.bared \cup {u} /\ s.other = t.other
         /\ s.ledger[u] = <<>>
         /\ \A v \in Holders : v # u => s.ledger[v] = t.ledger[v] /\ Same(t, s, v)
<1> DEFINE f == [t.ledger EXCEPT ![u] = <<>>]
<1>1. t.ledger \in [Holders -> Seq(Entries)] /\ <<>> \in Seq(Entries)
  BY DEF Tables
<1>2. f \in [Holders -> Seq(Entries)] /\ f[u] = <<>> /\ \A v \in Holders : v # u => f[v] = t.ledger[v]
  BY <1>1
<1> DEFINE g == t.bared \cup {u}
           L == [Holders -> Seq(Entries)]
<1>3. s = [t EXCEPT !.ledger = f, !.bared = g]
  BY DEF LedgerCleared, Tables
<1>a. g \subseteq Holders /\ f \in L
  BY <1>2 DEF Tables
<1>b. t \in [accounts : SUBSET Holders, balance : [Holders -> Int], ledger : L,
             other : SUBSET {1}, bared : SUBSET Holders]
  BY DEF Tables
<1>c. Tables = [accounts : SUBSET Holders, balance : [Holders -> Int], ledger : L,
                other : SUBSET {1}, bared : SUBSET Holders]
  BY DEF Tables
<1> HIDE DEF f, g, L
<1>4. /\ s.accounts = t.accounts /\ s.bared = g /\ s.other = t.other /\ s.ledger = f
      /\ s.balance = t.balance /\ s \in Tables
  BY <1>3, <1>a, <1>b, <1>c
<1> QED
  BY <1>2, <1>4 DEF Same, g

LEMMA DeletedIs ==
  ASSUME NEW t \in Tables, NEW u \in Holders, NEW s, s = AccountDeleted(t, u)
  PROVE  /\ s \in Tables /\ s.accounts = t.accounts \ {u} /\ s.other = t.other
         /\ s.ledger = t.ledger
         /\ \A v \in Holders : v # u => Same(t, s, v)
<1> DEFINE f == [t.balance EXCEPT ![u] = 0]
<1>1. t.balance \in [Holders -> Int]
  BY DEF Tables
<1>2. f \in [Holders -> Int] /\ \A v \in Holders : v # u => f[v] = t.balance[v]
  BY <1>1
<1>3. s = [t EXCEPT !.accounts = t.accounts \ {u}, !.balance = f, !.bared = t.bared \ {u}]
  BY DEF AccountDeleted, Tables
<1> HIDE DEF f
<1>a. PICK live, bare : live = t.accounts \ {u} /\ bare = t.bared \ {u}
  OBVIOUS
<1>b. live \subseteq Holders /\ bare \subseteq Holders
  BY <1>a DEF Tables
<1>c. s = [t EXCEPT !.accounts = live, !.balance = f, !.bared = bare]
  BY <1>3, <1>a
<1>4. /\ s.accounts = t.accounts \ {u} /\ s.bared = t.bared \ {u} /\ s.other = t.other
      /\ s.ledger = t.ledger /\ s.balance = f /\ s \in Tables
  <2>1. s \in Tables
    BY ONLY <1>2, <1>b, <1>c, t \in Tables DEF Tables
  <2>2. /\ s.accounts = live /\ s.bared = bare /\ s.other = t.other
        /\ s.ledger = t.ledger /\ s.balance = f
    BY ONLY <1>c, t \in Tables DEF Tables
  <2> QED
    BY <1>a, <2>1, <2>2
<1> QED
  BY <1>2, <1>4 DEF Same

-----------------------------------------------------------------------------
(* The requests: one of them moves on. *)

LedgerOps == {"signup", "welcome", "claim", "daily", "gift", "search", "adjust", "delete"}

LEMMA AskedTyped ==
  ASSUME LedgerTypeOK
  PROVE  /\ \A i \in DOMAIN asked : /\ i \in Nat \ {0} /\ asked[i] \in Requests
                                    /\ asked[i].op \in LedgerOps /\ asked[i].user \in Holders
                                    /\ asked[i].to \in Holders /\ asked[i].at \in Stages
         /\ DOMAIN asked = 1 .. Len(asked) /\ Len(asked) \in Nat
         /\ open \in Nat /\ (open # 0 => open \in DOMAIN asked)
<1>1. \A i \in DOMAIN asked : i \in Nat \ {0} /\ asked[i] \in Requests
  BY DEF LedgerTypeOK
<1>2. DOMAIN asked = 1 .. Len(asked) /\ Len(asked) \in Nat
  BY DEF LedgerTypeOK
<1>3. open \in Nat /\ (open # 0 => open \in DOMAIN asked)
  BY <1>2 DEF LedgerTypeOK
<1>4. Kinds \cup {"signup", "welcome"} \subseteq LedgerOps
  BY LedgerBounds DEF LedgerOps
<1>5. \A r \in Requests : r.op \in LedgerOps /\ r.user \in Holders /\ r.to \in Holders /\ r.at \in Stages
  BY <1>4 DEF Requests
<1> QED
  BY <1>1, <1>2, <1>3, <1>5

AskGoes(i, op, stage) ==
  /\ i \in DOMAIN asked
  /\ asked' \in Seq(Requests) /\ Len(asked') = Len(asked) /\ DOMAIN asked' = DOMAIN asked
  /\ asked'[i].op = op /\ asked'[i].at = stage
  /\ asked'[i].user = asked[i].user /\ asked'[i].to = asked[i].to
  /\ \A j \in DOMAIN asked : j # i => asked'[j] = asked[j]

LEMMA Moved ==
  ASSUME asked \in Seq(Requests), NEW i \in DOMAIN asked, NEW r, r \in Requests,
         asked' = [asked EXCEPT ![i] = r], r.user = asked[i].user, r.to = asked[i].to
  PROVE  AskGoes(i, r.op, r.at)
<1>1. asked' \in Seq(Requests) /\ Len(asked') = Len(asked) /\ DOMAIN asked' = DOMAIN asked
  OBVIOUS
<1>2. asked'[i] = r /\ \A j \in DOMAIN asked : j # i => asked'[j] = asked[j]
  OBVIOUS
<1> QED
  BY <1>1, <1>2 DEF AskGoes

LEMMA MovesOn ==
  ASSUME asked \in Seq(Requests), NEW i \in DOMAIN asked, NEW stage \in Stages, MovesTo(i, stage)
  PROVE  AskGoes(i, asked[i].op, stage)
<1> DEFINE r == [asked[i] EXCEPT !.at = stage]
<1>0. asked[i] \in Requests
  OBVIOUS
<1>1. r \in Requests /\ r.op = asked[i].op /\ r.user = asked[i].user /\ r.to = asked[i].to /\ r.at = stage
  BY <1>0 DEF Requests
<1>2. asked' = [asked EXCEPT ![i] = r]
  BY DEF MovesTo
<1> HIDE DEF r
<1> QED
  BY <1>1, <1>2, Moved

LEMMA TurnsInto ==
  ASSUME asked \in Seq(Requests), NEW i \in DOMAIN asked, NEW stage \in Stages,
         NEW op \in {"signup", "welcome"}, asked' = [asked EXCEPT ![i].op = op, ![i].at = stage]
  PROVE  AskGoes(i, op, stage)
<1> DEFINE r == [asked[i] EXCEPT !.op = op, !.at = stage]
<1>0. asked[i] \in Requests
  OBVIOUS
<1>1. r \in Requests /\ r.op = op /\ r.user = asked[i].user /\ r.to = asked[i].to /\ r.at = stage
  BY <1>0 DEF Requests
<1>2. asked' = [asked EXCEPT ![i] = r]
  OBVIOUS
<1> HIDE DEF r
<1> QED
  BY <1>1, <1>2, Moved

\* how a transaction opens and ends with it
Goes(i, op, stage) ==
  /\ AskGoes(i, op, stage) /\ up /\ stage # "create" /\ stage \in StagesOf(op)
  /\ op = asked[i].op \/ {op, asked[i].op} = {"signup", "welcome"}
  /\ \/ open = 0 /\ open' = i /\ kept' = db /\ db' = db /\ stage = "first"
     \/ open = i /\ open' = 0 /\ kept' = Blank /\ stage \notin Running
     \/ open' = open /\ kept' = kept /\ (stage \in Running <=> asked[i].at \in Running)

\* One lemma for each operation: from which stage to which.
LEMMA AtStage ==
  ASSUME LedgerInv, NEW i \in DOMAIN asked
  PROVE  /\ asked \in Seq(Requests) /\ asked[i].op \in LedgerOps /\ asked[i].at \in StagesOf(asked[i].op)
         /\ asked[i].at \in Running => open = i /\ open # 0
         /\ asked[i].user \in Holders /\ asked[i].to \in Holders
         /\ (asked[i].op = "gift" <=> asked[i].to # asked[i].user)
  BY AskedTyped DEF LedgerInv, LedgerTypeOK, RequestsFit, OneOpen

LEMMA CreateAccountGoes ==
  ASSUME LedgerInv, NEW i \in DOMAIN asked, CreateAccount(i)
  PROVE  Goes(i, asked[i].op, "begin") /\ asked[i].op = "signup" /\ asked[i].at = "create"
<1>1. AskGoes(i, asked[i].op, "begin") /\ asked[i].at = "create" /\ up /\ open' = open /\ kept' = kept
  BY AtStage, MovesOn DEF CreateAccount, IsAt, Stages
<1>2. asked[i].op = "signup"
  BY <1>1, AtStage DEF StagesOf, LedgerOps
<1> QED
  BY <1>1, <1>2 DEF Goes, StagesOf, Running

LEMMA ChecksFirstGoes ==
  ASSUME LedgerInv, NEW i \in DOMAIN asked, ChecksFirst(i)
  PROVE  /\ asked[i].at = "check" /\ asked[i].op \in {"claim", "gift", "adjust"}
         /\ db' = db /\ kept' = kept /\ open' = open /\ Races(i)
         /\ \/ asked[i].op = "claim" /\ Waited(Seen.ledger[asked[i].user]) /\ Goes(i, asked[i].op, "cap")
            \/ asked[i].op = "gift" /\ asked[i].to \in Seen.accounts /\ Goes(i, asked[i].op, "begin")
            \/ asked[i].op = "adjust" /\ asked[i].user \in Seen.accounts /\ Goes(i, asked[i].op, "begin")
            \/ Goes(i, asked[i].op, "done")
<1>1. asked[i].at = "check" /\ up /\ db' = db /\ open' = open /\ kept' = kept /\ Races(i)
  BY DEF ChecksFirst, IsAt
<1>2. asked[i].op \in {"claim", "gift", "adjust"}
  BY <1>1, AtStage DEF StagesOf, LedgerOps
<1>3. \/ asked[i].op = "claim" /\ Waited(Seen.ledger[asked[i].user]) /\ MovesTo(i, "cap")
      \/ asked[i].op = "gift" /\ asked[i].to \in Seen.accounts /\ MovesTo(i, "begin")
      \/ asked[i].op = "adjust" /\ asked[i].user \in Seen.accounts /\ MovesTo(i, "begin")
      \/ MovesTo(i, "done")
  <2>1. CASE asked[i].op = "claim"
    BY <2>1 DEF ChecksFirst
  <2>2. CASE asked[i].op = "gift"
    BY <2>2 DEF ChecksFirst
  <2>3. CASE asked[i].op = "adjust"
    BY <2>3 DEF ChecksFirst
  <2> QED
    BY <1>2, <2>1, <2>2, <2>3
<1>4. ASSUME NEW stage \in {"cap", "begin", "done"}, MovesTo(i, stage),
             stage = "cap" => asked[i].op = "claim"
      PROVE  Goes(i, asked[i].op, stage)
  <2>1. AskGoes(i, asked[i].op, stage)
    BY <1>4, AtStage, MovesOn DEF Stages
  <2>2. stage \in StagesOf(asked[i].op)
    BY <1>2, <1>4 DEF StagesOf
  <2> QED
    BY <1>1, <2>1, <2>2 DEF Goes, Running
<1> QED
  BY <1>1, <1>2, <1>3, <1>4

LEMMA ChecksCapGoes ==
  ASSUME LedgerInv, NEW i \in DOMAIN asked, ChecksCap(i)
  PROVE  /\ asked[i].at = "cap" /\ asked[i].op = "claim"
         /\ db' = db /\ kept' = kept /\ open' = open /\ Races(i)
         /\ \/ Room(Seen.ledger[asked[i].user]) /\ Goes(i, "claim", "begin")
            \/ Goes(i, "claim", "done")
<1>1. asked[i].at = "cap" /\ up /\ db' = db /\ open' = open /\ kept' = kept /\ Races(i)
  BY DEF ChecksCap, IsAt
<1>2. asked[i].op = "claim"
  BY <1>1, AtStage DEF StagesOf, LedgerOps
<1>3. \/ Room(Seen.ledger[asked[i].user]) /\ MovesTo(i, "begin")
      \/ MovesTo(i, "done")
  BY DEF ChecksCap, Room
<1>4. ASSUME NEW stage \in {"begin", "done"}, MovesTo(i, stage)
      PROVE  Goes(i, "claim", stage)
  <2>1. AskGoes(i, "claim", stage)
    BY <1>2, <1>4, AtStage, MovesOn DEF Stages
  <2> QED
    BY <1>1, <1>2, <2>1 DEF Goes, Running, StagesOf
<1> QED
  BY <1>1, <1>2, <1>3, <1>4

LEMMA BeginGoes ==
  ASSUME LedgerInv, NEW i \in DOMAIN asked, Begin(i)
  PROVE  /\ asked[i].at = "begin" /\ db' = db
         /\ \/ open = 0 /\ open' = i /\ kept' = db /\ Goes(i, asked[i].op, "first")
            \/ /\ open # 0 /\ open' = open /\ kept' = kept
               /\ Goes(i, asked[i].op, "undo") \/ Goes(i, asked[i].op, "done")
<1>1. asked[i].at = "begin" /\ up /\ db' = db
  BY DEF Begin, IsAt
<1>2. asked[i].op \in LedgerOps
  BY AtStage
<1>3. CASE open = 0 /\ open' = i /\ kept' = db /\ MovesTo(i, "first")
  <2>1. AskGoes(i, asked[i].op, "first")
    BY <1>3, AtStage, MovesOn DEF Stages
  <2>2. "first" \in StagesOf(asked[i].op)
    BY <1>2 DEF StagesOf, LedgerOps
  <2> QED
    BY <1>1, <1>3, <2>1, <2>2 DEF Goes
<1>4. CASE open # 0 /\ local /\ MovesTo(i, Failed(i)) /\ UNCHANGED <<open, kept>>
  <2>1. Failed(i) \in {"undo", "done"} /\ Failed(i) \in StagesOf(asked[i].op)
    BY <1>2 DEF Failed, StagesOf, LedgerOps
  <2>2. AskGoes(i, asked[i].op, Failed(i))
    BY <1>4, <2>1, AtStage, MovesOn DEF Stages
  <2> QED
    BY <1>1, <1>4, <2>1, <2>2 DEF Goes, Running
<1> QED
  BY <1>1, <1>3, <1>4 DEF Begin

LEMMA FirstStatementGoes ==
  ASSUME LedgerInv, NEW i \in DOMAIN asked, FirstStatement(i)
  PROVE  LET r == asked[i]
         IN  /\ r.at = "first" /\ open = i
             /\ \/ RollsBack /\ Goes(i, r.op, "done")
                \/ /\ open' = open /\ kept' = kept
                   /\ \/ /\ r.op = "delete" /\ db' = LedgerCleared(db, r.user)
                         /\ Goes(i, r.op, "commit")
                      \/ /\ Daily(r) /\ OwedToday(r.user) /\ db' = Posted(db, r.user, DailyReward, "daily")
                         /\ Goes(i, r.op, "rest")
                      \/ /\ ~Daily(r) /\ r.op # "delete" /\ db' = Credited(db, r.user, Amount(r.op))
                         /\ r.op = "gift" => db.balance[r.user] >= Gift
                         /\ r.op = "search" => db.balance[r.user] >= MatchCost
                         /\ Goes(i, r.op, "rest")
<1> DEFINE r == asked[i]
<1>1. r.at = "first" /\ up /\ r.op \in LedgerOps
  BY AtStage DEF FirstStatement, IsAt
<1>2. open = i /\ asked \in Seq(Requests)
  BY <1>1, AtStage DEF Running
<1>3. CASE NotGranted(r)
  <2>1. RollsBack /\ MovesTo(i, "done")
    BY <1>3 DEF FirstStatement
  <2>2. AskGoes(i, r.op, "done")
    BY <1>2, <2>1, MovesOn DEF Stages
  <2>3. "done" \in StagesOf(r.op)
    BY <1>1 DEF StagesOf, LedgerOps
  <2>4. Goes(i, r.op, "done")
    BY <1>1, <1>2, <2>1, <2>2, <2>3 DEF Goes, RollsBack, Running
  <2> QED
    BY <1>1, <1>2, <2>1, <2>4
<1>4. CASE ~NotGranted(r)
  <2>1. open' = open /\ kept' = kept /\ MovesTo(i, IF r.op = "delete" THEN "commit" ELSE "rest")
    BY <1>4 DEF FirstStatement
  <2>2. CASE r.op = "delete"
    <3>1. db' = LedgerCleared(db, r.user)
      BY <1>4, <2>2 DEF FirstStatement, Daily
    <3>2. AskGoes(i, r.op, "commit")
      BY <1>2, <2>1, <2>2, MovesOn DEF Stages
    <3>3. Goes(i, r.op, "commit")
      BY <1>1, <2>1, <2>2, <3>2 DEF Goes, StagesOf, Running
    <3> QED
      BY <1>1, <1>2, <2>1, <2>2, <3>1, <3>3
  <2>3. CASE r.op # "delete"
    <3>2. AskGoes(i, r.op, "rest")
      BY <1>2, <2>1, <2>3, MovesOn DEF Stages
    <3>3. Goes(i, r.op, "rest")
      <4>1. "rest" \in StagesOf(r.op)
        BY <1>1, <2>3 DEF StagesOf, LedgerOps
      <4> QED
        BY <1>1, <2>1, <3>2, <4>1 DEF Goes, Running
    <3>4. CASE Daily(r)
      <4>1. OwedToday(r.user)
        BY <1>4, <3>4 DEF NotGranted
      <4>2. db' = Posted(db, r.user, DailyReward, "daily")
        BY <1>4, <3>4 DEF FirstStatement, Daily
      <4> QED
        BY <1>1, <1>2, <2>1, <3>3, <3>4, <4>1, <4>2
    <3>5. CASE ~Daily(r)
      <4>1. db' = Credited(db, r.user, Amount(r.op))
        BY <1>1, <1>4, <2>3, <3>5 DEF FirstStatement, Daily, Amount, LedgerOps
      <4>2. /\ r.op = "gift" => ~(db.balance[r.user] < Gift)
            /\ r.op = "search" => ~(db.balance[r.user] < MatchCost)
        BY <1>4 DEF NotGranted
      <4>3. db.balance[r.user] \in Int /\ Gift \in Int /\ MatchCost \in Int
        <5>1. db \in Tables /\ r.user \in Holders
          BY AtStage DEF LedgerInv, LedgerTypeOK
        <5> QED
          BY ONLY <5>1, TablesTyped, LedgerBounds
      <4>4. /\ r.op = "gift" => db.balance[r.user] >= Gift
            /\ r.op = "search" => db.balance[r.user] >= MatchCost
        BY <4>2, <4>3
      <4> QED
        BY <1>1, <1>2, <2>1, <2>3, <3>3, <3>5, <4>1, <4>4
    <3> QED
      BY <3>4, <3>5
  <2> QED
    BY <2>2, <2>3
<1> QED
  BY <1>3, <1>4

LEMMA SecondStatementGoes ==
  ASSUME LedgerInv, NEW i \in DOMAIN asked, SecondStatement(i)
  PROVE  LET r == asked[i]
         IN  /\ r.at = "rest" /\ r.op # "delete" /\ open = i /\ open' = open /\ kept' = kept
             /\ Goes(i, r.op, "commit")
             /\ \/ Daily(r) /\ db' = Credited(db, r.user, DailyReward)
                \/ /\ r.op = "gift"
                   /\ db' = Posted(Posted(Credited(db, r.to, Gift), r.user, -Gift, "gift"), r.to, Gift, "gift")
                \/ ~Daily(r) /\ r.op # "gift" /\ db' = Posted(db, r.user, Amount(r.op), ReasonOf(r.op))
<1> DEFINE r == asked[i]
<1>1. r.at = "rest" /\ up /\ r.op \in LedgerOps /\ r.op # "delete"
  BY AtStage DEF SecondStatement, IsAt, StagesOf
<1>2. open = i /\ asked \in Seq(Requests)
  BY <1>1, AtStage DEF Running
<1>3. open' = open /\ kept' = kept /\ MovesTo(i, "commit")
  BY DEF SecondStatement
<1>4. AskGoes(i, r.op, "commit")
  BY <1>2, <1>3, MovesOn DEF Stages
<1>5. "commit" \in StagesOf(r.op)
  BY <1>1 DEF StagesOf, LedgerOps
<1>6. Goes(i, r.op, "commit")
  BY <1>1, <1>3, <1>4, <1>5 DEF Goes, Running
<1>7. \/ Daily(r) /\ db' = Credited(db, r.user, DailyReward)
      \/ /\ r.op = "gift"
         /\ db' = Posted(Posted(Credited(db, r.to, Gift), r.user, -Gift, "gift"), r.to, Gift, "gift")
      \/ ~Daily(r) /\ r.op # "gift" /\ db' = Posted(db, r.user, Amount(r.op), ReasonOf(r.op))
  <2>1. CASE Daily(r)
    BY <2>1 DEF SecondStatement, Daily
  <2>2. CASE r.op = "gift"
    BY <2>2 DEF SecondStatement, Daily
  <2>3. CASE ~Daily(r) /\ r.op # "gift"
    BY <1>1, <2>3 DEF SecondStatement, Daily, Amount, ReasonOf, LedgerOps
  <2> QED
    BY <2>1, <2>2, <2>3
<1> QED
  BY <1>1, <1>2, <1>3, <1>6, <1>7

LEMMA CommitGoes ==
  ASSUME LedgerInv, NEW i \in DOMAIN asked, Commit(i)
  PROVE  /\ asked[i].at = "commit" /\ open = i /\ open' = 0 /\ kept' = Blank /\ db' = db
         /\ \/ asked[i].op = "signup" /\ Goes(i, "welcome", "begin")
            \/ asked[i].op = "delete" /\ Goes(i, "delete", "identity")
            \/ asked[i].op \notin {"signup", "delete"} /\ Goes(i, asked[i].op, "done")
<1>1. asked[i].at = "commit" /\ up /\ open' = 0 /\ kept' = Blank /\ db' = db
  BY DEF Commit, IsAt
<1>2. open = i /\ asked \in Seq(Requests) /\ asked[i].op \in LedgerOps
  BY <1>1, AtStage DEF Running
<1>3. CASE asked[i].op = "signup"
  <2>1. asked' = [asked EXCEPT ![i].op = "welcome", ![i].at = "begin"]
    BY <1>3 DEF Commit
  <2>2. AskGoes(i, "welcome", "begin")
    BY <1>2, <2>1, TurnsInto DEF Stages
  <2> QED
    BY <1>1, <1>2, <1>3, <2>2 DEF Goes, StagesOf, Running
<1>4. CASE asked[i].op = "delete"
  <2>1. MovesTo(i, "identity")
    BY <1>4 DEF Commit, MovesTo
  <2>2. AskGoes(i, "delete", "identity")
    BY <1>2, <1>4, <2>1, MovesOn DEF Stages
  <2> QED
    BY <1>1, <1>2, <1>4, <2>2 DEF Goes, StagesOf, Running
<1>5. CASE asked[i].op \notin {"signup", "delete"}
  <2>1. MovesTo(i, "done")
    BY <1>5 DEF Commit, MovesTo
  <2>2. AskGoes(i, asked[i].op, "done")
    BY <1>2, <2>1, MovesOn DEF Stages
  <2>3. "done" \in StagesOf(asked[i].op)
    BY <1>2 DEF StagesOf, LedgerOps
  <2> QED
    BY <1>1, <1>2, <1>5, <2>2, <2>3 DEF Goes, Running
<1> QED
  BY <1>3, <1>4, <1>5

LEMMA FaultGoes ==
  ASSUME LedgerInv, NEW i \in DOMAIN asked, Fault(i)
  PROVE  /\ asked[i].at \in Running /\ open = i /\ RollsBack
         /\ Goes(i, asked[i].op, "undo") \/ Goes(i, asked[i].op, "done")
<1>1. asked[i].at \in Running /\ up /\ RollsBack /\ MovesTo(i, Failed(i))
  BY DEF Fault, Running
<1>2. open = i /\ asked \in Seq(Requests) /\ asked[i].op \in LedgerOps
  BY <1>1, AtStage
<1>3. Failed(i) \in {"undo", "done"} /\ Failed(i) \in StagesOf(asked[i].op)
  BY <1>2 DEF Failed, StagesOf, LedgerOps
<1>4. AskGoes(i, asked[i].op, Failed(i))
  BY <1>1, <1>2, <1>3, MovesOn DEF Stages
<1> QED
  BY <1>1, <1>2, <1>3, <1>4 DEF Goes, Running, RollsBack

LEMMA MailFailsGoes ==
  ASSUME LedgerInv, NEW i \in DOMAIN asked, MailFails(i)
  PROVE  /\ asked[i].at = "done" /\ asked[i].op = "welcome"
         /\ db' = db /\ open' = open /\ kept' = kept
         /\ Goes(i, "signup", "undo")
<1>1. /\ asked[i].at = "done" /\ up /\ asked[i].op = "welcome"
      /\ asked' = [asked EXCEPT ![i].op = "signup", ![i].at = "undo"]
      /\ db' = db /\ open' = open /\ kept' = kept
  BY DEF MailFails, IsAt
<1>2. AskGoes(i, "signup", "undo")
  BY <1>1, AtStage, TurnsInto DEF Stages
<1> QED
  BY <1>1, <1>2 DEF Goes, StagesOf, Running

LEMMA UndoGoes ==
  ASSUME LedgerInv, NEW i \in DOMAIN asked, Undo(i)
  PROVE  /\ asked[i].at = "undo" /\ asked[i].op = "signup"
         /\ db' = LedgerCleared(db, asked[i].user) /\ open' = open /\ kept' = kept /\ MayWrite
         /\ Goes(i, "signup", "unmake")
<1>1. /\ asked[i].at = "undo" /\ up /\ MovesTo(i, "unmake") /\ MayWrite
      /\ db' = LedgerCleared(db, asked[i].user) /\ open' = open /\ kept' = kept
  BY DEF Undo, IsAt
<1>2. asked[i].op = "signup"
  BY <1>1, AtStage DEF StagesOf, LedgerOps
<1>3. AskGoes(i, "signup", "unmake")
  BY <1>1, <1>2, AtStage, MovesOn DEF Stages
<1> QED
  BY <1>1, <1>2, <1>3 DEF Goes, StagesOf, Running

LEMMA DeleteRowGoes ==
  ASSUME LedgerInv, NEW i \in DOMAIN asked, DeleteRow(i)
  PROVE  /\ asked[i].at \in {"unmake", "row"} /\ asked[i].op \in {"signup", "delete"}
         /\ db' = AccountDeleted(db, asked[i].user) /\ open' = open /\ kept' = kept /\ MayWrite
         /\ Goes(i, asked[i].op, "done")
<1>1. /\ asked[i].at \in {"unmake", "row"} /\ up /\ MovesTo(i, "done") /\ MayWrite
      /\ db' = AccountDeleted(db, asked[i].user) /\ open' = open /\ kept' = kept
  BY DEF DeleteRow
<1>2. asked[i].op \in {"signup", "delete"}
  BY <1>1, AtStage DEF StagesOf, LedgerOps
<1>3. AskGoes(i, asked[i].op, "done")
  BY <1>1, AtStage, MovesOn DEF Stages
<1> QED
  BY <1>1, <1>2, <1>3 DEF Goes, StagesOf, Running

LEMMA IdentityDeletedGoes ==
  ASSUME LedgerInv, NEW i \in DOMAIN asked, IdentityDeleted(i)
  PROVE  /\ asked[i].at = "identity" /\ asked[i].op = "delete"
         /\ db' = db /\ open' = open /\ kept' = kept
         /\ Goes(i, "delete", "row") \/ Goes(i, "delete", "done")
<1>1. /\ asked[i].at = "identity" /\ up /\ db' = db /\ open' = open /\ kept' = kept
      /\ MovesTo(i, "row") \/ MovesTo(i, "done")
  BY DEF IdentityDeleted, IsAt
<1>2. asked[i].op = "delete"
  BY <1>1, AtStage DEF StagesOf, LedgerOps
<1>3. AskGoes(i, "delete", "row") \/ AskGoes(i, "delete", "done")
  BY <1>1, <1>2, AtStage, MovesOn DEF Stages
<1> QED
  BY <1>1, <1>2, <1>3 DEF Goes, StagesOf, Running

LEMMA RequestGoes ==
  ASSUME LedgerInv, NEW i \in DOMAIN asked, Request(i)
  PROVE  Quiet /\ \E op, stage : Goes(i, op, stage)
<1>1. Quiet
  BY DEF Request, CreateAccount, ChecksFirst, ChecksCap, Begin, FirstStatement, SecondStatement,
         Commit, Fault, MailFails, Undo, DeleteRow, IdentityDeleted
<1>2. \E op, stage : Goes(i, op, stage)
  <2>1. CASE CreateAccount(i)
    BY <2>1, CreateAccountGoes
  <2>2. CASE ChecksFirst(i)
    BY <2>2, ChecksFirstGoes
  <2>3. CASE ChecksCap(i)
    BY <2>3, ChecksCapGoes
  <2>4. CASE Begin(i)
    BY <2>4, BeginGoes
  <2>5. CASE FirstStatement(i)
    BY <2>5, FirstStatementGoes
  <2>6. CASE SecondStatement(i)
    BY <2>6, SecondStatementGoes
  <2>7. CASE Commit(i)
    BY <2>7, CommitGoes
  <2>8. CASE Fault(i)
    BY <2>8, FaultGoes
  <2>9. CASE MailFails(i)
    BY <2>9, MailFailsGoes
  <2>10. CASE Undo(i)
    BY <2>10, UndoGoes
  <2>11. CASE DeleteRow(i)
    BY <2>11, DeleteRowGoes
  <2>12. CASE IdentityDeleted(i)
    BY <2>12, IdentityDeletedGoes
  <2> QED
    BY <2>1, <2>2, <2>3, <2>4, <2>5, <2>6, <2>7, <2>8, <2>9, <2>10, <2>11, <2>12 DEF Request
<1> QED
  BY <1>1, <1>2

\* what does not depend on the tables
RequestsInv == OneOpen /\ DownIsIdle /\ RequestsFit /\ SignedUpOnce

LEMMA GoesKeeps ==
  ASSUME LedgerInv, NEW i \in DOMAIN asked, NEW op, NEW stage, Goes(i, op, stage), Quiet
  PROVE  /\ RequestsInv'
         /\ asked' \in Seq(Requests) /\ Len(asked') <= MaxRequests /\ open' \in 0 .. Len(asked')
<1>1. /\ DOMAIN asked' = DOMAIN asked /\ Len(asked') = Len(asked) /\ asked' \in Seq(Requests)
      /\ asked'[i].op = op /\ asked'[i].at = stage
      /\ asked'[i].user = asked[i].user /\ asked'[i].to = asked[i].to
      /\ \A j \in DOMAIN asked : j # i => asked'[j] = asked[j]
      /\ up /\ up' = up /\ stage # "create" /\ stage \in StagesOf(op)
      /\ op = asked[i].op \/ {op, asked[i].op} = {"signup", "welcome"}
  BY DEF Goes, AskGoes, Quiet
<1>2. i \in Nat \ {0} /\ i <= Len(asked)
  BY AskedTyped DEF LedgerInv
<1>3. OneOpen'
  <2>1. CASE open = 0 /\ open' = i /\ kept' = db /\ db' = db /\ stage = "first"
    BY <1>1, <1>2, <2>1 DEF LedgerInv, OneOpen, Running
  <2>2. CASE open = i /\ open' = 0 /\ kept' = Blank /\ stage \notin Running
    BY <1>1, <1>2, <2>2 DEF LedgerInv, OneOpen
  <2>3. CASE open' = open /\ kept' = kept /\ (stage \in Running <=> asked[i].at \in Running)
    <3>1. open # 0 => open \in DOMAIN asked
      BY AskedTyped DEF LedgerInv
    <3> QED
      BY <1>1, <1>2, <2>3, <3>1 DEF LedgerInv, OneOpen
  <2> QED
    BY <2>1, <2>2, <2>3 DEF Goes
<1>4. DownIsIdle'
  BY <1>1 DEF DownIsIdle
<1>5. RequestsFit'
  <2>1. op = "gift" <=> asked[i].op = "gift"
    BY <1>1
  <2> QED
    BY <1>1, <2>1 DEF LedgerInv, RequestsFit
<1>6. SignedUpOnce'
  <2>1. op \in {"signup", "welcome"} <=> asked[i].op \in {"signup", "welcome"}
    BY <1>1
  <2>2. \A u : \A j \in DOMAIN asked : SignsUp(j, u)' <=> SignsUp(j, u)
    BY <1>1, <2>1 DEF SignsUp
  <2> QED
    BY <1>1, <2>2 DEF LedgerInv, SignedUpOnce
<1>7. open' \in 0 .. Len(asked')
  BY <1>1, <1>2, AskedTyped DEF Goes, LedgerInv, LedgerTypeOK
<1>8. Len(asked) <= MaxRequests
  BY DEF LedgerInv, LedgerTypeOK
<1> QED
  BY <1>1, <1>3, <1>4, <1>5, <1>6, <1>7, <1>8 DEF RequestsInv

LEMMA GoesBorn ==
  ASSUME LedgerInv, NEW i \in DOMAIN asked, NEW op, NEW stage, Goes(i, op, stage),
         NEW u, Unborn(u)'
  PROVE  Unborn(u) /\ ~SignsUp(i, u) /\ \A j \in DOMAIN asked : SignsUp(j, u)' <=> SignsUp(j, u)
<1>1. /\ DOMAIN asked' = DOMAIN asked
      /\ asked'[i].op = op /\ asked'[i].at = stage /\ asked'[i].user = asked[i].user
      /\ \A j \in DOMAIN asked : j # i => asked'[j] = asked[j]
      /\ stage # "create"
      /\ op = asked[i].op \/ {op, asked[i].op} = {"signup", "welcome"}
  BY DEF Goes, AskGoes
<1>2. op \in {"signup", "welcome"} <=> asked[i].op \in {"signup", "welcome"}
  BY <1>1
<1>3. \A j \in DOMAIN asked : SignsUp(j, u)' <=> SignsUp(j, u)
  BY <1>1, <1>2 DEF SignsUp
<1> QED
  BY <1>1, <1>3 DEF Unborn

-----------------------------------------------------------------------------
(* The tables after a request's step. *)

LEMMA InvTyped ==
  ASSUME LedgerInv
  PROVE  /\ db \in Tables /\ kept \in Tables /\ clock \in Nat
         /\ \A v \in Holders : db.ledger[v] \in Seq(Entries) /\ kept.ledger[v] \in Seq(Entries)
         /\ \A v \in Holders : db.balance[v] \in Int /\ kept.balance[v] \in Int
  BY TablesTyped DEF LedgerInv, LedgerTypeOK

LEMMA CountersTyped ==
  ASSUME LedgerInv
  PROVE  /\ clock \in 0 .. MaxClock /\ faults \in 0 .. MaxFaults /\ crashes \in 0 .. MaxCrashes
         /\ MaxClock \in Nat /\ MaxFaults \in Nat /\ MaxCrashes \in Nat
<1>1. LedgerTypeOK
  BY DEF LedgerInv
<1> QED
  BY ONLY <1>1, LedgerBounds DEF LedgerTypeOK

LEMMA Amounts ==
  /\ {StartGrant, DailyReward, AdReward, Gift, Penalty, MatchCost, Cooldown, AdCap} \subseteq Nat \ {0}
  /\ \A op \in LedgerOps : op # "delete" => /\ Amount(op) \in Int /\ ReasonOf(op) \in Reasons
                                            /\ ReasonOf(op) = "ad" <=> op = "claim"
                                            /\ ReasonOf(op) = "admin" <=> op = "adjust"
                                            /\ ReasonOf(op) = "signup" <=> op = "signup"
                                            /\ ReasonOf(op) = "daily" <=> op \in {"daily", "welcome"}
<1>1. {StartGrant, DailyReward, AdReward, Gift, Penalty, MatchCost, Cooldown, AdCap} \subseteq Nat \ {0}
  BY LedgerBounds
<1>2. ASSUME NEW op \in LedgerOps, op # "delete"
      PROVE  Amount(op) \in Int
  BY <1>1, <1>2 DEF Amount, LedgerOps
<1>3. ASSUME NEW op \in LedgerOps, op # "delete"
      PROVE  /\ ReasonOf(op) \in Reasons
             /\ ReasonOf(op) = "ad" <=> op = "claim"
             /\ ReasonOf(op) = "admin" <=> op = "adjust"
             /\ ReasonOf(op) = "signup" <=> op = "signup"
             /\ ReasonOf(op) = "daily" <=> op \in {"daily", "welcome"}
  BY <1>3 DEF ReasonOf, LedgerOps, Reasons
<1> QED
  BY <1>1, <1>2, <1>3

\* the rows of a gift on both sides
GiftOf(t, u, w, g, h) == Posted(Posted(Credited(t, w, g), u, h, "gift"), w, g, "gift")

LEMMA GiftRows ==
  ASSUME NEW t \in Tables, NEW u \in Holders, NEW w \in Holders, u # w, clock \in Nat,
         NEW g \in Int, NEW h \in Int
  PROVE  /\ GiftOf(t, u, w, g, h) \in Tables
         /\ GiftOf(t, u, w, g, h).accounts = t.accounts
         /\ GiftOf(t, u, w, g, h).bared = t.bared
         /\ GiftOf(t, u, w, g, h).other = t.other
         /\ GiftOf(t, u, w, g, h).ledger[u] = Append(t.ledger[u], Entry(h, "gift"))
         /\ GiftOf(t, u, w, g, h).ledger[w] = Append(t.ledger[w], Entry(g, "gift"))
         /\ GiftOf(t, u, w, g, h).balance[u] = t.balance[u]
         /\ w \in t.accounts => GiftOf(t, u, w, g, h).balance[w] = t.balance[w] + g
         /\ \A v \in Holders : v \notin {u, w} => Same(t, GiftOf(t, u, w, g, h), v)
<1>pa. PICK a : a = Credited(t, w, g)
  OBVIOUS
<1>pb. PICK b : b = Posted(a, u, h, "gift")
  OBVIOUS
<1>ps. PICK s : s = Posted(b, w, g, "gift")
  OBVIOUS
<1>0. "gift" \in Reasons
  BY DEF Reasons
<1>t. a \in Tables
  BY ONLY t \in Tables, w \in Holders, g \in Int, <1>pa, CreditedIs
<1>1. /\ a \in Tables /\ a.accounts = t.accounts /\ a.bared = t.bared /\ a.other = t.other
      /\ a.ledger = t.ledger
      /\ w \in t.accounts => a.balance[w] = t.balance[w] + g
      /\ \A v \in Holders : v # w => a.balance[v] = t.balance[v] /\ Same(t, a, v)
  BY ONLY t \in Tables, w \in Holders, g \in Int, <1>pa, CreditedIs
<1>2. /\ b \in Tables /\ b.accounts = a.accounts /\ b.bared = a.bared /\ b.other = a.other
      /\ b.balance = a.balance
      /\ b.ledger[u] = Append(a.ledger[u], Entry(h, "gift"))
  BY ONLY <1>t, u \in Holders, h \in Int, clock \in Nat, <1>pb,
          <1>0, PostedRow
<1>a. \A v \in Holders : v # u => b.ledger[v] = a.ledger[v] /\ Same(a, b, v)
  <2> SUFFICES ASSUME NEW v \in Holders, v # u
               PROVE  b.ledger[v] = a.ledger[v] /\ Same(a, b, v)
    OBVIOUS
  <2>1. /\ Posted(a, u, h, "gift").ledger[v] = a.ledger[v]
        /\ Same(a, Posted(a, u, h, "gift"), v)
    BY ONLY <1>t, u \in Holders, h \in Int, clock \in Nat, v \in Holders, v # u, <1>0,
            PostedBeside
  <2> QED
    BY ONLY <2>1, <1>pb
<1>v. b \in Tables
  BY <1>2
<1>3. /\ s \in Tables /\ s.accounts = b.accounts /\ s.bared = b.bared /\ s.other = b.other
      /\ s.balance = b.balance
      /\ s.ledger[w] = Append(b.ledger[w], Entry(g, "gift"))
  BY ONLY <1>v, w \in Holders, g \in Int, clock \in Nat, <1>ps,
          <1>0, PostedRow
<1>b. \A v \in Holders : v # w => s.ledger[v] = b.ledger[v] /\ Same(b, s, v)
  <2> SUFFICES ASSUME NEW v \in Holders, v # w
               PROVE  s.ledger[v] = b.ledger[v] /\ Same(b, s, v)
    OBVIOUS
  <2>1. /\ Posted(b, w, g, "gift").ledger[v] = b.ledger[v]
        /\ Same(b, Posted(b, w, g, "gift"), v)
    BY ONLY <1>v, w \in Holders, g \in Int, clock \in Nat, v \in Holders, v # w, <1>0,
            PostedBeside
  <2> QED
    BY ONLY <2>1, <1>ps
<1>4. s.ledger[u] = Append(t.ledger[u], Entry(h, "gift"))
  <2>1. s.ledger[u] = b.ledger[u]
    BY <1>b
  <2> QED
    BY <2>1, <1>1, <1>2
<1>5. s.ledger[w] = Append(t.ledger[w], Entry(g, "gift"))
  <2>1. b.ledger[w] = a.ledger[w]
    BY <1>a
  <2> QED
    BY <2>1, <1>1, <1>3
<1>6. \A v \in Holders : v \notin {u, w} => Same(t, s, v)
  <2> SUFFICES ASSUME NEW v \in Holders, v # u, v # w PROVE Same(t, s, v)
    OBVIOUS
  <2>1. Same(t, a, v)
    BY <1>1
  <2>2. Same(a, b, v)
    BY <1>a
  <2>3. Same(b, s, v)
    BY <1>b
  <2> QED
    BY ONLY <2>1, <2>2, <2>3 DEF Same
<1>7. /\ s \in Tables /\ s.accounts = t.accounts /\ s.bared = t.bared /\ s.other = t.other
      /\ s.balance[u] = t.balance[u]
      /\ w \in t.accounts => s.balance[w] = t.balance[w] + g
  BY <1>1, <1>2, <1>3
<1>8. s = GiftOf(t, u, w, g, h)
  BY ONLY <1>pa, <1>pb, <1>ps DEF GiftOf
<1> QED
  BY ONLY <1>4, <1>5, <1>6, <1>7, <1>8

LEMMA GiftCompleted ==
  ASSUME LedgerInv, NEW i \in DOMAIN asked, asked[i].op = "gift",
         db' = Posted(Posted(Credited(db, asked[i].to, Gift), asked[i].user, -Gift, "gift"),
                      asked[i].to, Gift, "gift")
  PROVE  LET r == asked[i]
         IN  /\ r.user # r.to /\ db' \in Tables /\ db'.other = db.other /\ db'.accounts = db.accounts /\ db'.bared = db.bared
             /\ db'.ledger[r.user] = Append(db.ledger[r.user], Entry(-Gift, "gift"))
             /\ db'.ledger[r.to] = Append(db.ledger[r.to], Entry(Gift, "gift"))
             /\ db'.balance[r.user] = db.balance[r.user]
             /\ r.to \in db.accounts => db'.balance[r.to] = db.balance[r.to] + Gift
             /\ \A v \in Holders : v \notin {r.user, r.to} => Same(db, db', v)
<1>1. /\ asked[i].user \in Holders /\ asked[i].to \in Holders /\ asked[i].user # asked[i].to
      /\ db \in Tables /\ clock \in Nat
  BY AtStage, InvTyped
<1>2. PICK u, w, g, h, t : u = asked[i].user /\ w = asked[i].to /\ g = Gift /\ h = -Gift /\ t = db
  OBVIOUS
<1>3. PICK s : s = GiftOf(t, u, w, g, h)
  OBVIOUS
<1>6. s = db'
  BY <1>2, <1>3 DEF GiftOf
<1>7. g \in Int
  BY <1>2, Amounts
<1>8. h \in Int
  BY <1>2, Amounts
<1>9. t \in Tables
  BY <1>1, <1>2
<1>10. u \in Holders
  BY <1>1, <1>2
<1>11. w \in Holders
  BY <1>1, <1>2
<1>12. u # w
  BY <1>1, <1>2
<1>13. clock \in Nat
  BY <1>1
<1>14. /\ s \in Tables /\ s.accounts = t.accounts /\ s.bared = t.bared /\ s.other = t.other
       /\ s.ledger[u] = Append(t.ledger[u], Entry(h, "gift"))
       /\ s.ledger[w] = Append(t.ledger[w], Entry(g, "gift"))
       /\ s.balance[u] = t.balance[u]
       /\ w \in t.accounts => s.balance[w] = t.balance[w] + g
       /\ \A v \in Holders : v \notin {u, w} => Same(t, s, v)
  BY ONLY <1>3, <1>7, <1>8, <1>9, <1>10, <1>11, <1>12, <1>13, GiftRows
<1> QED
  BY ONLY <1>2, <1>6, <1>12, <1>14

\* a table but for two users
Beside(t, s, u, w) ==
  /\ s \in Tables /\ s.other = t.other
  /\ \A v \in Holders : v \notin {u, w} => Same(t, s, v)

LEMMA RequestWrites ==
  ASSUME LedgerInv, NEW i \in DOMAIN asked, Request(i)
  PROVE  /\ db' \in Tables /\ kept' \in Tables
         /\ \/ RollsBack /\ open = i
            \/ /\ Beside(db, db', asked[i].user, asked[i].to)
               /\ asked[i].at \in {"check", "done"} => db' = db
               /\ kept' \in {kept, Blank} \/ (kept' = db /\ db' = db)
<1> DEFINE r == asked[i]
           Fine == \/ RollsBack /\ open = i
                   \/ Beside(db, db', r.user, r.to) /\ (r.at \in {"check", "done"} => db' = db)
<1>0. /\ r.user \in Holders /\ r.to \in Holders /\ r.op \in LedgerOps
      /\ r.op = "gift" <=> r.to # r.user
  BY AtStage
<1>1. db \in Tables /\ kept \in Tables /\ clock \in Nat /\ Blank \in Tables
  BY InvTyped, BlankTyped
<1>a. db' = db => Fine
  BY <1>1 DEF Beside, Same
<1>2. PICK op, stage : Goes(i, op, stage)
  BY RequestGoes
<1>3. kept' \in {kept, Blank} \/ (kept' = db /\ db' = db)
  BY <1>2 DEF Goes
<1>4. CASE CreateAccount(i)
  <2>1. db' = [db EXCEPT !.accounts = @ \cup {r.user}] /\ r.at = "create"
    BY <1>4, CreateAccountGoes DEF CreateAccount
  <2>2. /\ db' \in Tables /\ db'.other = db.other /\ db'.bared = db.bared
        /\ db'.accounts = db.accounts \cup {r.user} /\ db'.balance = db.balance
        /\ db'.ledger = db.ledger
    <3> DEFINE g == db.accounts \cup {r.user}
               L == [Holders -> Seq(Entries)]
    <3>1. g \subseteq Holders
      BY <1>0, <1>1 DEF Tables
    <3>2. db \in [accounts : SUBSET Holders, balance : [Holders -> Int], ledger : L,
                  other : SUBSET {1}, bared : SUBSET Holders]
      BY <1>1 DEF Tables
    <3>3. db' = [db EXCEPT !.accounts = g]
      BY <2>1
    <3>4. Tables = [accounts : SUBSET Holders, balance : [Holders -> Int], ledger : L,
                    other : SUBSET {1}, bared : SUBSET Holders]
      BY DEF Tables
    <3> HIDE DEF g, L
    <3>5. /\ db' \in Tables /\ db'.other = db.other /\ db'.bared = db.bared
          /\ db'.accounts = g /\ db'.balance = db.balance /\ db'.ledger = db.ledger
      BY <3>1, <3>2, <3>3, <3>4
    <3> QED
      BY <3>5 DEF g
  <2>3. Beside(db, db', r.user, r.to)
    BY <2>2 DEF Beside, Same
  <2> QED
    BY <1>1, <1>3, <2>1, <2>2, <2>3
<1>5. CASE ChecksFirst(i) \/ ChecksCap(i) \/ Begin(i) \/ Commit(i) \/ MailFails(i) \/ IdentityDeleted(i)
  <2>1. db' = db
    BY <1>5, ChecksFirstGoes, ChecksCapGoes, BeginGoes, CommitGoes, MailFailsGoes, IdentityDeletedGoes
  <2> QED
    BY <1>1, <1>3, <1>a, <2>1
<1>6. CASE Fault(i)
  BY <1>1, <1>3, <1>6, FaultGoes DEF RollsBack
<1>7. CASE FirstStatement(i)
  <2>1. CASE RollsBack
    BY <1>1, <1>3, <1>7, <2>1, FirstStatementGoes DEF RollsBack
  <2>2. CASE db' = LedgerCleared(db, r.user)
    <3>1. db' \in Tables /\ Beside(db, db', r.user, r.to)
      BY <1>0, <1>1, <2>2, ClearedIs DEF Beside
    <3> QED
      BY <1>1, <1>3, <1>7, <3>1, FirstStatementGoes
  <2>3. CASE Daily(r) /\ db' = Posted(db, r.user, DailyReward, "daily")
    <3>1. DailyReward \in Int /\ "daily" \in Reasons
      BY Amounts DEF Reasons
    <3>2. db' \in Tables /\ Beside(db, db', r.user, r.to)
      BY <1>0, <1>1, <2>3, <3>1, PostedIs DEF Beside
    <3> QED
      BY <1>1, <1>3, <1>7, <3>2, FirstStatementGoes
  <2>4. CASE ~Daily(r) /\ r.op # "delete" /\ db' = Credited(db, r.user, Amount(r.op))
    <3>1. Amount(r.op) \in Int
      BY <1>0, <2>4, Amounts
    <3>2. db' \in Tables /\ Beside(db, db', r.user, r.to)
      BY <1>0, <1>1, <2>4, <3>1, CreditedIs DEF Beside
    <3> QED
      BY <1>1, <1>3, <1>7, <3>2, FirstStatementGoes
  <2> QED
    BY <1>7, <2>1, <2>2, <2>3, <2>4, FirstStatementGoes
<1>8. CASE SecondStatement(i)
  <2>1. CASE db' = Credited(db, r.user, DailyReward)
    <3>1. DailyReward \in Int
      BY Amounts
    <3>2. db' \in Tables /\ Beside(db, db', r.user, r.to)
      BY <1>0, <1>1, <2>1, <3>1, CreditedIs DEF Beside
    <3> QED
      BY <1>1, <1>3, <1>8, <3>2, SecondStatementGoes
  <2>2. CASE /\ r.op = "gift"
             /\ db' = Posted(Posted(Credited(db, r.to, Gift), r.user, -Gift, "gift"), r.to, Gift, "gift")
    <3>1. db' \in Tables /\ Beside(db, db', r.user, r.to)
      BY <2>2, GiftCompleted DEF Beside
    <3> QED
      BY <1>1, <1>3, <1>8, <3>1, SecondStatementGoes
  <2>3. CASE r.op # "delete" /\ db' = Posted(db, r.user, Amount(r.op), ReasonOf(r.op))
    <3>1. db' \in Tables /\ Beside(db, db', r.user, r.to)
      BY <1>0, <1>1, <2>3, Amounts, PostedIs DEF Beside
    <3> QED
      BY <1>1, <1>3, <1>8, <3>1, SecondStatementGoes
  <2> QED
    BY <1>8, <2>1, <2>2, <2>3, SecondStatementGoes
<1>9. CASE Undo(i)
  <2>1. db' \in Tables /\ Beside(db, db', r.user, r.to)
    BY <1>0, <1>1, <1>9, UndoGoes, ClearedIs DEF Beside
  <2> QED
    BY <1>1, <1>3, <1>9, <2>1, UndoGoes
<1>10. CASE DeleteRow(i)
  <2>1. db' \in Tables /\ Beside(db, db', r.user, r.to)
    BY <1>0, <1>1, <1>10, DeleteRowGoes, DeletedIs DEF Beside
  <2> QED
    BY <1>1, <1>3, <1>10, <2>1, DeleteRowGoes
<1> QED
  BY <1>4, <1>5, <1>6, <1>7, <1>8, <1>9, <1>10 DEF Request

LEMMA RequestRaces ==
  ASSUME LedgerInv, NEW i \in DOMAIN asked, Request(i)
  PROVE  /\ raced \subseteq raced' /\ raced' \subseteq Holders /\ faults' \in 0 .. MaxFaults
         /\ ~(ChecksFirst(i) \/ ChecksCap(i)) => raced' = raced
<1>1. raced \subseteq Holders /\ asked[i].user \in Holders /\ faults \in 0 .. MaxFaults /\ MaxFaults \in Nat
  BY AtStage, LedgerBounds DEF LedgerInv, LedgerTypeOK
<1>2. CASE ChecksFirst(i) \/ ChecksCap(i)
  BY <1>1, <1>2 DEF ChecksFirst, ChecksCap, Races
<1>3. CASE CreateAccount(i) \/ Begin(i) \/ FirstStatement(i) \/ SecondStatement(i) \/ Commit(i) \/ Undo(i) \/ DeleteRow(i)
  BY <1>1, <1>3 DEF CreateAccount, Begin, FirstStatement, SecondStatement, Commit, Undo, DeleteRow
<1>4. CASE Fault(i) \/ MailFails(i) \/ IdentityDeleted(i)
  BY <1>1, <1>4 DEF Fault, MailFails, IdentityDeleted
<1> QED
  BY <1>2, <1>3, <1>4 DEF Request

LEMMA RequestTypes ==
  ASSUME LedgerInv, NEW i \in DOMAIN asked, Request(i)
  PROVE  LedgerTypeOK' /\ RequestsInv'
<1>1. PICK op, stage : Goes(i, op, stage)
  BY RequestGoes
<1>2. Quiet
  BY RequestGoes
<1>3. /\ RequestsInv'
      /\ asked' \in Seq(Requests) /\ Len(asked') <= MaxRequests /\ open' \in 0 .. Len(asked')
  BY <1>1, <1>2, GoesKeeps
<1>4. db' \in Tables /\ kept' \in Tables
  BY RequestWrites
<1>5. raced' \subseteq Holders /\ faults' \in 0 .. MaxFaults
  BY RequestRaces
<1>6. local' = local /\ up' = up /\ clock' = clock /\ crashes' = crashes /\ promised' = promised /\ swept' = swept
  BY <1>2 DEF Quiet
<1>7. /\ {local, up} \subseteq BOOLEAN
      /\ clock \in 0 .. MaxClock /\ crashes \in 0 .. MaxCrashes
      /\ swept \subseteq promised /\ promised \subseteq {1}
  BY DEF LedgerInv, LedgerTypeOK
<1> QED
  BY <1>3, <1>4, <1>5, <1>6, <1>7 DEF LedgerTypeOK

LEMMA RequestUnborn ==
  ASSUME LedgerInv, NEW i \in DOMAIN asked, Request(i)
  PROVE  UnbornUnknown'
<1>1. PICK op, stage : Goes(i, op, stage)
  BY RequestGoes
<1> SUFFICES ASSUME NEW u \in Holders, Unborn(u)'
             PROVE  /\ Unknown(db, u)' /\ Unknown(kept, u)'
                    /\ \A j \in DOMAIN asked' :
                         /\ asked'[j].user = u => SignsUp(j, u)'
                         /\ asked'[j].to = u => SignsUp(j, u)' \/ asked'[j].at \in {"check", "done"}
  BY DEF UnbornUnknown
<1>2. Unborn(u) /\ ~SignsUp(i, u) /\ \A j \in DOMAIN asked : SignsUp(j, u)' <=> SignsUp(j, u)
  BY <1>1, GoesBorn
<1>3. /\ Unknown(db, u) /\ Unknown(kept, u)
      /\ \A j \in DOMAIN asked :
           /\ asked[j].user = u => SignsUp(j, u)
           /\ asked[j].to = u => SignsUp(j, u) \/ asked[j].at \in {"check", "done"}
  BY <1>2 DEF LedgerInv, UnbornUnknown
<1>4. asked[i].user # u /\ (asked[i].to = u => asked[i].at \in {"check", "done"})
  BY <1>2, <1>3
<1>5. Unknown(Blank, u)
  BY BlankTyped DEF Unknown
<1>6. Unknown(db', u) /\ Unknown(kept', u)
  <2>1. CASE RollsBack
    BY <1>3, <1>5, <2>1 DEF RollsBack, Unknown
  <2>2. CASE /\ Beside(db, db', asked[i].user, asked[i].to)
             /\ asked[i].at \in {"check", "done"} => db' = db
             /\ kept' \in {kept, Blank} \/ (kept' = db /\ db' = db)
    <3>1. Unknown(db', u)
      <4>1. CASE asked[i].to = u
        BY <1>3, <1>4, <2>2, <4>1
      <4>2. CASE asked[i].to # u
        BY <1>3, <1>4, <2>2, <4>2 DEF Beside, Same, Unknown
      <4> QED
        BY <4>1, <4>2
    <3>2. Unknown(kept', u)
      BY <1>3, <1>5, <2>2 DEF Unknown
    <3> QED
      BY <3>1, <3>2
  <2> QED
    BY <2>1, <2>2, RequestWrites
<1>7. Unknown(db, u)' /\ Unknown(kept, u)'
  BY <1>6 DEF Unknown
<1>8. /\ DOMAIN asked' = DOMAIN asked
      /\ asked'[i].at = stage /\ asked'[i].user = asked[i].user /\ asked'[i].to = asked[i].to
      /\ \A j \in DOMAIN asked : j # i => asked'[j] = asked[j]
  BY <1>1 DEF Goes, AskGoes
<1>9. asked[i].to = u => stage \in {"check", "done"}
  <2> SUFFICES ASSUME asked[i].to = u PROVE stage \in {"check", "done"}
    OBVIOUS
  <2>1. asked[i].at \in {"check", "done"} /\ asked[i].op = "gift"
    BY <1>4, AtStage
  <2>2. u \notin Seen.accounts
    BY <1>3 DEF Seen, Unknown
  <2>3. ChecksFirst(i)
    <3>1. asked[i].at \notin {"create", "cap", "begin", "first", "rest", "commit", "undo", "unmake",
                              "row", "identity"} /\ asked[i].op # "welcome"
      BY <2>1
    <3> QED
      BY <3>1, CreateAccountGoes, ChecksCapGoes, BeginGoes, FirstStatementGoes, SecondStatementGoes,
         CommitGoes, FaultGoes, MailFailsGoes, UndoGoes, DeleteRowGoes, IdentityDeletedGoes
         DEF Request, Running
  <2>4. Goes(i, "gift", "done")
    BY <2>1, <2>2, <2>3, ChecksFirstGoes
  <2> QED
    BY <1>8, <2>4 DEF Goes, AskGoes
<1> QED
  BY <1>2, <1>3, <1>7, <1>8, <1>9

\* what becomes of one user's rows
Gains(u, i) ==
  \E e \in Entries :
    /\ db'.ledger[u] = Append(db.ledger[u], e) /\ e.at = clock
    /\ e.reason = "ad" => asked[i].op = "claim" /\ asked[i].user = u /\ SecondStatement(i)
    /\ e.reason = "signup" => asked[i].op = "signup" /\ asked[i].user = u /\ SecondStatement(i)
    /\ e.reason = "daily" => OwedToday(u)

LEMMA EntryTyped ==
  ASSUME clock \in Nat, NEW delta \in Int, NEW reason \in Reasons
  PROVE  /\ Entry(delta, reason) \in Entries /\ Entry(delta, reason).at = clock
         /\ Entry(delta, reason).reason = reason /\ Entry(delta, reason).delta = delta
  BY DEF Entry, Entries

LEMMA LedgerMoves ==
  ASSUME LedgerInv, NEW i \in DOMAIN asked, Request(i), NEW u \in Holders
  PROVE  \/ RollsBack
         \/ db'.ledger[u] = db.ledger[u]
         \/ db'.ledger[u] = <<>>
         \/ Gains(u, i)
<1> DEFINE r == asked[i]
           Goal == RollsBack \/ db'.ledger[u] = db.ledger[u] \/ db'.ledger[u] = <<>> \/ Gains(u, i)
<1>0. /\ r.user \in Holders /\ r.to \in Holders /\ r.op \in LedgerOps
      /\ r.op = "gift" <=> r.to # r.user
      /\ db \in Tables /\ clock \in Nat
  BY AtStage, InvTyped
<1>1. CASE u \notin {r.user, r.to}
  BY <1>1, RequestWrites DEF Beside, Same
<1>2. CASE ChecksFirst(i) \/ ChecksCap(i) \/ Begin(i) \/ Commit(i) \/ MailFails(i) \/ IdentityDeleted(i)
  BY <1>2, ChecksFirstGoes, ChecksCapGoes, BeginGoes, CommitGoes, MailFailsGoes, IdentityDeletedGoes
<1>3. CASE CreateAccount(i)
  <2>1. db' = [db EXCEPT !.accounts = db.accounts \cup {r.user}]
    BY <1>3 DEF CreateAccount
  <2> QED
    BY <1>0, <2>1 DEF Tables
<1>4. CASE Fault(i)
  BY <1>4, FaultGoes
<1>5. CASE Undo(i)
  BY <1>0, <1>5, UndoGoes, ClearedIs
<1>6. CASE DeleteRow(i)
  BY <1>0, <1>6, DeleteRowGoes, DeletedIs
<1>7. CASE FirstStatement(i)
  <2>1. CASE db' = LedgerCleared(db, r.user)
    BY <1>0, <2>1, ClearedIs
  <2>2. CASE Daily(r) /\ OwedToday(r.user) /\ db' = Posted(db, r.user, DailyReward, "daily")
    <3>1. DailyReward \in Int /\ "daily" \in Reasons
      BY Amounts DEF Reasons
    <3>2. CASE u = r.user
      <4> DEFINE e == Entry(DailyReward, "daily")
      <4>1. db'.ledger[u] = Append(db.ledger[u], e)
        BY ONLY <1>0, <2>2, <3>1, <3>2, PostedRow
      <4>2. e \in Entries /\ e.at = clock /\ e.reason = "daily"
        BY <1>0, <3>1, EntryTyped
      <4> HIDE DEF e
      <4> QED
        BY <2>2, <3>2, <4>1, <4>2 DEF Gains
    <3>3. CASE u # r.user
      BY ONLY <1>0, <2>2, <3>1, <3>3, u \in Holders, PostedBeside
    <3> QED
      BY <3>2, <3>3
  <2>3. CASE ~Daily(r) /\ r.op # "delete" /\ db' = Credited(db, r.user, Amount(r.op))
    <3>1. Amount(r.op) \in Int
      BY <1>0, <2>3, Amounts
    <3> QED
      BY <1>0, <2>3, <3>1, CreditedIs
  <2> QED
    BY <1>7, <2>1, <2>2, <2>3, FirstStatementGoes
<1>8. CASE SecondStatement(i)
  <2>1. CASE db' = Credited(db, r.user, DailyReward)
    <3>1. DailyReward \in Int
      BY Amounts
    <3> QED
      BY <1>0, <2>1, <3>1, CreditedIs
  <2>2. CASE /\ r.op = "gift"
             /\ db' = Posted(Posted(Credited(db, r.to, Gift), r.user, -Gift, "gift"), r.to, Gift, "gift")
    <3>1. /\ db'.ledger[r.user] = Append(db.ledger[r.user], Entry(-Gift, "gift"))
          /\ db'.ledger[r.to] = Append(db.ledger[r.to], Entry(Gift, "gift"))
      BY <2>2, GiftCompleted
    <3>2. PICK d \in Int : u \in {r.user, r.to} => db'.ledger[u] = Append(db.ledger[u], Entry(d, "gift"))
      <4>1. Gift \in Int /\ -Gift \in Int
        BY Amounts
      <4> QED
        BY <3>1, <4>1
    <3> DEFINE e == Entry(d, "gift")
    <3>3. e \in Entries /\ e.at = clock /\ e.reason = "gift"
      BY <1>0, EntryTyped DEF Reasons
    <3>4. u \in {r.user, r.to} => db'.ledger[u] = Append(db.ledger[u], e)
      BY <3>2
    <3> HIDE DEF e
    <3> QED
      <4>1. CASE u \in {r.user, r.to}
        <5>1. /\ db'.ledger[u] = Append(db.ledger[u], e) /\ e.at = clock
              /\ e.reason # "ad" /\ e.reason # "signup" /\ e.reason # "daily"
          BY ONLY <3>3, <3>4, <4>1
        <5> QED
          BY ONLY <3>3, <5>1 DEF Gains
      <4> QED
        BY <1>1, <4>1
  <2>3. CASE ~Daily(r) /\ r.op \notin {"gift", "delete"} /\ db' = Posted(db, r.user, Amount(r.op), ReasonOf(r.op))
    <3>1. /\ Amount(r.op) \in Int /\ ReasonOf(r.op) \in Reasons
          /\ ReasonOf(r.op) = "ad" => r.op = "claim"
          /\ ReasonOf(r.op) = "signup" => r.op = "signup"
          /\ ReasonOf(r.op) # "daily"
      BY <1>0, <2>3, Amounts DEF Daily
    <3>2. CASE u = r.user
      <4> DEFINE e == Entry(Amount(r.op), ReasonOf(r.op))
      <4>1. db'.ledger[u] = Append(db.ledger[u], e)
        BY ONLY <1>0, <2>3, <3>1, <3>2, PostedRow
      <4>2. e \in Entries /\ e.at = clock /\ e.reason = ReasonOf(r.op)
        BY <1>0, <3>1, EntryTyped
      <4> HIDE DEF e
      <4> QED
        BY <1>8, <3>1, <3>2, <4>1, <4>2 DEF Gains
    <3>3. CASE u # r.user
      BY ONLY <1>0, <2>3, <3>1, <3>3, u \in Holders, PostedBeside
    <3> QED
      BY <3>2, <3>3
  <2> QED
    BY <1>8, <2>1, <2>2, <2>3, SecondStatementGoes
<1> QED
  BY <1>1, <1>2, <1>3, <1>4, <1>5, <1>6, <1>7, <1>8 DEF Request

-----------------------------------------------------------------------------
(* The books: a balance is what its rows add up to, save what the open           *)
(* transaction has done on one side only.                                        *)

LEMMA SumsTyped ==
  ASSUME NEW posts \in Seq(Entries)
  PROVE  TrailOf(posts) \in Int /\ Penalties(posts) \in Nat /\ Penalty * Penalties(posts) \in Nat
<1>1. TrailOf(posts) \in Int
  BY RowsTyped, TrailTyped
<1>2. IsFiniteSet(DOMAIN RowsOf(posts, "admin"))
  BY RowsTyped
<1>3. Penalties(posts) \in Nat
  BY <1>2, FS_CardinalityType DEF Penalties
<1> DEFINE n == Penalties(posts)
<1> HIDE DEF n
<1>4. Penalty \in Nat /\ n \in Nat
  BY <1>3, Amounts DEF n
<1>5. Penalty * n \in Nat
  BY <1>4
<1> QED
  BY <1>1, <1>3, <1>5 DEF n

LEMMA BookPosted ==
  ASSUME NEW t \in Tables, NEW s \in Tables, NEW u \in Holders, NEW e \in Entries,
         NEW before \in Int, NEW due \in Int, NEW more \in Int, NEW after \in Int, NEW rest \in Int,
         s.accounts = t.accounts, s.bared = t.bared,
         s.ledger[u] = Append(t.ledger[u], e),
         u \in t.accounts => s.balance[u] = t.balance[u] + more,
         Balanced(t, u, before, due), before + more = after + e.delta,
         e.reason = "admin" => due <= more + rest + Penalty,
         e.reason # "admin" => due <= more + rest
  PROVE  Balanced(s, u, after, rest)
<1> SUFFICES ASSUME u \in t.accounts \ t.bared
             PROVE  /\ s.balance[u] = TrailOf(s.ledger[u]) + after
                    /\ s.balance[u] + Penalty * Penalties(s.ledger[u]) + rest >= 0
  BY DEF Balanced
<1> DEFINE posts == t.ledger[u]
           n == Len(posts) + 1
           next == s.ledger[u]
<1>1. posts \in Seq(Entries) /\ t.balance[u] \in Int /\ e.delta \in Int
  BY TablesTyped DEF Entries
<1>2. next = Append(posts, e)
  OBVIOUS
<1>3. OneMore(posts, next, n, e)
  BY <1>1, <1>2, OneMoreRow
<1>4. TrailOf(next) = TrailOf(posts) + e.delta
  BY <1>1, <1>2, TrailAdded
<1>5. /\ t.balance[u] = TrailOf(posts) + before
      /\ t.balance[u] + Penalty * Penalties(posts) + due >= 0
      /\ s.balance[u] = t.balance[u] + more
  BY DEF Balanced
<1> HIDE DEF n, next
<1>6. /\ e.reason = "admin" => Penalties(next) = Penalties(posts) + 1
      /\ e.reason # "admin" => Penalties(next) = Penalties(posts)
  BY <1>3, PenaltiesAdded
<1> HIDE DEF posts
<1>7. TrailOf(posts) \in Int /\ Penalties(posts) \in Nat /\ Penalty \in Nat
  BY <1>1, SumsTyped, Amounts
<1> DEFINE P == Penalty
           p == Penalties(posts)
           q == Penalties(next)
           old == t.balance[u]
           new == s.balance[u]
           sum == TrailOf(posts)
           total == TrailOf(next)
           delta == e.delta
           penalized == e.reason = "admin"
<1>8. /\ P \in Nat /\ p \in Nat /\ old \in Int /\ sum \in Int /\ delta \in Int /\ new = old + more
      /\ old = sum + before /\ old + P * p + due >= 0 /\ before + more = after + delta
      /\ total = sum + delta
  BY <1>1, <1>4, <1>5, <1>7
<1>9. /\ penalized => q = p + 1 /\ due <= more + rest + P
      /\ ~penalized => q = p /\ due <= more + rest
  BY <1>6
<1>10. s.ledger[u] = next
  BY DEF next
<1> HIDE DEF P, p, q, old, new, sum, total, delta, penalized
<1>11. new = total + after
  BY <1>8
<1>12. new + P * q + rest >= 0
  <2> DEFINE m == P * p
  <2>1. P * (p + 1) = m + P /\ m \in Int
    BY <1>8
  <2>2. old + m + due >= 0
    BY <1>8
  <2>3. (penalized => P * q = m + P) /\ (~penalized => P * q = m)
    BY <1>9, <2>1
  <2> HIDE DEF m
  <2>4. CASE penalized
    <3>1. due <= more + rest + P /\ P * q = m + P
      BY <1>9, <2>3, <2>4
    <3>2. new + (m + P) + rest >= 0
      BY <1>8, <2>1, <2>2, <3>1
    <3> QED
      BY <3>1, <3>2
  <2>5. CASE ~penalized
    <3>1. due <= more + rest /\ P * q = m
      BY <1>9, <2>3, <2>5
    <3>2. new + m + rest >= 0
      BY <1>8, <2>1, <2>2, <3>1
    <3> QED
      BY <3>1, <3>2
  <2> QED
    BY <2>4, <2>5
<1> QED
  BY <1>10, <1>11, <1>12 DEF new, total, P, q

LEMMA BookCredited ==
  ASSUME NEW t \in Tables, NEW s \in Tables, NEW u \in Holders,
         NEW before \in Int, NEW due \in Int, NEW more \in Int, NEW after \in Int, NEW rest \in Int,
         s.accounts = t.accounts, s.bared = t.bared, s.ledger[u] = t.ledger[u],
         u \in t.accounts => s.balance[u] = t.balance[u] + more,
         Balanced(t, u, before, due), before + more = after,
         due <= more + rest \/ t.balance[u] + more + rest >= 0
  PROVE  Balanced(s, u, after, rest)
<1> SUFFICES ASSUME u \in t.accounts \ t.bared
             PROVE  /\ s.balance[u] = TrailOf(s.ledger[u]) + after
                    /\ s.balance[u] + Penalty * Penalties(s.ledger[u]) + rest >= 0
  BY DEF Balanced
<1> DEFINE sum == TrailOf(t.ledger[u])
           p == Penalty * Penalties(t.ledger[u])
           b == t.balance[u]
           c == s.balance[u]
<1>1. b = sum + before /\ b + p + due >= 0 /\ c = b + more
  BY DEF Balanced
<1>2. b \in Int /\ sum \in Int /\ p \in Nat
  BY TablesTyped, SumsTyped
<1>3. TrailOf(s.ledger[u]) = sum /\ Penalty * Penalties(s.ledger[u]) = p
  OBVIOUS
<1>4. due <= more + rest \/ b + more + rest >= 0
  OBVIOUS
<1> HIDE DEF sum, p, b, c
<1>5. c = sum + after /\ c + p + rest >= 0
  BY <1>1, <1>2, <1>4
<1> QED
  BY <1>3, <1>5 DEF c

\* who is ahead of the rows, and after a step
LEMMA AheadTyped ==
  ASSUME LedgerInv, NEW u
  PROVE  Ahead(u) \in Int /\ Due(u) \in Int
<1>1. open # 0 => asked[open].op \in LedgerOps
  BY AskedTyped DEF LedgerInv
<1>2. CASE ~Halfway(u)
  BY <1>2 DEF Ahead, Due
<1>3. CASE Halfway(u)
  <2>1. asked[open].op \in LedgerOps /\ asked[open].op # "delete"
    BY <1>1, <1>3, AskedTyped DEF Halfway, LedgerInv, RequestsFit, StagesOf
  <2>2. Amount(asked[open].op) \in Int /\ -DailyReward \in Int /\ Penalty \in Int
    BY <2>1, Amounts
  <2> QED
    BY <1>3, <2>2 DEF Ahead, Due
<1> QED
  BY <1>2, <1>3

LEMMA AheadStays ==
  ASSUME LedgerInv, NEW i \in DOMAIN asked, NEW op, NEW stage, Goes(i, op, stage),
         stage # "rest", asked[i].at # "rest", NEW u
  PROVE  Ahead(u)' = Ahead(u) /\ Due(u)' = Due(u)
<1>1. /\ asked'[i].at = stage /\ \A j \in DOMAIN asked : j # i => asked'[j] = asked[j]
      /\ open # 0 => open \in DOMAIN asked
  BY AskedTyped DEF Goes, AskGoes, LedgerInv
<1>2. CASE open' = open /\ open # i
  BY <1>1, <1>2 DEF Ahead, Due, Halfway, Daily
<1>3. CASE open \in {0, i} /\ open' \in {0, i}
  BY <1>1, <1>3 DEF Ahead, Due, Halfway
<1> QED
  BY <1>2, <1>3 DEF Goes

LEMMA AheadThen ==
  ASSUME LedgerInv, NEW i \in DOMAIN asked, NEW stage, Goes(i, asked[i].op, stage), open = i,
         open' \in {0, i}, NEW u
  PROVE  /\ asked[i].at # "rest" \/ asked[i].user # u => Ahead(u) = 0 /\ Due(u) = 0
         /\ stage # "rest" \/ asked[i].user # u \/ open' = 0 => Ahead(u)' = 0 /\ Due(u)' = 0
         /\ asked[i].at = "rest" /\ asked[i].user = u =>
              /\ Daily(asked[i]) => Ahead(u) = -DailyReward
              /\ ~Daily(asked[i]) => Ahead(u) = Amount(asked[i].op)
              /\ asked[i].op = "adjust" => Due(u) = Penalty
              /\ asked[i].op # "adjust" => Due(u) = 0
         /\ stage = "rest" /\ asked[i].user = u /\ open' = i =>
              /\ Daily(asked[i]) => Ahead(u)' = -DailyReward
              /\ ~Daily(asked[i]) => Ahead(u)' = Amount(asked[i].op)
              /\ asked[i].op = "adjust" => Due(u)' = Penalty
              /\ asked[i].op # "adjust" => Due(u)' = 0
<1>1. /\ asked'[i].at = stage /\ asked'[i].op = asked[i].op /\ asked'[i].user = asked[i].user
      /\ i # 0
  BY AskedTyped DEF Goes, AskGoes, LedgerInv
<1>2. Daily(asked'[i]) <=> Daily(asked[i])
  BY <1>1 DEF Daily
<1>3. CASE asked[i].user # u
  BY <1>1, <1>3 DEF Ahead, Due, Halfway
<1>4. CASE asked[i].user = u
  BY <1>1, <1>2, <1>4 DEF Ahead, Due, Halfway
<1> QED
  BY <1>3, <1>4

LEMMA KeptBooks ==
  ASSUME LedgerInv, NEW i \in DOMAIN asked, Request(i), NEW u \in Holders
  PROVE  Balanced(kept', u, 0, 0)
<1>1. Balanced(kept, u, 0, 0) /\ Balanced(Blank, u, 0, 0)
  BY BlankTyped DEF LedgerInv, BooksKept, Balanced
<1>2. CASE kept' \in {kept, Blank}
  BY <1>1, <1>2
<1>3. CASE kept' = db /\ db' = db /\ kept' \notin {kept, Blank}
  <2>1. PICK op, stage : Goes(i, op, stage)
    BY RequestGoes
  <2>2. open = 0
    BY <1>3, <2>1 DEF Goes
  <2>3. Ahead(u) = 0 /\ Due(u) = 0
    BY <2>2 DEF Ahead, Due, Halfway
  <2> QED
    BY <1>3, <2>3 DEF LedgerInv, BooksKept
<1> QED
  BY <1>2, <1>3, RequestWrites DEF RollsBack

\* the steps that leave a user's books as they are, or drop them
LEMMA IdleBooks ==
  ASSUME LedgerInv, NEW i \in DOMAIN asked, NEW u \in Holders,
         CreateAccount(i) \/ ChecksFirst(i) \/ ChecksCap(i) \/ Begin(i) \/ Commit(i) \/ MailFails(i)
           \/ Undo(i) \/ DeleteRow(i) \/ IdentityDeleted(i)
  PROVE  Balanced(db', u, Ahead(u)', Due(u)')
<1>1. PICK op, stage : Goes(i, op, stage) /\ stage # "rest" /\ asked[i].at # "rest"
  BY CreateAccountGoes, ChecksFirstGoes, ChecksCapGoes, BeginGoes, CommitGoes, MailFailsGoes,
     UndoGoes, DeleteRowGoes, IdentityDeletedGoes
<1>2. Ahead(u)' = Ahead(u) /\ Due(u)' = Due(u)
  BY <1>1, AheadStays
<1>3. Balanced(db, u, Ahead(u), Due(u))
  BY DEF LedgerInv, BooksKept
<1>4. db \in Tables /\ asked[i].user \in Holders
  BY InvTyped, AtStage
<1>5. CASE db' = db
  BY <1>2, <1>3, <1>5
<1>6. CASE CreateAccount(i)
  <2>1. db' = [db EXCEPT !.accounts = db.accounts \cup {asked[i].user}]
    BY <1>6 DEF CreateAccount
  <2>2. /\ db'.accounts = db.accounts \cup {asked[i].user} /\ db'.bared = db.bared
        /\ db'.balance = db.balance /\ db'.ledger = db.ledger
    BY <1>4, <2>1 DEF Tables
  <2>3. CASE asked[i].user # u
    BY <1>2, <1>3, <2>2, <2>3 DEF Balanced
  <2>4. CASE asked[i].user = u
    <3>1. SignsUp(i, u) /\ asked[i].at = "create"
      BY <1>6, <2>4, CreateAccountGoes DEF SignsUp
    <3>2. Unborn(u)
      BY <3>1 DEF LedgerInv, SignedUpOnce, Unborn
    <3>3. Unknown(db, u) /\ \A j \in DOMAIN asked : asked[j].user = u => SignsUp(j, u)
      BY <3>2 DEF LedgerInv, UnbornUnknown
    <3>4. ~Halfway(u)
      BY <3>2, <3>3, AskedTyped DEF Halfway, Unborn, LedgerInv
    <3>5. Ahead(u) = 0 /\ Due(u) = 0
      BY <3>4 DEF Ahead, Due
    <3>6. db'.balance[u] = 0 /\ db'.ledger[u] = <<>>
      BY <2>2, <3>3 DEF Unknown
    <3>7. Penalty * 0 = 0
      BY Amounts
    <3>8. Balanced(db', u, 0, 0)
      BY <3>6, <3>7, NoRows DEF Balanced
    <3> QED
      BY <1>2, <3>5, <3>8
  <2> QED
    BY <2>3, <2>4
<1>7. CASE Undo(i)
  <2>1. db' = LedgerCleared(db, asked[i].user)
    BY <1>7, UndoGoes
  <2>2. u = asked[i].user => u \in db'.bared
    BY <1>4, <2>1, ClearedIs
  <2>3. u # asked[i].user => Same(db, db', u)
    BY <1>4, <2>1, ClearedIs
  <2> QED
    BY <1>2, <1>3, <2>2, <2>3 DEF Balanced, Same
<1>8. CASE DeleteRow(i)
  <2>1. db' = AccountDeleted(db, asked[i].user)
    BY <1>8, DeleteRowGoes
  <2>2. u = asked[i].user => u \notin db'.accounts
    BY <1>4, <2>1, DeletedIs
  <2>3. u # asked[i].user => Same(db, db', u)
    BY <1>4, <2>1, DeletedIs
  <2> QED
    BY <1>2, <1>3, <2>2, <2>3 DEF Balanced, Same
<1> QED
  BY <1>5, <1>6, <1>7, <1>8, ChecksFirstGoes, ChecksCapGoes, BeginGoes, CommitGoes, MailFailsGoes,
     IdentityDeletedGoes

LEMMA BackBooks ==
  ASSUME LedgerInv, NEW u \in Holders, RollsBack
  PROVE  Balanced(db', u, Ahead(u)', Due(u)')
<1>1. db' = kept /\ open' = 0
  BY DEF RollsBack
<1>2. Ahead(u)' = 0 /\ Due(u)' = 0
  BY <1>1 DEF Ahead, Due, Halfway
<1>3. Balanced(kept, u, 0, 0)
  BY DEF LedgerInv, BooksKept
<1> QED
  BY <1>1, <1>2, <1>3

LEMMA FirstBooks ==
  ASSUME LedgerInv, NEW i \in DOMAIN asked, FirstStatement(i), NEW u \in Holders
  PROVE  Balanced(db', u, Ahead(u)', Due(u)')
<1> DEFINE r == asked[i]
<1>0. /\ db \in Tables /\ r.user \in Holders /\ r.op \in LedgerOps /\ clock \in Nat
  BY InvTyped, AtStage
<1>t. db' \in Tables
  BY RequestWrites DEF Request
<1>1. r.at = "first" /\ open = i
  BY FirstStatementGoes
<1>2. Balanced(db, u, 0, 0)
  BY <1>1, AheadStays DEF LedgerInv, BooksKept, Ahead, Due, Halfway
<1>3. CASE RollsBack
  BY <1>3, BackBooks
<1>4. CASE r.op = "delete" /\ db' = LedgerCleared(db, r.user) /\ open' = open /\ Goes(i, r.op, "commit")
  <2>1. Ahead(u)' = 0 /\ Due(u)' = 0
    BY <1>1, <1>4, AheadThen
  <2>2. u = r.user => u \in db'.bared
    BY <1>0, <1>4, ClearedIs
  <2>3. u # r.user => Same(db, db', u)
    BY <1>0, <1>4, ClearedIs
  <2> QED
    BY <1>2, <2>1, <2>2, <2>3 DEF Balanced, Same
<1>5. CASE Daily(r) /\ db' = Posted(db, r.user, DailyReward, "daily") /\ open' = open /\ Goes(i, r.op, "rest")
  <2>1. DailyReward \in Int /\ "daily" \in Reasons /\ DailyReward \in Nat
    BY Amounts DEF Reasons
  <2>2. CASE u # r.user
    <3>1. Ahead(u)' = 0 /\ Due(u)' = 0
      BY <1>1, <1>5, <2>2, AheadThen
    <3>2. Same(db, db', u)
      BY <1>0, <1>5, <2>1, <2>2, PostedIs
    <3> QED
      BY <1>2, <3>1, <3>2 DEF Balanced, Same
  <2>3. CASE u = r.user
    <3>1. Ahead(u)' = -DailyReward /\ Due(u)' = 0
      BY <1>1, <1>5, <2>3, AheadThen DEF Daily
    <3> DEFINE e == Entry(DailyReward, "daily")
    <3>2. /\ db'.accounts = db.accounts /\ db'.bared = db.bared /\ db'.balance = db.balance
          /\ db'.ledger[u] = Append(db.ledger[u], e)
      BY ONLY <1>0, <1>5, <2>1, <2>3, PostedRow
    <3>3. e \in Entries /\ e.reason # "admin" /\ e.delta = DailyReward
      BY <1>0, <2>1, EntryTyped
    <3> HIDE DEF e
    <3>4. db'.balance[u] = db.balance[u] + 0
      BY <1>0, <3>2, TablesTyped
    <3>5. PICK after : after = -DailyReward
      OBVIOUS
    <3>6. after \in Int /\ 0 + 0 = after + e.delta
      BY <2>1, <3>3, <3>5
    <3>7. PICK t, s, z : t = db /\ s = db' /\ z = 0
      OBVIOUS
    <3>8. t \in Tables
      BY <1>0, <3>7
    <3>9. s \in Tables
      BY <1>t, <3>7
    <3>10. s.ledger[u] = Append(t.ledger[u], e)
      BY <3>2, <3>7
    <3>11. s.accounts = t.accounts
      BY <3>2, <3>7
    <3>12. s.bared = t.bared
      BY <3>2, <3>7
    <3>13. s.balance[u] = t.balance[u] + z
      BY <3>4, <3>7
    <3>14. Balanced(t, u, z, z)
      BY <1>2, <3>7
    <3>15. z \in Int /\ z + z = after + e.delta /\ z <= z + z /\ after \in Int
      BY <3>6, <3>7
    <3>16. e \in Entries /\ e.reason # "admin"
      BY <3>3
    <3>17. Balanced(s, u, after, z)
      BY ONLY <3>8, <3>9, <3>10, <3>11, <3>12, <3>13, <3>14, <3>15, <3>16, u \in Holders, BookPosted
    <3> QED
      BY <3>1, <3>5, <3>7, <3>17
  <2> QED
    BY <2>2, <2>3
<1>6. CASE /\ ~Daily(r) /\ r.op # "delete" /\ db' = Credited(db, r.user, Amount(r.op))
           /\ r.op = "gift" => db.balance[r.user] >= Gift
           /\ r.op = "search" => db.balance[r.user] >= MatchCost
           /\ open' = open /\ Goes(i, r.op, "rest")
  <2>1. Amount(r.op) \in Int
    BY <1>0, <1>6, Amounts
  <2>2. CASE u # r.user
    <3>1. Ahead(u)' = 0 /\ Due(u)' = 0
      BY <1>1, <1>6, <2>2, AheadThen
    <3>2. Same(db, db', u)
      BY <1>0, <1>6, <2>1, <2>2, CreditedIs
    <3> QED
      BY <1>2, <3>1, <3>2 DEF Balanced, Same
  <2>3. CASE u = r.user
    <3>1. /\ Ahead(u)' = Amount(r.op)
          /\ r.op = "adjust" => Due(u)' = Penalty
          /\ r.op # "adjust" => Due(u)' = 0
      BY <1>1, <1>6, <2>3, AheadThen
    <3>2. /\ db'.accounts = db.accounts /\ db'.bared = db.bared /\ db'.ledger = db.ledger
          /\ u \in db.accounts => db'.balance[u] = db.balance[u] + Amount(r.op)
      BY <1>0, <1>6, <2>1, <2>3, CreditedIs
    <3>3. PICK more, rest : more = Amount(r.op) /\ rest = Due(u)'
      OBVIOUS
    <3>4. rest \in Int /\ more \in Int /\ 0 + more = more
      BY <2>1, <3>1, <3>3, Amounts
    <3>5. 0 <= more + rest \/ db.balance[u] + more + rest >= 0
      <4>1. CASE r.op \in {"gift", "search"}
        <5>1. rest = 0 /\ db.balance[u] \in Int /\ Gift \in Int /\ MatchCost \in Int
          BY <1>0, <3>1, <3>3, <4>1, Amounts, TablesTyped
        <5>2. /\ r.op = "gift" => more = -Gift /\ db.balance[u] >= Gift
              /\ r.op = "search" => more = -MatchCost /\ db.balance[u] >= MatchCost
          BY <1>6, <2>3, <3>3 DEF Amount
        <5> QED
          BY ONLY <4>1, <5>1, <5>2
      <4>2. CASE r.op \notin {"gift", "search"}
        BY <1>0, <1>6, <3>1, <3>3, <4>2, Amounts DEF Amount, Daily, LedgerOps
      <4> QED
        BY <4>1, <4>2
    <3>6. Balanced(db', u, more, rest)
      <4>1. PICK t, s, z : t = db /\ s = db' /\ z = 0
        OBVIOUS
      <4>2. u \in t.accounts => s.balance[u] = t.balance[u] + more
        BY <3>2, <3>3, <4>1
      <4>3. s.accounts = t.accounts
        BY <3>2, <4>1
      <4>4. s.bared = t.bared
        BY <3>2, <4>1
      <4>5. s.ledger[u] = t.ledger[u]
        BY <3>2, <4>1
      <4>6. t \in Tables
        BY <1>0, <4>1
      <4>7. s \in Tables
        BY <1>t, <4>1
      <4>8. Balanced(t, u, z, z)
        BY <1>2, <4>1
      <4>9. z \in Int /\ z + more = more /\ (z <= more + rest \/ t.balance[u] + more + rest >= 0)
        BY <3>4, <3>5, <4>1
      <4>10. Balanced(s, u, more, rest)
        BY ONLY <3>4, <4>2, <4>3, <4>4, <4>5, <4>6, <4>7, <4>8, <4>9, u \in Holders, BookCredited
      <4> QED
        BY <4>1, <4>10
    <3> QED
      BY <3>1, <3>3, <3>6
  <2> QED
    BY <2>2, <2>3
<1> QED
  BY <1>3, <1>4, <1>5, <1>6, FirstStatementGoes

LEMMA RowCompletes ==
  ASSUME LedgerInv, db' \in Tables, NEW u \in Holders, NEW e \in Entries, NEW more \in Int,
         db'.accounts = db.accounts, db'.bared = db.bared,
         db'.ledger[u] = Append(db.ledger[u], e),
         u \in db.accounts => db'.balance[u] = db.balance[u] + more,
         Ahead(u) + more = e.delta,
         e.reason = "admin" => Due(u) <= more + Penalty, e.reason # "admin" => Due(u) <= more
  PROVE  Balanced(db', u, 0, 0)
<1>1. PICK t, s, z, before, due : t = db /\ s = db' /\ z = 0 /\ before = Ahead(u) /\ due = Due(u)
  OBVIOUS
<1>2. t \in Tables
  BY <1>1, InvTyped
<1>3. s \in Tables
  BY <1>1
<1>4. before \in Int
  BY <1>1, AheadTyped
<1>5. due \in Int
  BY <1>1, AheadTyped
<1>6. z \in Int
  BY <1>1
<1>7. s.accounts = t.accounts
  BY <1>1
<1>8. s.bared = t.bared
  BY <1>1
<1>9. s.ledger[u] = Append(t.ledger[u], e)
  BY <1>1
<1>10. u \in t.accounts => s.balance[u] = t.balance[u] + more
  BY <1>1
<1>11. Balanced(t, u, before, due)
  BY <1>1 DEF LedgerInv, BooksKept
<1>12. before + more = z + e.delta
  <2>1. e.delta \in Int
    BY DEF Entries
  <2> QED
    BY <1>1, <2>1
<1>13. e.reason = "admin" => due <= more + z + Penalty
  BY <1>1
<1>14. e.reason # "admin" => due <= more + z
  BY <1>1
<1>15. Balanced(s, u, z, z)
  BY ONLY <1>2, <1>3, <1>4, <1>5, <1>6, <1>7, <1>8, <1>9, <1>10, <1>11, <1>12, <1>13, <1>14,
          u \in Holders, e \in Entries, more \in Int, BookPosted
<1> QED
  BY <1>1, <1>15

LEMMA SecondBooks ==
  ASSUME LedgerInv, NEW i \in DOMAIN asked, SecondStatement(i), NEW u \in Holders
  PROVE  Balanced(db', u, Ahead(u)', Due(u)')
<1> DEFINE r == asked[i]
<1>0. /\ db \in Tables /\ r.user \in Holders /\ r.to \in Holders /\ r.op \in LedgerOps /\ clock \in Nat
  BY InvTyped, AtStage
<1>t. db' \in Tables
  BY RequestWrites DEF Request
<1>1. r.at = "rest" /\ open = i /\ open' = open /\ Goes(i, r.op, "commit") /\ r.op # "delete"
  BY SecondStatementGoes
<1>2. Ahead(u)' = 0 /\ Due(u)' = 0
  BY <1>1, AheadThen
<1>3. Balanced(db, u, Ahead(u), Due(u))
  BY DEF LedgerInv, BooksKept
<1>4. /\ r.user # u => Ahead(u) = 0 /\ Due(u) = 0
      /\ r.user = u => /\ Daily(r) => Ahead(u) = -DailyReward
                       /\ ~Daily(r) => Ahead(u) = Amount(r.op)
                       /\ r.op = "adjust" => Due(u) = Penalty
                       /\ r.op # "adjust" => Due(u) = 0
  BY <1>1, AheadThen
<1>5. {DailyReward, Gift, Penalty} \subseteq Nat /\ Amount(r.op) \in Int
  BY <1>0, <1>1, Amounts
<1> SUFFICES Balanced(db', u, 0, 0)
  BY <1>2
<1>6. CASE Daily(r) /\ db' = Credited(db, r.user, DailyReward)
  <2>1. DailyReward \in Int
    BY Amounts
  <2>2. CASE u # r.user
    <3>1. Same(db, db', u)
      BY <1>0, <1>6, <2>1, <2>2, CreditedIs
    <3> QED
      BY <1>3, <1>4, <2>2, <3>1 DEF Balanced, Same
  <2>3. CASE u = r.user
    <3>1. /\ db'.accounts = db.accounts /\ db'.bared = db.bared /\ db'.ledger = db.ledger
          /\ u \in db.accounts => db'.balance[u] = db.balance[u] + DailyReward
      BY <1>0, <1>6, <2>1, <2>3, CreditedIs
    <3>2. Ahead(u) = -DailyReward /\ Due(u) = 0
      BY <1>4, <1>6, <2>3 DEF Daily
    <3>3. PICK t, s, z, before, more : t = db /\ s = db' /\ z = 0 /\ before = Ahead(u) /\ more = DailyReward
      OBVIOUS
    <3>4. t \in Tables
      BY <1>0, <3>3
    <3>5. s \in Tables
      BY <1>t, <3>3
    <3>6. before \in Int /\ more \in Int /\ z \in Int /\ before + more = z /\ z <= more + z
      BY <1>5, <3>2, <3>3
    <3>7. s.accounts = t.accounts
      BY <3>1, <3>3
    <3>8. s.bared = t.bared
      BY <3>1, <3>3
    <3>9. s.ledger[u] = t.ledger[u]
      BY <3>1, <3>3
    <3>10. u \in t.accounts => s.balance[u] = t.balance[u] + more
      BY <3>1, <3>3
    <3>11. Balanced(t, u, before, z)
      BY <1>3, <3>2, <3>3
    <3>12. Balanced(s, u, z, z)
      BY ONLY <3>4, <3>5, <3>6, <3>7, <3>8, <3>9, <3>10, <3>11, u \in Holders, BookCredited
    <3> QED
      BY <3>3, <3>12
  <2> QED
    BY <2>2, <2>3
<1>7. CASE /\ r.op = "gift"
           /\ db' = Posted(Posted(Credited(db, r.to, Gift), r.user, -Gift, "gift"), r.to, Gift, "gift")
  <2>1. /\ r.user # r.to /\ db'.accounts = db.accounts /\ db'.bared = db.bared
        /\ db'.ledger[r.user] = Append(db.ledger[r.user], Entry(-Gift, "gift"))
        /\ db'.ledger[r.to] = Append(db.ledger[r.to], Entry(Gift, "gift"))
        /\ db'.balance[r.user] = db.balance[r.user]
        /\ r.to \in db.accounts => db'.balance[r.to] = db.balance[r.to] + Gift
        /\ u \notin {r.user, r.to} => Same(db, db', u)
    BY <1>7, GiftCompleted
  <2>2. Gift \in Int /\ -Gift \in Int /\ "gift" \in Reasons
    BY <1>5 DEF Reasons
  <2>3. CASE u \notin {r.user, r.to}
    BY <1>3, <1>4, <2>1, <2>3 DEF Balanced, Same
  <2>4. CASE u = r.user
    <3>1. PICK e : e = Entry(-Gift, "gift")
      OBVIOUS
    <3>2. e \in Entries /\ e.reason # "admin" /\ e.delta = -Gift
      BY <1>0, <2>2, <3>1, EntryTyped
    <3>3. PICK more : more = 0
      OBVIOUS
    <3>4. u \in db.accounts => db'.balance[u] = db.balance[u] + more
      BY <1>0, <2>1, <2>4, <3>3, TablesTyped
    <3>5. db'.ledger[u] = Append(db.ledger[u], e)
      BY <2>1, <2>4, <3>1
    <3>6. Ahead(u) + more = e.delta /\ Due(u) <= more /\ more \in Int
      BY <1>4, <1>5, <1>7, <2>4, <3>2, <3>3 DEF Amount, Daily
    <3> QED
      BY <1>t, <2>1, <3>2, <3>4, <3>5, <3>6, RowCompletes
  <2>5. CASE u = r.to
    <3>1. PICK e : e = Entry(Gift, "gift")
      OBVIOUS
    <3>2. e \in Entries /\ e.reason # "admin" /\ e.delta = Gift
      BY <1>0, <2>2, <3>1, EntryTyped
    <3>3. PICK more : more = Gift
      OBVIOUS
    <3>4. u \in db.accounts => db'.balance[u] = db.balance[u] + more
      BY <2>1, <2>5, <3>3
    <3>5. db'.ledger[u] = Append(db.ledger[u], e)
      BY <2>1, <2>5, <3>1
    <3>6. Ahead(u) + more = e.delta /\ Due(u) <= more /\ more \in Int
      BY <1>4, <1>5, <2>1, <2>5, <3>2, <3>3
    <3> QED
      BY <1>t, <2>1, <3>2, <3>4, <3>5, <3>6, RowCompletes
  <2> QED
    BY <2>3, <2>4, <2>5
<1>8. CASE ~Daily(r) /\ r.op # "gift" /\ db' = Posted(db, r.user, Amount(r.op), ReasonOf(r.op))
  <2>1. /\ ReasonOf(r.op) \in Reasons
        /\ ReasonOf(r.op) = "admin" <=> r.op = "adjust"
    BY <1>0, <1>1, Amounts
  <2>2. CASE u # r.user
    <3>1. Same(db, db', u)
      BY <1>0, <1>5, <1>8, <2>1, <2>2, PostedIs
    <3> QED
      BY <1>3, <1>4, <2>2, <3>1 DEF Balanced, Same
  <2>3. CASE u = r.user
    <3>1. PICK e : e = Entry(Amount(r.op), ReasonOf(r.op))
      OBVIOUS
    <3>2. e \in Entries /\ e.reason = ReasonOf(r.op) /\ e.delta = Amount(r.op)
      BY <1>0, <1>5, <2>1, <3>1, EntryTyped
    <3>3. PICK more : more = 0
      OBVIOUS
    <3>4. /\ db'.accounts = db.accounts /\ db'.bared = db.bared /\ db'.balance = db.balance
          /\ db'.ledger[u] = Append(db.ledger[u], e)
      <4>1. PICK d, reason : d = Amount(r.op) /\ reason = ReasonOf(r.op)
        OBVIOUS
      <4>2. d \in Int /\ reason \in Reasons /\ db' = Posted(db, r.user, d, reason)
        BY <1>5, <1>8, <2>1, <4>1
      <4>3. /\ db'.accounts = db.accounts /\ db'.bared = db.bared /\ db'.balance = db.balance
            /\ db'.ledger[r.user] = Append(db.ledger[r.user], Entry(d, reason))
        <5>1. PICK t, w : t = db /\ w = r.user
          OBVIOUS
        <5>2. t \in Tables /\ w \in Holders /\ clock \in Nat
          BY ONLY <1>0, <5>1
        <5>3. d \in Int /\ reason \in Reasons
          BY <4>2
        <5>4. /\ Posted(t, w, d, reason).accounts = t.accounts
              /\ Posted(t, w, d, reason).bared = t.bared
              /\ Posted(t, w, d, reason).balance = t.balance
              /\ Posted(t, w, d, reason).ledger[w] = Append(t.ledger[w], Entry(d, reason))
          BY ONLY <5>2, <5>3, PostedRow
        <5> QED
          BY ONLY <4>2, <5>1, <5>4
      <4> QED
        BY <2>3, <3>1, <4>1, <4>3
    <3>5. u \in db.accounts => db'.balance[u] = db.balance[u] + more
      BY <1>0, <3>3, <3>4, TablesTyped
    <3>6. Ahead(u) + more = e.delta /\ more \in Int
      BY <1>4, <1>5, <1>8, <2>3, <3>2, <3>3
    <3>7. /\ e.reason = "admin" => Due(u) <= more + Penalty
          /\ e.reason # "admin" => Due(u) <= more
      BY <1>4, <1>5, <2>1, <2>3, <3>2, <3>3
    <3> QED
      BY <1>t, <3>2, <3>4, <3>5, <3>6, <3>7, RowCompletes
  <2> QED
    BY <2>2, <2>3
<1> QED
  BY <1>6, <1>7, <1>8, SecondStatementGoes

LEMMA RequestBooks ==
  ASSUME LedgerInv, NEW i \in DOMAIN asked, Request(i)
  PROVE  BooksKept'
<1> SUFFICES ASSUME NEW u \in Holders
             PROVE  Balanced(db', u, Ahead(u)', Due(u)') /\ Balanced(kept', u, 0, 0)
  BY DEF BooksKept, Balanced
<1>1. Balanced(kept', u, 0, 0)
  BY KeptBooks
<1>2. CASE FirstStatement(i)
  BY <1>1, <1>2, FirstBooks
<1>3. CASE SecondStatement(i)
  BY <1>1, <1>3, SecondBooks
<1>4. CASE Fault(i)
  BY <1>1, <1>4, FaultGoes, BackBooks
<1>5. CASE ~(FirstStatement(i) \/ SecondStatement(i) \/ Fault(i))
  BY <1>1, <1>5, IdleBooks DEF Request
<1> QED
  BY <1>2, <1>3, <1>4, <1>5

-----------------------------------------------------------------------------
(* What is paid: where a request comes from, and what the others know of it. *)

LEMMA RequestMoves ==
  ASSUME LedgerInv, NEW i \in DOMAIN asked, Request(i)
  PROVE  /\ DOMAIN asked' = DOMAIN asked /\ asked'[i].user = asked[i].user
         /\ \A j \in DOMAIN asked : j # i => asked'[j] = asked[j]
         /\ asked'[i].op = asked[i].op \/ {asked'[i].op, asked[i].op} = {"signup", "welcome"}
         /\ asked'[i].op = "signup" /\ asked'[i].at \in {"create", "begin", "first", "rest"} =>
              asked[i].op = "signup" /\ asked[i].at \in {"create", "begin", "first"}
         /\ asked'[i].op = "claim" /\ asked'[i].at \notin {"check", "done"} =>
              \/ asked[i].at \notin {"check", "done", "commit"}
              \/ /\ ChecksFirst(i) /\ asked'[i].at = "cap" /\ asked[i].at = "check"
                 /\ Waited(Seen.ledger[asked[i].user])
         /\ asked'[i].op = "claim" /\ asked'[i].at \notin {"check", "done", "cap"} =>
              \/ asked[i].at \notin {"check", "done", "cap", "commit"}
              \/ ChecksCap(i) /\ asked[i].at = "cap" /\ Room(Seen.ledger[asked[i].user])
         /\ SecondStatement(i) => asked'[i].at = "commit" /\ asked[i].at = "rest" /\ open = i /\ open' = open
<1>1. PICK op, stage : Goes(i, op, stage)
  BY RequestGoes
<1>2. /\ DOMAIN asked' = DOMAIN asked /\ asked'[i].user = asked[i].user
      /\ \A j \in DOMAIN asked : j # i => asked'[j] = asked[j]
      /\ asked'[i].op = asked[i].op \/ {asked'[i].op, asked[i].op} = {"signup", "welcome"}
      /\ asked'[i].at # "create"
  BY <1>1 DEF Goes, AskGoes
<1>3. \A o, s : Goes(i, o, s) => asked'[i].op = o /\ asked'[i].at = s
  BY DEF Goes, AskGoes
<1> DEFINE Signs == asked'[i].op = "signup" /\ asked'[i].at \in {"create", "begin", "first", "rest"} =>
              asked[i].op = "signup" /\ asked[i].at \in {"create", "begin", "first"}
           Claims == asked'[i].op = "claim" /\ asked'[i].at \notin {"check", "done"} =>
              \/ asked[i].at \notin {"check", "done", "commit"}
              \/ /\ ChecksFirst(i) /\ asked'[i].at = "cap" /\ asked[i].at = "check"
                 /\ Waited(Seen.ledger[asked[i].user])
           Checked == asked'[i].op = "claim" /\ asked'[i].at \notin {"check", "done", "cap"} =>
              \/ asked[i].at \notin {"check", "done", "cap", "commit"}
              \/ ChecksCap(i) /\ asked[i].at = "cap" /\ Room(Seen.ledger[asked[i].user])
<1>a. SecondStatement(i) => asked'[i].at = "commit" /\ asked[i].at = "rest" /\ open = i /\ open' = open
  BY <1>3, SecondStatementGoes
<1> SUFFICES Signs /\ Claims /\ Checked
  BY <1>2, <1>a
<1>4. CASE CreateAccount(i)
  BY <1>2, <1>3, <1>4, CreateAccountGoes
<1>5. CASE ChecksFirst(i)
  BY <1>2, <1>3, <1>5, ChecksFirstGoes
<1>6. CASE ChecksCap(i)
  BY <1>2, <1>3, <1>6, ChecksCapGoes
<1>7. CASE Begin(i)
  BY <1>2, <1>3, <1>7, BeginGoes
<1>8. CASE FirstStatement(i)
  BY <1>2, <1>3, <1>8, FirstStatementGoes
<1>9. CASE SecondStatement(i)
  BY <1>2, <1>3, <1>9, SecondStatementGoes
<1>10. CASE Commit(i)
  BY <1>2, <1>3, <1>10, CommitGoes
<1>11. CASE Fault(i)
  <2>1. Goes(i, "claim", "undo") => "undo" \in StagesOf("claim")
    BY DEF Goes
  <2>2. "undo" \notin StagesOf("claim")
    BY DEF StagesOf
  <2>3. \/ asked'[i].op = asked[i].op /\ asked'[i].at = "undo" /\ asked[i].op # "claim"
        \/ asked'[i].at = "done"
    BY <1>3, <1>11, <2>1, <2>2, FaultGoes
  <2> QED
    BY <2>3
<1>12. CASE MailFails(i)
  BY <1>2, <1>3, <1>12, MailFailsGoes
<1>13. CASE Undo(i)
  BY <1>2, <1>3, <1>13, UndoGoes
<1>14. CASE DeleteRow(i)
  BY <1>2, <1>3, <1>14, DeleteRowGoes
<1>15. CASE IdentityDeleted(i)
  BY <1>2, <1>3, <1>15, IdentityDeletedGoes
<1> QED
  BY <1>4, <1>5, <1>6, <1>7, <1>8, <1>9, <1>10, <1>11, <1>12, <1>13, <1>14, <1>15 DEF Request

\* a user's rows after a step: those before a transaction, those there were, none, one more
LEMMA RowsThen ==
  ASSUME LedgerInv, NEW i \in DOMAIN asked, Request(i), NEW u \in Holders
  PROVE  /\ \/ db'.ledger[u] \in {kept.ledger[u], db.ledger[u], <<>>}
            \/ Gains(u, i)
         /\ kept'.ledger[u] \in {kept.ledger[u], db.ledger[u], <<>>}
<1>1. db'.ledger[u] \in {kept.ledger[u], db.ledger[u], <<>>} \/ Gains(u, i)
  BY LedgerMoves DEF RollsBack
<1>2. Blank.ledger[u] = <<>>
  BY BlankTyped
<1>3. kept'.ledger[u] \in {kept.ledger[u], db.ledger[u], <<>>}
  BY <1>2, RequestWrites DEF RollsBack
<1> QED
  BY <1>1, <1>3

LEMMA GainsIs ==
  ASSUME LedgerInv, NEW i \in DOMAIN asked, NEW u \in Holders, Gains(u, i)
  PROVE  \E n, e : /\ OneMore(db.ledger[u], db'.ledger[u], n, e) /\ e.at = clock
                   /\ e.reason = "ad" => asked[i].op = "claim" /\ asked[i].user = u /\ SecondStatement(i)
                   /\ e.reason = "signup" => asked[i].op = "signup" /\ asked[i].user = u /\ SecondStatement(i)
                   /\ e.reason = "daily" => OwedToday(u)
<1>1. PICK e \in Entries :
        /\ db'.ledger[u] = Append(db.ledger[u], e) /\ e.at = clock
        /\ e.reason = "ad" => asked[i].op = "claim" /\ asked[i].user = u /\ SecondStatement(i)
        /\ e.reason = "signup" => asked[i].op = "signup" /\ asked[i].user = u /\ SecondStatement(i)
        /\ e.reason = "daily" => OwedToday(u)
  BY DEF Gains
<1>2. PICK posts, more, n : posts = db.ledger[u] /\ more = db'.ledger[u] /\ n = Len(posts) + 1
  OBVIOUS
<1>3. posts \in Seq(Entries) /\ more = Append(posts, e)
  BY <1>1, <1>2, InvTyped
<1>4. OneMore(posts, more, n, e)
  BY <1>2, <1>3, OneMoreRow
<1> QED
  BY <1>1, <1>2, <1>4

LEMMA PaidThen ==
  ASSUME LedgerInv, NEW i \in DOMAIN asked, Request(i), NEW u \in Holders
  PROVE  /\ Owed(db'.ledger[u]) /\ Owed(kept'.ledger[u])
         /\ u \notin raced => Capped(db'.ledger[u]) /\ Capped(kept'.ledger[u])
<1>1. /\ Owed(db.ledger[u]) /\ Owed(kept.ledger[u]) /\ Owed(<<>>) /\ Capped(<<>>)
      /\ u \notin raced => Capped(db.ledger[u]) /\ Capped(kept.ledger[u])
  BY NoRows DEF LedgerInv, PaidSoFar
<1>2. Owed(kept'.ledger[u]) /\ (u \notin raced => Capped(kept'.ledger[u]))
  BY <1>1, RowsThen
<1>3. CASE db'.ledger[u] \in {kept.ledger[u], db.ledger[u], <<>>}
  BY <1>1, <1>2, <1>3
<1>4. CASE Gains(u, i)
  <2>1. PICK n, e :
          /\ OneMore(db.ledger[u], db'.ledger[u], n, e) /\ e.at = clock
          /\ e.reason = "ad" => asked[i].op = "claim" /\ asked[i].user = u /\ SecondStatement(i)
          /\ e.reason = "signup" => asked[i].op = "signup" /\ asked[i].user = u /\ SecondStatement(i)
          /\ e.reason = "daily" => OwedToday(u)
    BY <1>4, GainsIs
  <2>2. PICK posts, more : posts = db.ledger[u] /\ more = db'.ledger[u]
    OBVIOUS
  <2>3. OneMore(posts, more, n, e)
    BY <2>1, <2>2
  <2>4. e.at <= clock
    BY <2>1, InvTyped
  <2>5. e.reason = "daily" => \A k \in DOMAIN RowsOf(posts, "daily") : DayOf(posts[k]) # DayOf(e)
    BY <2>1, <2>2 DEF OwedToday, Today, DayOf
  <2>6. e.reason = "signup" => DOMAIN RowsOf(posts, "signup") = {}
    BY <2>1, <2>2, RequestMoves DEF LedgerInv, GrantToCome
  <2>7. Owed(posts)
    BY <1>1, <2>2
  <2>8. Owed(more)
    BY ONLY <2>3, <2>4, <2>5, <2>6, <2>7, OwedAdded
  <2>9. ASSUME u \notin raced PROVE Capped(more)
    <3>1. Capped(posts)
      BY <1>1, <2>2, <2>9
    <3>2. CASE e.reason = "ad"
      <4>1. Past(i, u) /\ asked[i].at = "rest"
        BY <2>1, <3>2, RequestMoves DEF Past
      <4>2. Waited(posts) /\ Room(posts)
        BY <2>2, <2>9, <4>1 DEF LedgerInv, ClaimsChecked
      <4>3. e.at = clock
        BY <2>1
      <4>4. Waited(posts)
        BY <4>2
      <4>5. Room(posts)
        BY <4>2
      <4> QED
        BY ONLY <2>3, <3>1, <3>2, <4>3, <4>4, <4>5, AdAdded
    <3>3. CASE e.reason # "ad"
      BY ONLY <2>3, <3>1, <3>3, NoAdAdded
    <3> QED
      BY <3>2, <3>3
  <2> QED
    BY <1>2, <2>2, <2>8, <2>9
<1> QED
  BY <1>3, <1>4, RowsThen

\* what a claim found is still so, whatever other requests do
LEMMA FoundThen ==
  ASSUME LedgerInv, NEW i \in DOMAIN asked, Request(i), NEW u \in Holders,
         ~(asked[i].op = "claim" /\ asked[i].user = u /\ SecondStatement(i))
  PROVE  /\ Waited(db.ledger[u]) /\ Waited(kept.ledger[u]) =>
              Waited(db'.ledger[u]) /\ Waited(kept'.ledger[u])
         /\ Room(db.ledger[u]) /\ Room(kept.ledger[u]) =>
              Room(db'.ledger[u]) /\ Room(kept'.ledger[u])
         /\ AdsWithin(db.ledger[u], kept.ledger[u]) /\ ~RollsBack =>
              AdsWithin(db'.ledger[u], kept.ledger[u])
<1>0. Waited(<<>>) /\ Room(<<>>) /\ \A others : AdsWithin(<<>>, others)
  BY NoRows
<1>1. kept'.ledger[u] \in {kept.ledger[u], db.ledger[u], <<>>}
  BY RowsThen
<1>2. CASE db'.ledger[u] \in {db.ledger[u], <<>>}
  BY <1>0, <1>1, <1>2
<1>3. CASE RollsBack
  <2>1. db' = kept
    BY <1>3 DEF RollsBack
  <2> QED
    BY <1>0, <1>1, <1>3, <2>1
<1>4. CASE Gains(u, i)
  <2>1. PICK n, e : OneMore(db.ledger[u], db'.ledger[u], n, e) /\ e.reason # "ad"
    BY <1>4, GainsIs
  <2>2. PICK posts, more : posts = db.ledger[u] /\ more = db'.ledger[u]
    OBVIOUS
  <2>3. OneMore(posts, more, n, e)
    BY <2>1, <2>2
  <2>4. e.reason # "ad"
    BY <2>1
  <2>5. /\ Waited(posts) => Waited(more)
        /\ Room(posts) => Room(more)
        /\ \A others : AdsWithin(posts, others) => AdsWithin(more, others)
    BY ONLY <2>3, <2>4, NoAdAdded
  <2> QED
    BY <1>0, <1>1, <2>2, <2>5
<1> QED
  BY <1>2, <1>3, <1>4, LedgerMoves

LEMMA RequestPaid ==
  ASSUME LedgerInv, NEW i \in DOMAIN asked, Request(i)
  PROVE  PaidSoFar'
<1>1. clock' = clock
  BY RequestGoes DEF Quiet
<1>2. raced \subseteq raced'
  BY RequestRaces
<1>3. ASSUME NEW posts
      PROVE  (Owed(posts)' <=> Owed(posts)) /\ (Capped(posts)' <=> Capped(posts))
  BY <1>1 DEF Owed, Dated, DailiesApart, GrantedOnce, Capped, AdsApart, AdsCapped, Today
<1> SUFFICES ASSUME NEW u \in Holders
             PROVE  /\ Owed(db.ledger[u])' /\ Owed(kept.ledger[u])'
                    /\ u \notin raced' => Capped(db.ledger[u])' /\ Capped(kept.ledger[u])'
  BY DEF PaidSoFar
<1>4. PICK posts, rows : posts = db'.ledger[u] /\ rows = kept'.ledger[u]
  OBVIOUS
<1>5. /\ Owed(posts)' /\ Owed(rows)'
      /\ u \notin raced' => Capped(posts)' /\ Capped(rows)'
  BY <1>2, <1>3, <1>4, PaidThen
<1> QED
  BY <1>4, <1>5 DEF Owed, Dated, DailiesApart, GrantedOnce, Capped, AdsApart, AdsCapped, AdsOn, RowsOf

LEMMA RequestGrants ==
  ASSUME LedgerInv, NEW i \in DOMAIN asked, Request(i)
  PROVE  GrantToCome'
<1> SUFFICES ASSUME NEW j \in DOMAIN asked', asked'[j].op = "signup",
                    asked'[j].at \in {"create", "begin", "first", "rest"}
             PROVE  /\ DOMAIN RowsOf(db'.ledger[asked'[j].user], "signup") = {}
                    /\ DOMAIN RowsOf(kept'.ledger[asked'[j].user], "signup") = {}
  BY DEF GrantToCome, RowsOf
<1>1. /\ j \in DOMAIN asked /\ asked'[j].user = asked[j].user /\ asked[j].op = "signup"
      /\ asked[j].at \in {"create", "begin", "first", "rest"}
  BY RequestMoves
<1>2. PICK u : u = asked[j].user /\ u \in Holders
  BY <1>1, AtStage
<1>3. /\ DOMAIN RowsOf(db.ledger[u], "signup") = {} /\ DOMAIN RowsOf(kept.ledger[u], "signup") = {}
      /\ DOMAIN RowsOf(<<>>, "signup") = {}
  BY <1>1, <1>2, NoRows DEF LedgerInv, GrantToCome
<1>4. CASE db'.ledger[u] \in {kept.ledger[u], db.ledger[u], <<>>}
  BY <1>1, <1>2, <1>3, <1>4, RowsThen
<1>5. CASE Gains(u, i)
  <2>1. PICK n, e :
          /\ OneMore(db.ledger[u], db'.ledger[u], n, e)
          /\ e.reason = "signup" => asked[i].op = "signup" /\ asked[i].user = u /\ SecondStatement(i)
    BY <1>2, <1>5, GainsIs
  <2>2. e.reason # "signup"
    <3> SUFFICES ASSUME e.reason = "signup" PROVE FALSE
      OBVIOUS
    <3>1. SignsUp(i, u) /\ SignsUp(j, u)
      BY <1>1, <1>2, <2>1 DEF SignsUp
    <3>2. i = j
      BY <1>1, <1>2, <3>1 DEF LedgerInv, SignedUpOnce
    <3> QED
      BY <2>1, <3>2, RequestMoves
  <2>3. PICK posts, more : posts = db.ledger[u] /\ more = db'.ledger[u]
    OBVIOUS
  <2>4. OneMore(posts, more, n, e)
    BY <2>1, <2>3
  <2>5. /\ DOMAIN RowsOf(posts, "signup") \subseteq DOMAIN posts
        /\ e.reason = "signup" => DOMAIN RowsOf(more, "signup") = DOMAIN RowsOf(posts, "signup") \cup {n}
        /\ e.reason # "signup" => DOMAIN RowsOf(more, "signup") = DOMAIN RowsOf(posts, "signup")
    BY ONLY <2>4, RowsAdded
  <2> QED
    BY <1>1, <1>2, <1>3, <2>2, <2>3, <2>5, RowsThen
<1> QED
  BY <1>2, <1>4, <1>5, RowsThen

\* what a claim sees outside a transaction holds in it too, and the reverse
LEMMA SeenIsSo ==
  ASSUME LedgerInv, NEW i \in DOMAIN asked, asked[i].op = "claim", asked[i].at \in {"check", "cap"},
         NEW u, u = asked[i].user, ~Overlaps(i), ~Uncommitted(u)
  PROVE  /\ Waited(Seen.ledger[u]) => Waited(db.ledger[u]) /\ Waited(kept.ledger[u])
         /\ Room(Seen.ledger[u]) => Room(db.ledger[u]) /\ Room(kept.ledger[u])
<1>0. u \in Holders /\ kept.ledger[u] \in Seq(Entries) /\ db.ledger[u] \in Seq(Entries)
  BY AtStage, InvTyped
<1>1. CASE open = 0
  <2>1. kept.ledger[u] = <<>> /\ Seen = db
    BY <1>0, <1>1, BlankTyped DEF LedgerInv, OneOpen, Seen
  <2> QED
    BY <2>1, NoRows
<1>2. CASE open # 0 /\ local
  <2>1. Seen = db /\ RowsOf(db.ledger[u], "ad") = RowsOf(kept.ledger[u], "ad")
    BY <1>2 DEF Seen, Uncommitted
  <2> DEFINE d == db.ledger[u]
             k == kept.ledger[u]
  <2>2. /\ DOMAIN RowsOf(d, "ad") = DOMAIN RowsOf(k, "ad")
        /\ \A n \in DOMAIN RowsOf(d, "ad") : d[n] = k[n]
    <3>1. \A posts : \A n \in DOMAIN RowsOf(posts, "ad") : RowsOf(posts, "ad")[n] = posts[n]
      BY DEF RowsOf
    <3> QED
      BY <2>1, <3>1
  <2>3. Seen.ledger[u] = d
    BY <2>1
  <2> HIDE DEF d, k
  <2>4. Waited(d) => Waited(k)
    BY <2>2 DEF Waited
  <2>5. AdsOn(d, Today) = AdsOn(k, Today)
    BY <2>2 DEF AdsOn
  <2>6. Room(d) => Room(k)
    BY <2>5 DEF Room
  <2> QED
    BY <2>3, <2>4, <2>6 DEF d, k
<1>3. CASE open # 0 /\ ~local
  <2>1. Seen = kept
    BY <1>3 DEF Seen
  <2>2. AdsWithin(db.ledger[u], kept.ledger[u])
    <3>1. open \in DOMAIN asked /\ asked[open].at \in Running
      BY <1>3, AskedTyped DEF LedgerInv, OneOpen
    <3>2. open # i
      BY <3>1 DEF Running
    <3>3. ~(asked[open].op = "claim" /\ asked[open].user = u)
      BY <3>1, <3>2 DEF Overlaps, Running
    <3> QED
      BY <1>0, <1>3, <3>3 DEF LedgerInv, NothingHidden
  <2> DEFINE d == db.ledger[u]
             k == kept.ledger[u]
  <2>3. d \in Seq(Entries) /\ k \in Seq(Entries)
    BY <1>0
  <2>4. AdsWithin(d, k) /\ Seen.ledger[u] = k
    BY <2>1, <2>2
  <2> HIDE DEF d, k
  <2>5. Waited(k) => Waited(d)
    BY <2>4 DEF Waited, AdsWithin
  <2>6. AdsOn(d, Today) \subseteq AdsOn(k, Today)
    BY <2>4 DEF AdsOn, AdsWithin
  <2>7. AdsOn(k, Today) \subseteq DOMAIN RowsOf(k, "ad")
    BY DEF AdsOn
  <2>8. IsFiniteSet(DOMAIN RowsOf(k, "ad"))
    BY <2>3, RowsTyped
  <2> DEFINE A == AdsOn(d, Today)
             B == AdsOn(k, Today)
             c == Cardinality(A)
             e == Cardinality(B)
  <2>9. A \subseteq B /\ IsFiniteSet(B)
    BY <2>6, <2>7, <2>8, FS_Subset
  <2> HIDE DEF A, B
  <2>10. c \in Nat /\ e \in Nat /\ c <= e
    BY <2>9, FS_Subset, FS_CardinalityType
  <2> HIDE DEF c, e
  <2>11. e < AdCap => c < AdCap
    BY <2>10, Amounts
  <2>12. Room(k) => Room(d)
    BY <2>11 DEF Room, A, B, c, e
  <2> QED
    BY <2>4, <2>5, <2>12 DEF d, k
<1> QED
  BY <1>1, <1>2, <1>3

LEMMA NotRaced ==
  ASSUME LedgerInv, NEW i \in DOMAIN asked, asked[i].op = "claim", Races(i), asked[i].user \notin raced'
  PROVE  ~Overlaps(i) /\ ~Uncommitted(asked[i].user)
  BY DEF Races

LEMMA RequestClaims ==
  ASSUME LedgerInv, NEW i \in DOMAIN asked, Request(i)
  PROVE  ClaimsChecked'
<1>1. clock' = clock
  BY RequestGoes DEF Quiet
<1>2. raced \subseteq raced'
  BY RequestRaces
<1> DEFINE Then(j, u) == asked'[j].op = "claim" /\ asked'[j].user = u /\ asked'[j].at \notin {"check", "done"}
<1>3. \A j, u : Past(j, u)' <=> Then(j, u)
  BY DEF Past
<1> SUFFICES ASSUME NEW u \in Holders, u \notin raced'
             PROVE  /\ \A j, k \in DOMAIN asked : Then(j, u) /\ Then(k, u) => j = k
                    /\ \A j \in DOMAIN asked : Then(j, u) /\ asked'[j].at # "commit" =>
                         Waited(db'.ledger[u]) /\ Waited(kept'.ledger[u])
                    /\ \A j \in DOMAIN asked : Then(j, u) /\ asked'[j].at \notin {"cap", "commit"} =>
                         Room(db'.ledger[u]) /\ Room(kept'.ledger[u])
  <2>1. ASSUME NEW posts PROVE (Waited(posts)' <=> Waited(posts)) /\ (Room(posts)' <=> Room(posts))
    BY <1>1 DEF Waited, Room, Today
  <2> SUFFICES ASSUME NEW u \in Holders, u \notin raced'
               PROVE  /\ \A j, k \in DOMAIN asked' : Past(j, u)' /\ Past(k, u)' => j = k
                      /\ \A j \in DOMAIN asked' : Past(j, u)' /\ asked'[j].at # "commit" =>
                           Waited(db.ledger[u])' /\ Waited(kept.ledger[u])'
                      /\ \A j \in DOMAIN asked' : Past(j, u)' /\ asked'[j].at \notin {"cap", "commit"} =>
                           Room(db.ledger[u])' /\ Room(kept.ledger[u])'
    BY DEF ClaimsChecked
  <2>2. /\ \A j, k \in DOMAIN asked : Then(j, u) /\ Then(k, u) => j = k
        /\ \A j \in DOMAIN asked : Then(j, u) /\ asked'[j].at # "commit" =>
             Waited(db'.ledger[u]) /\ Waited(kept'.ledger[u])
        /\ \A j \in DOMAIN asked : Then(j, u) /\ asked'[j].at \notin {"cap", "commit"} =>
             Room(db'.ledger[u]) /\ Room(kept'.ledger[u])
    OBVIOUS
  <2>3. DOMAIN asked' = DOMAIN asked
    BY RequestMoves
  <2>4. PICK posts, rows : posts = db'.ledger[u] /\ rows = kept'.ledger[u]
    OBVIOUS
  <2> HIDE DEF Then
  <2>5. /\ Waited(db.ledger[u])' <=> Waited(posts)'
        /\ Waited(kept.ledger[u])' <=> Waited(rows)'
        /\ Room(db.ledger[u])' <=> Room(posts)'
        /\ Room(kept.ledger[u])' <=> Room(rows)'
    BY <2>4 DEF Waited, Room, AdsOn, RowsOf
  <2> QED
    BY <1>3, <2>1, <2>2, <2>3, <2>4, <2>5
<1>4. u \notin raced
  BY <1>2
<1>5. /\ \A j, k \in DOMAIN asked : Past(j, u) /\ Past(k, u) => j = k
      /\ \A j \in DOMAIN asked : Past(j, u) /\ asked[j].at # "commit" =>
           Waited(db.ledger[u]) /\ Waited(kept.ledger[u])
      /\ \A j \in DOMAIN asked : Past(j, u) /\ asked[j].at \notin {"cap", "commit"} =>
           Room(db.ledger[u]) /\ Room(kept.ledger[u])
  BY <1>4 DEF LedgerInv, ClaimsChecked
<1>6. \A j \in DOMAIN asked : j # i => asked'[j] = asked[j] /\ (Then(j, u) <=> Past(j, u))
  BY RequestMoves DEF Past
<1>7. Then(i, u) => \/ Past(i, u) /\ asked[i].at # "commit"
                    \/ /\ ChecksFirst(i) /\ asked'[i].at = "cap" /\ asked[i].at = "check"
                       /\ asked[i].op = "claim" /\ asked[i].user = u /\ Waited(Seen.ledger[u])
  BY RequestMoves DEF Past
<1>8. Then(i, u) /\ asked'[i].at # "cap" =>
        \/ Past(i, u) /\ asked[i].at \notin {"cap", "commit"}
        \/ ChecksCap(i) /\ asked[i].at = "cap" /\ asked[i].op = "claim" /\ asked[i].user = u
           /\ Room(Seen.ledger[u]) /\ Past(i, u)
  BY RequestMoves DEF Past
<1> DEFINE Pays == asked[i].op = "claim" /\ asked[i].user = u /\ SecondStatement(i)
<1>9. Pays => Past(i, u) /\ asked'[i].at = "commit" /\ \A j \in DOMAIN asked : Then(j, u) => j = i
  <2>1. Pays => asked[i].at = "rest" /\ asked'[i].at = "commit"
    BY RequestMoves
  <2> QED
    BY <1>5, <1>6, <2>1 DEF Past
<1>10. ASSUME ~Pays
       PROVE  /\ Waited(db.ledger[u]) /\ Waited(kept.ledger[u]) =>
                   Waited(db'.ledger[u]) /\ Waited(kept'.ledger[u])
              /\ Room(db.ledger[u]) /\ Room(kept.ledger[u]) =>
                   Room(db'.ledger[u]) /\ Room(kept'.ledger[u])
  BY <1>10, FoundThen
<1>11. ChecksFirst(i) \/ ChecksCap(i) => Races(i) /\ db' = db /\ kept' = kept /\ ~Pays
  BY ChecksFirstGoes, ChecksCapGoes, SecondStatementGoes
<1> HIDE DEF Then, Pays
<1>12. \A j, k \in DOMAIN asked : Then(j, u) /\ Then(k, u) => j = k
  <2>1. CASE ~(ChecksFirst(i) /\ asked[i].op = "claim" /\ asked[i].user = u)
    BY <1>5, <1>6, <1>7, <2>1
  <2>2. CASE ChecksFirst(i) /\ asked[i].op = "claim" /\ asked[i].user = u
    <3>1. ~Overlaps(i)
      BY <1>11, <2>2, NotRaced
    <3>2. \A j \in DOMAIN asked : j # i => ~Past(j, u)
      BY <2>2, <3>1 DEF Overlaps, Past
    <3> QED
      BY <1>6, <3>2
  <2> QED
    BY <2>1, <2>2
<1>13. ASSUME NEW j \in DOMAIN asked, Then(j, u), asked'[j].at # "commit"
       PROVE  Waited(db'.ledger[u]) /\ Waited(kept'.ledger[u])
  <2>1. ~Pays
    BY <1>9, <1>13
  <2>2. CASE Past(j, u) /\ asked[j].at # "commit"
    BY <1>5, <1>10, <2>1, <2>2
  <2>3. CASE j = i /\ ChecksFirst(i) /\ asked[i].at = "check" /\ asked[i].op = "claim" /\ asked[i].user = u
             /\ Waited(Seen.ledger[u])
    <3>1. ~Overlaps(i) /\ ~Uncommitted(u)
      BY <1>11, <2>3, NotRaced
    <3>2. Waited(db.ledger[u]) /\ Waited(kept.ledger[u])
      BY <2>3, <3>1, SeenIsSo
    <3> QED
      BY <1>11, <2>3, <3>2
  <2> QED
    BY <1>6, <1>7, <1>13, <2>2, <2>3
<1>14. ASSUME NEW j \in DOMAIN asked, Then(j, u), asked'[j].at \notin {"cap", "commit"}
       PROVE  Room(db'.ledger[u]) /\ Room(kept'.ledger[u])
  <2>1. ~Pays
    BY <1>9, <1>14
  <2>2. CASE Past(j, u) /\ asked[j].at \notin {"cap", "commit"}
    BY <1>5, <1>10, <2>1, <2>2
  <2>3. CASE j = i /\ ChecksCap(i) /\ asked[i].at = "cap" /\ asked[i].op = "claim" /\ asked[i].user = u
             /\ Room(Seen.ledger[u])
    <3>1. ~Overlaps(i) /\ ~Uncommitted(u)
      BY <1>11, <2>3, NotRaced
    <3>2. Room(db.ledger[u]) /\ Room(kept.ledger[u])
      BY <2>3, <3>1, SeenIsSo
    <3> QED
      BY <1>11, <2>3, <3>2
  <2> QED
    BY <1>6, <1>8, <1>14, <2>2, <2>3
<1> QED
  BY <1>12, <1>13, <1>14

LEMMA RequestHides ==
  ASSUME LedgerInv, NEW i \in DOMAIN asked, Request(i)
  PROVE  NothingHidden'
<1>1. local' = local
  BY RequestGoes DEF Quiet
<1>2. PICK op, stage : Goes(i, op, stage)
  BY RequestGoes
<1> SUFFICES ASSUME open' # 0, ~local, NEW u \in Holders,
                    ~(asked'[open'].op = "claim" /\ asked'[open'].user = u)
             PROVE  AdsWithin(db'.ledger[u], kept'.ledger[u])
  BY <1>1 DEF NothingHidden, AdsWithin, RowsOf
<1>3. CASE open = 0 /\ open' = i /\ kept' = db /\ db' = db /\ stage = "first"
  BY <1>3 DEF AdsWithin
<1>4. CASE open' = open /\ kept' = kept
  <2>1. open \in DOMAIN asked
    BY <1>4, AskedTyped DEF LedgerInv
  <2>2. ~(asked[open].op = "claim" /\ asked[open].user = u)
    <3>1. asked'[open].user = asked[open].user /\ (asked[open].op = "claim" => asked'[open].op = "claim")
      BY <1>2, <2>1 DEF Goes, AskGoes
    <3> QED
      BY <1>4, <3>1
  <2>3. AdsWithin(db.ledger[u], kept.ledger[u])
    BY <1>4, <2>2 DEF LedgerInv, NothingHidden
  <2>4. ~(asked[i].op = "claim" /\ asked[i].user = u /\ SecondStatement(i))
    BY <2>2, RequestMoves
  <2>5. ~RollsBack
    BY <1>4 DEF RollsBack
  <2> QED
    BY <1>4, <2>3, <2>4, <2>5, FoundThen
<1> QED
  BY <1>2, <1>3, <1>4 DEF Goes

LEMMA RequestAnswers ==
  ASSUME LedgerInv, NEW i \in DOMAIN asked, Request(i)
  PROVE  AnswersWritten'
<1>1. promised' = promised /\ swept' = swept
  BY RequestGoes DEF Quiet
<1>2. PICK op, stage : Goes(i, op, stage)
  BY RequestGoes
<1>3. promised \ swept \subseteq db.other /\ (open # 0 => promised \ swept \subseteq kept.other)
  BY DEF LedgerInv, AnswersWritten
<1>4. i # 0
  BY AskedTyped DEF LedgerInv
<1>5. CASE RollsBack /\ open = i
  BY <1>1, <1>3, <1>4, <1>5 DEF RollsBack, AnswersWritten
<1>6. CASE db'.other = db.other
  <2>1. open' # 0 => promised \ swept \subseteq kept'.other
    BY <1>2, <1>3, <1>6 DEF Goes
  <2> QED
    BY <1>1, <1>3, <1>6, <2>1 DEF AnswersWritten
<1> QED
  BY <1>5, <1>6, RequestWrites DEF Beside

LEMMA RequestKeeps ==
  ASSUME LedgerInv, NEW i \in DOMAIN asked, Request(i)
  PROVE  LedgerInv'
  BY RequestTypes, RequestUnborn, RequestGrants, RequestBooks, RequestPaid, RequestClaims,
     RequestHides, RequestAnswers DEF LedgerInv, RequestsInv

-----------------------------------------------------------------------------
(* The rest of the steps. *)

LEMMA LedgerStarts == LedgerInit => LedgerInv
<1> SUFFICES ASSUME LedgerInit PROVE LedgerInv
  OBVIOUS
<1>1. /\ local \in BOOLEAN /\ up = FALSE /\ open = 0 /\ kept = Blank /\ asked = <<>>
      /\ clock = 0 /\ faults = 0 /\ crashes = 0 /\ promised = {} /\ swept = {} /\ raced = {}
      /\ db = [Blank EXCEPT !.accounts = Veterans]
  BY DEF LedgerInit
<1>2. /\ db \in Tables /\ db.accounts = Veterans /\ db.other = {}
      /\ \A v \in Holders : db.balance[v] = 0 /\ db.ledger[v] = <<>>
  <2> DEFINE L == [Holders -> Seq(Entries)]
  <2>1. Blank \in [accounts : SUBSET Holders, balance : [Holders -> Int], ledger : L,
                   other : SUBSET {1}, bared : SUBSET Holders]
    BY BlankTyped DEF Tables
  <2>2. Tables = [accounts : SUBSET Holders, balance : [Holders -> Int], ledger : L,
                  other : SUBSET {1}, bared : SUBSET Holders]
    BY DEF Tables
  <2>3. Veterans \subseteq Holders
    BY LedgerBounds
  <2> HIDE DEF L
  <2>4. /\ db \in Tables /\ db.accounts = Veterans /\ db.other = Blank.other
        /\ db.balance = Blank.balance /\ db.ledger = Blank.ledger
    BY <1>1, <2>1, <2>2, <2>3
  <2> QED
    BY <2>4, BlankTyped
<1>3. LedgerTypeOK
  <2>1. Len(asked) = 0 /\ asked \in Seq(Requests)
    BY <1>1
  <2>2. {MaxClock, MaxRequests, MaxFaults, MaxCrashes} \subseteq Nat
    BY LedgerBounds
  <2>3. db \in Tables /\ kept \in Tables
    BY <1>1, <1>2, BlankTyped
  <2>4. open \in 0 .. Len(asked) /\ Len(asked) <= MaxRequests
    BY <1>1, <2>1, <2>2
  <2>5. clock \in 0 .. MaxClock /\ faults \in 0 .. MaxFaults /\ crashes \in 0 .. MaxCrashes
    BY <1>1, <2>2
  <2>6. swept \subseteq promised /\ promised \subseteq {1} /\ raced \subseteq Holders
    BY <1>1
  <2>7. {local, up} \subseteq BOOLEAN
    BY <1>1
  <2> QED
    BY <2>1, <2>3, <2>4, <2>5, <2>6, <2>7 DEF LedgerTypeOK
<1>4. OneOpen /\ DownIsIdle /\ RequestsFit /\ SignedUpOnce /\ GrantToCome /\ ClaimsChecked
  BY <1>1 DEF OneOpen, DownIsIdle, RequestsFit, SignedUpOnce, GrantToCome, ClaimsChecked
<1>5. UnbornUnknown
  BY <1>1, <1>2, BlankTyped DEF UnbornUnknown, Unborn, Unknown
<1>6. BooksKept
  <2>1. \A u \in Holders : Ahead(u) = 0 /\ Due(u) = 0
    BY <1>1 DEF Ahead, Due, Halfway
  <2>2. Penalty * 0 = 0
    BY Amounts
  <2>3. \A u \in Holders : Balanced(db, u, 0, 0) /\ Balanced(kept, u, 0, 0)
    BY <1>1, <1>2, <2>2, BlankTyped, NoRows DEF Balanced
  <2> QED
    BY <2>1, <2>3 DEF BooksKept
<1>7. PaidSoFar
  BY <1>1, <1>2, BlankTyped, NoRows DEF PaidSoFar
<1>8. NothingHidden /\ AnswersWritten
  BY <1>1 DEF NothingHidden, AnswersWritten
<1> QED
  BY <1>3, <1>4, <1>5, <1>6, <1>7, <1>8 DEF LedgerInv

LEMMA ArrivesKeeps ==
  ASSUME LedgerInv, NEW kind \in Kinds, NEW u \in Holders, NEW to \in Holders, Arrives(kind, u, to)
  PROVE  LedgerInv'
<1> DEFINE stage == CASE kind = "signup" -> "create"
                      [] kind \in {"daily", "search", "delete"} -> "begin"
                      [] OTHER -> "check"
           r == [op |-> kind, user |-> u, to |-> to, at |-> stage]
<1>1. /\ asked' = Append(asked, r) /\ up /\ Len(asked) < MaxRequests
      /\ db' = db /\ open' = open /\ kept' = kept /\ faults' = faults /\ raced' = raced /\ Quiet
      /\ kind = "gift" <=> to # u
  BY DEF Arrives
<1>2. /\ local' = local /\ up' = up /\ clock' = clock /\ crashes' = crashes
      /\ promised' = promised /\ swept' = swept
  BY <1>1 DEF Quiet
<1>3. kind \in {"signup", "claim", "daily", "gift", "search", "adjust", "delete"}
  BY LedgerBounds
<1>4. /\ stage \in StagesOf(kind) /\ stage \in {"create", "begin", "check"}
      /\ stage = "create" <=> kind = "signup"
      /\ kind = "claim" => stage = "check"
      /\ kind = "gift" => stage = "check"
  BY <1>3 DEF StagesOf
<1>5. r \in Requests /\ r.op = kind /\ r.user = u /\ r.to = to /\ r.at = stage
  BY <1>4 DEF Requests, Stages
<1>6. asked \in Seq(Requests) /\ Len(asked) \in Nat /\ MaxRequests \in Nat
  BY LedgerBounds DEF LedgerInv, LedgerTypeOK
<1> HIDE DEF r, stage
<1>n. PICK n : n = Len(asked) + 1
  OBVIOUS
<1>7. /\ asked' \in Seq(Requests) /\ Len(asked') = n /\ asked'[n] = r
      /\ DOMAIN asked' = DOMAIN asked \cup {n} /\ n \notin DOMAIN asked /\ n # 0
      /\ \A j \in DOMAIN asked : asked'[j] = asked[j]
  BY <1>1, <1>5, <1>6, <1>n
<1>8. open \in 0 .. Len(asked) /\ (open # 0 => open \in DOMAIN asked) /\ open # n /\ n <= MaxRequests
  BY <1>1, <1>6, <1>n, AskedTyped DEF LedgerInv, LedgerTypeOK
<1>9. LedgerTypeOK'
  <2>1. open' \in 0 .. Len(asked') /\ Len(asked') <= MaxRequests
    BY <1>1, <1>6, <1>7, <1>8, <1>n
  <2>2. /\ {local, up} \subseteq BOOLEAN /\ {db, kept} \subseteq Tables
        /\ clock \in 0 .. MaxClock /\ faults \in 0 .. MaxFaults /\ crashes \in 0 .. MaxCrashes
        /\ swept \subseteq promised /\ promised \subseteq {1} /\ raced \subseteq Holders
    BY DEF LedgerInv, LedgerTypeOK
  <2> QED
    BY <1>1, <1>2, <1>7, <2>1, <2>2 DEF LedgerTypeOK
<1>10. OneOpen'
  BY <1>1, <1>4, <1>5, <1>7, <1>8 DEF LedgerInv, OneOpen, Running
<1>11. DownIsIdle'
  BY <1>1, <1>2 DEF DownIsIdle
<1>12. RequestsFit'
  BY <1>1, <1>4, <1>5, <1>7 DEF LedgerInv, RequestsFit
<1>13. kind = "signup" => /\ u \notin db.accounts \cup Veterans
                          /\ \A j \in DOMAIN asked : ~SignsUp(j, u)
  BY DEF Arrives, SignsUp
<1>a. ASSUME NEW v, NEW j \in DOMAIN asked
      PROVE  /\ SignsUp(j, v)' <=> SignsUp(j, v)
             /\ Past(j, v)' <=> Past(j, v)
  BY <1>7 DEF SignsUp, Past
<1>b. ASSUME NEW v
      PROVE  /\ SignsUp(n, v)' <=> (kind = "signup" /\ u = v)
             /\ ~Past(n, v)'
  <2>1. asked'[n].op = kind /\ asked'[n].user = u /\ asked'[n].at = stage
    BY <1>5, <1>7
  <2> QED
    BY <1>3, <1>4, <2>1 DEF SignsUp, Past
<1>14. /\ \A v : \A j \in DOMAIN asked : SignsUp(j, v)' <=> SignsUp(j, v)
       /\ \A v : SignsUp(n, v)' <=> (kind = "signup" /\ u = v)
  BY <1>a, <1>b
<1>15. SignedUpOnce'
  <2> SUFFICES ASSUME NEW v \in Holders
               PROVE  /\ \A j \in DOMAIN asked' : SignsUp(j, v)' => v \notin Veterans
                      /\ \A j, k \in DOMAIN asked' : SignsUp(j, v)' /\ SignsUp(k, v)' => j = k
    BY DEF SignedUpOnce
  <2>1. /\ \A j \in DOMAIN asked : SignsUp(j, v) => v \notin Veterans
        /\ \A j, k \in DOMAIN asked : SignsUp(j, v) /\ SignsUp(k, v) => j = k
    BY DEF LedgerInv, SignedUpOnce
  <2>2. SignsUp(n, v)' => v \notin Veterans /\ \A j \in DOMAIN asked : ~SignsUp(j, v)
    BY <1>13, <1>b
  <2> QED
    BY <1>7, <1>a, <2>1, <2>2
<1>16. \A v \in Holders : Unborn(v)' => Unborn(v)
  BY <1>7, <1>14 DEF Unborn
<1>17. UnbornUnknown'
  <2> SUFFICES ASSUME NEW v \in Holders, Unborn(v)'
               PROVE  /\ Unknown(db, v)' /\ Unknown(kept, v)'
                      /\ \A j \in DOMAIN asked' :
                           /\ asked'[j].user = v => SignsUp(j, v)'
                           /\ asked'[j].to = v => SignsUp(j, v)' \/ asked'[j].at \in {"check", "done"}
    BY DEF UnbornUnknown
  <2>1. /\ Unknown(db, v) /\ Unknown(kept, v)
        /\ \A j \in DOMAIN asked :
             /\ asked[j].user = v => SignsUp(j, v)
             /\ asked[j].to = v => SignsUp(j, v) \/ asked[j].at \in {"check", "done"}
    BY <1>16 DEF LedgerInv, UnbornUnknown
  <2>2. Unknown(db, v)' /\ Unknown(kept, v)'
    BY <1>1, <2>1 DEF Unknown
  <2>3. kind # "signup" => u \in Seen.accounts
    BY DEF Arrives
  <2>4. u = v => kind = "signup"
    BY <2>1, <2>3 DEF Seen, Unknown
  <2>5. to = v => (kind = "signup" /\ u = v) \/ stage = "check"
    BY <1>1, <1>4, <2>4
  <2>6. \A j \in DOMAIN asked : /\ asked'[j].user = v => SignsUp(j, v)'
                                /\ asked'[j].to = v => SignsUp(j, v)' \/ asked'[j].at \in {"check", "done"}
    BY <1>7, <1>a, <2>1
  <2>7. /\ asked'[n].user = v => SignsUp(n, v)'
        /\ asked'[n].to = v => SignsUp(n, v)' \/ asked'[n].at \in {"check", "done"}
    BY <1>5, <1>7, <1>b, <2>4, <2>5
  <2>8. \A j \in DOMAIN asked' : /\ asked'[j].user = v => SignsUp(j, v)'
                                 /\ asked'[j].to = v => SignsUp(j, v)' \/ asked'[j].at \in {"check", "done"}
    <3> SUFFICES ASSUME NEW j \in DOMAIN asked'
                 PROVE  /\ asked'[j].user = v => SignsUp(j, v)'
                        /\ asked'[j].to = v => SignsUp(j, v)' \/ asked'[j].at \in {"check", "done"}
      OBVIOUS
    <3>1. CASE j = n
      BY <2>7, <3>1
    <3>2. CASE j \in DOMAIN asked
      BY <2>6, <3>2 DEF SignsUp
    <3> QED
      BY <1>7, <3>1, <3>2
  <2> QED
    BY <2>2, <2>8 DEF SignsUp
<1>18. GrantToCome'
  <2> SUFFICES ASSUME NEW j \in DOMAIN asked', asked'[j].op = "signup",
                      asked'[j].at \in {"create", "begin", "first", "rest"}
               PROVE  /\ DOMAIN RowsOf(db'.ledger[asked'[j].user], "signup") = {}
                      /\ DOMAIN RowsOf(kept'.ledger[asked'[j].user], "signup") = {}
    BY DEF GrantToCome, RowsOf
  <2>1. CASE j \in DOMAIN asked
    BY <1>1, <1>7, <2>1 DEF LedgerInv, GrantToCome
  <2>2. CASE j = n
    <3>1. kind = "signup" /\ asked'[j].user = u
      BY <1>5, <1>7, <2>2
    <3>2. Unborn(u)
      BY <1>13, <3>1 DEF Unborn
    <3>3. db.ledger[u] = <<>> /\ kept.ledger[u] = <<>>
      BY <3>2 DEF LedgerInv, UnbornUnknown, Unknown
    <3> QED
      BY <1>1, <3>1, <3>3, NoRows
  <2> QED
    BY <1>7, <2>1, <2>2
<1>19. BooksKept'
  <2>1. \A v : Ahead(v)' = Ahead(v) /\ Due(v)' = Due(v)
    BY <1>1, <1>7, <1>8 DEF Ahead, Due, Halfway, Daily
  <2> QED
    BY <1>1, <2>1 DEF LedgerInv, BooksKept, Balanced
<1>20. PaidSoFar'
  BY <1>1, <1>2 DEF LedgerInv, PaidSoFar, Owed, Dated, Capped, AdsCapped, Today
<1>22. ClaimsChecked'
  <2> SUFFICES ASSUME NEW v \in Holders, v \notin raced
               PROVE  /\ \A j, k \in DOMAIN asked' : Past(j, v)' /\ Past(k, v)' => j = k
                      /\ \A j \in DOMAIN asked' : Past(j, v)' /\ asked'[j].at # "commit" =>
                           Waited(db.ledger[v])' /\ Waited(kept.ledger[v])'
                      /\ \A j \in DOMAIN asked' : Past(j, v)' /\ asked'[j].at \notin {"cap", "commit"} =>
                           Room(db.ledger[v])' /\ Room(kept.ledger[v])'
    BY <1>1 DEF ClaimsChecked
  <2>1. /\ \A j, k \in DOMAIN asked : Past(j, v) /\ Past(k, v) => j = k
        /\ \A j \in DOMAIN asked : Past(j, v) /\ asked[j].at # "commit" =>
             Waited(db.ledger[v]) /\ Waited(kept.ledger[v])
        /\ \A j \in DOMAIN asked : Past(j, v) /\ asked[j].at \notin {"cap", "commit"} =>
             Room(db.ledger[v]) /\ Room(kept.ledger[v])
    BY DEF LedgerInv, ClaimsChecked
  <2>2. /\ Waited(db.ledger[v])' <=> Waited(db.ledger[v])
        /\ Waited(kept.ledger[v])' <=> Waited(kept.ledger[v])
        /\ Room(db.ledger[v])' <=> Room(db.ledger[v])
        /\ Room(kept.ledger[v])' <=> Room(kept.ledger[v])
    BY <1>1, <1>2 DEF Waited, Room, Today
  <2>3. \A j \in DOMAIN asked' : Past(j, v)' => j \in DOMAIN asked /\ Past(j, v) /\ asked'[j] = asked[j]
    BY <1>7, <1>a, <1>b
  <2> QED
    BY <2>1, <2>2, <2>3
<1>23. NothingHidden'
  BY <1>1, <1>2, <1>7, <1>8 DEF LedgerInv, NothingHidden
<1>24. AnswersWritten'
  BY <1>1, <1>2 DEF LedgerInv, AnswersWritten
<1> QED
  BY <1>9, <1>10, <1>11, <1>12, <1>15, <1>17, <1>18, <1>19, <1>20, <1>22, <1>23, <1>24 DEF LedgerInv

\* a step that leaves requests, transaction and everybody's points alone
LEMMA PointsStay ==
  ASSUME LedgerInv, LedgerTypeOK', DownIsIdle', AnswersWritten',
         local' = local, open' = open, kept' = kept, asked' = asked, clock' = clock, raced' = raced,
         db'.accounts = db.accounts, db'.balance = db.balance, db'.ledger = db.ledger,
         db'.bared = db.bared
  PROVE  LedgerInv'
<1>1. OneOpen' /\ RequestsFit' /\ SignedUpOnce'
  BY DEF LedgerInv, OneOpen, RequestsFit, SignedUpOnce, SignsUp
<1>2. UnbornUnknown'
  BY DEF LedgerInv, UnbornUnknown, Unborn, Unknown, SignsUp
<1>3. GrantToCome'
  BY DEF LedgerInv, GrantToCome
<1>4. BooksKept'
  <2>1. \A u : Ahead(u)' = Ahead(u) /\ Due(u)' = Due(u)
    BY DEF Ahead, Due, Halfway
  <2> QED
    BY <2>1 DEF LedgerInv, BooksKept, Balanced
<1>5. PaidSoFar'
  BY DEF LedgerInv, PaidSoFar, Owed, Dated, Capped, AdsCapped, Today
<1>6. ClaimsChecked'
  BY DEF LedgerInv, ClaimsChecked, Past, Waited, Room, Today
<1>7. NothingHidden'
  BY DEF LedgerInv, NothingHidden
<1> QED
  BY <1>1, <1>2, <1>3, <1>4, <1>5, <1>6, <1>7 DEF LedgerInv

LEMMA OtherWritesKeeps ==
  ASSUME LedgerInv, OtherWrites
  PROVE  LedgerInv'
<1> DEFINE g == db.other \cup {1}
<1>1. /\ db' = [db EXCEPT !.other = g] /\ promised' = {1} /\ (open = 0 => swept' = {})
      /\ (open # 0 => swept' = {1})
      /\ local' = local /\ up' = up /\ open' = open /\ kept' = kept /\ asked' = asked
      /\ clock' = clock /\ faults' = faults /\ crashes' = crashes /\ raced' = raced
  BY DEF OtherWrites
<1>2. /\ db' \in Tables /\ db'.accounts = db.accounts /\ db'.balance = db.balance
      /\ db'.ledger = db.ledger /\ db'.bared = db.bared /\ db'.other = g
  <2> DEFINE L == [Holders -> Seq(Entries)]
  <2>1. /\ db \in [accounts : SUBSET Holders, balance : [Holders -> Int], ledger : L,
                   other : SUBSET {1}, bared : SUBSET Holders]
        /\ g \in SUBSET {1}
    BY InvTyped DEF Tables
  <2>2. Tables = [accounts : SUBSET Holders, balance : [Holders -> Int], ledger : L,
                  other : SUBSET {1}, bared : SUBSET Holders]
    BY DEF Tables
  <2> HIDE DEF L, g
  <2> QED
    BY <1>1, <2>1, <2>2
<1>3. LedgerTypeOK'
  <2>1. swept' \subseteq promised' /\ promised' \subseteq {1}
    BY <1>1
  <2> QED
    BY <1>1, <1>2, <2>1 DEF LedgerInv, LedgerTypeOK
<1>4. DownIsIdle'
  BY <1>1 DEF LedgerInv, DownIsIdle
<1>5. AnswersWritten'
  BY <1>1, <1>2 DEF AnswersWritten
<1> QED
  BY <1>1, <1>2, <1>3, <1>4, <1>5, PointsStay

LEMMA BootKeeps ==
  ASSUME LedgerInv, Boot
  PROVE  LedgerInv'
<1>1. /\ up' = TRUE
      /\ local' = local /\ db' = db /\ open' = open /\ kept' = kept /\ asked' = asked
      /\ clock' = clock /\ faults' = faults /\ crashes' = crashes /\ raced' = raced
      /\ promised' = promised /\ swept' = swept
  BY DEF Boot
<1>2. LedgerTypeOK' /\ DownIsIdle' /\ AnswersWritten'
  BY <1>1 DEF LedgerInv, LedgerTypeOK, DownIsIdle, AnswersWritten
<1> QED
  BY <1>1, <1>2, PointsStay

LEMMA LedgerStutters ==
  ASSUME LedgerInv, UNCHANGED ledgerVars
  PROVE  LedgerInv'
<1>1. /\ up' = up
      /\ local' = local /\ db' = db /\ open' = open /\ kept' = kept /\ asked' = asked
      /\ clock' = clock /\ faults' = faults /\ crashes' = crashes /\ raced' = raced
      /\ promised' = promised /\ swept' = swept
  BY DEF ledgerVars
<1>2. LedgerTypeOK' /\ DownIsIdle' /\ AnswersWritten'
  BY <1>1 DEF LedgerInv, LedgerTypeOK, DownIsIdle, AnswersWritten
<1> QED
  BY <1>1, <1>2, PointsStay

LEMMA TickKeeps ==
  ASSUME LedgerInv, Tick
  PROVE  LedgerInv'
<1>1. /\ clock < MaxClock /\ clock' = clock + 1
      /\ up' = up
      /\ local' = local /\ db' = db /\ open' = open /\ kept' = kept /\ asked' = asked
      /\ faults' = faults /\ crashes' = crashes /\ raced' = raced
      /\ promised' = promised /\ swept' = swept
  BY DEF Tick
<1>2. LedgerTypeOK'
  <2>1. clock' \in 0 .. MaxClock
    BY ONLY <1>1, LedgerInv, CountersTyped
  <2>2. LedgerTypeOK
    BY DEF LedgerInv
  <2> QED
    BY ONLY <1>1, <2>1, <2>2 DEF LedgerTypeOK
<1>3. OneOpen' /\ DownIsIdle' /\ RequestsFit' /\ SignedUpOnce'
  BY <1>1 DEF LedgerInv, OneOpen, DownIsIdle, RequestsFit, SignedUpOnce, SignsUp
<1>4. UnbornUnknown'
  BY <1>1 DEF LedgerInv, UnbornUnknown, Unborn, Unknown, SignsUp
<1>5. GrantToCome' /\ NothingHidden' /\ AnswersWritten'
  BY <1>1 DEF LedgerInv, GrantToCome, NothingHidden, AnswersWritten
<1>6. BooksKept'
  <2>1. \A u : Ahead(u)' = Ahead(u) /\ Due(u)' = Due(u)
    BY <1>1 DEF Ahead, Due, Halfway
  <2> QED
    BY <1>1, <2>1 DEF LedgerInv, BooksKept, Balanced
<1>7. ASSUME NEW posts \in Seq(Entries), Owed(posts)
      PROVE  /\ Owed(posts)'
             /\ Capped(posts) => Capped(posts)'
             /\ Waited(posts) => Waited(posts)'
             /\ Room(posts) => Room(posts)'
  BY <1>1, <1>7, Ticks, InvTyped
<1>8. ASSUME NEW u \in Holders
      PROVE  /\ Owed(db.ledger[u])' /\ Owed(kept.ledger[u])'
             /\ Capped(db.ledger[u]) => Capped(db.ledger[u])'
             /\ Capped(kept.ledger[u]) => Capped(kept.ledger[u])'
             /\ Waited(db.ledger[u]) => Waited(db.ledger[u])'
             /\ Waited(kept.ledger[u]) => Waited(kept.ledger[u])'
             /\ Room(db.ledger[u]) => Room(db.ledger[u])'
             /\ Room(kept.ledger[u]) => Room(kept.ledger[u])'
  <2>1. PICK posts, rows : posts = db.ledger[u] /\ rows = kept.ledger[u]
    OBVIOUS
  <2>2. posts \in Seq(Entries) /\ rows \in Seq(Entries)
    BY <2>1, InvTyped
  <2>3. Owed(posts) /\ Owed(rows)
    BY <2>1 DEF LedgerInv, PaidSoFar
  <2>4. /\ Owed(posts)'
        /\ Capped(posts) => Capped(posts)'
        /\ Waited(posts) => Waited(posts)'
        /\ Room(posts) => Room(posts)'
    BY <1>7, <2>2, <2>3
  <2>5. /\ Owed(rows)'
        /\ Capped(rows) => Capped(rows)'
        /\ Waited(rows) => Waited(rows)'
        /\ Room(rows) => Room(rows)'
    BY <1>7, <2>2, <2>3
  <2>6. posts = db'.ledger[u] /\ rows = kept'.ledger[u]
    BY <1>1, <2>1
  <2>7. /\ Owed(posts)' <=> Owed(db.ledger[u])'
        /\ Owed(rows)' <=> Owed(kept.ledger[u])'
    BY <2>6 DEF Owed, Dated, DailiesApart, GrantedOnce, RowsOf
  <2>8. /\ Capped(posts)' <=> Capped(db.ledger[u])'
        /\ Capped(rows)' <=> Capped(kept.ledger[u])'
    BY <2>6 DEF Capped, AdsApart, AdsCapped, AdsOn, RowsOf
  <2>9. /\ Waited(posts)' <=> Waited(db.ledger[u])'
        /\ Waited(rows)' <=> Waited(kept.ledger[u])'
        /\ Room(posts)' <=> Room(db.ledger[u])'
        /\ Room(rows)' <=> Room(kept.ledger[u])'
    BY <2>6 DEF Waited, Room, AdsOn, RowsOf
  <2> QED
    BY <2>1, <2>4, <2>5, <2>7, <2>8, <2>9
<1>9. PaidSoFar'
  BY <1>1, <1>8 DEF LedgerInv, PaidSoFar
<1>10. ClaimsChecked'
  BY <1>1, <1>8 DEF LedgerInv, ClaimsChecked, Past
<1> QED
  BY <1>2, <1>3, <1>4, <1>5, <1>6, <1>9, <1>10 DEF LedgerInv

\* with every request at its end only the tables are left to look at
LEMMA IdleIs ==
  ASSUME LedgerInv, LedgerTypeOK', DOMAIN asked' = DOMAIN asked, open' = 0, kept' = Blank,
         \A i \in DOMAIN asked : /\ asked'[i].at = "done" /\ asked'[i].op = asked[i].op
                                 /\ asked'[i].user = asked[i].user /\ asked'[i].to = asked[i].to,
         AnswersWritten',
         \A u \in Holders : /\ Unknown(db, u) /\ Unknown(kept, u) => Unknown(db', u)
                            /\ Balanced(db', u, 0, 0) /\ Owed(db'.ledger[u])
                            /\ u \notin raced => Capped(db'.ledger[u]),
         clock' = clock, raced' = raced
  PROVE  LedgerInv'
<1>1. OneOpen' /\ DownIsIdle' /\ GrantToCome' /\ ClaimsChecked' /\ NothingHidden'
  BY DEF OneOpen, DownIsIdle, GrantToCome, ClaimsChecked, NothingHidden, Past, Running
<1>2. RequestsFit'
  <2>1. \A i \in DOMAIN asked : "done" \in StagesOf(asked[i].op)
    BY AskedTyped DEF LedgerInv, StagesOf, LedgerOps
  <2> QED
    BY <2>1 DEF LedgerInv, RequestsFit
<1>3. SignedUpOnce'
  BY DEF LedgerInv, SignedUpOnce, SignsUp
<1>4. UnbornUnknown'
  <2> SUFFICES ASSUME NEW u \in Holders, Unborn(u)'
               PROVE  /\ Unknown(db, u)' /\ Unknown(kept, u)'
                      /\ \A j \in DOMAIN asked' :
                           /\ asked'[j].user = u => SignsUp(j, u)'
                           /\ asked'[j].to = u => SignsUp(j, u)' \/ asked'[j].at \in {"check", "done"}
    BY DEF UnbornUnknown
  <2>1. u \notin Veterans /\ \A j \in DOMAIN asked : ~SignsUp(j, u)
    BY DEF Unborn, SignsUp
  <2>2. Unborn(u)
    BY <2>1 DEF Unborn
  <2>3. Unknown(db, u) /\ Unknown(kept, u) /\ \A j \in DOMAIN asked : asked[j].user = u => SignsUp(j, u)
    BY <2>2 DEF LedgerInv, UnbornUnknown
  <2>4. Unknown(db, u)' /\ Unknown(kept, u)'
    BY <2>3, BlankTyped DEF Unknown
  <2> QED
    BY <2>1, <2>3, <2>4
<1>5. BooksKept'
  <2>1. \A u : Ahead(u)' = 0 /\ Due(u)' = 0
    BY DEF Ahead, Due, Halfway
  <2>2. \A u \in Holders : Balanced(Blank, u, 0, 0)
    BY BlankTyped DEF Balanced
  <2> QED
    BY <2>1, <2>2 DEF BooksKept, Balanced
<1>6. PaidSoFar'
  <2>1. ASSUME NEW posts
        PROVE  (Owed(posts)' <=> Owed(posts)) /\ (Capped(posts)' <=> Capped(posts))
    BY DEF Owed, Dated, DailiesApart, GrantedOnce, Capped, AdsApart, AdsCapped, Today
  <2> SUFFICES ASSUME NEW u \in Holders
               PROVE  /\ Owed(db.ledger[u])' /\ Owed(kept.ledger[u])'
                      /\ u \notin raced' => Capped(db.ledger[u])' /\ Capped(kept.ledger[u])'
    BY DEF PaidSoFar
  <2>2. PICK posts, rows : posts = db'.ledger[u] /\ rows = kept'.ledger[u]
    OBVIOUS
  <2>3. rows = <<>>
    BY <2>2, BlankTyped
  <2>4. /\ Owed(posts)' /\ Owed(rows)'
        /\ u \notin raced' => Capped(posts)' /\ Capped(rows)'
    BY <2>1, <2>2, <2>3, NoRows
  <2> QED
    BY <2>2, <2>4 DEF Owed, Dated, DailiesApart, GrantedOnce, Capped, AdsApart, AdsCapped, AdsOn, RowsOf
<1> QED
  BY <1>1, <1>2, <1>3, <1>4, <1>5, <1>6 DEF LedgerInv

LEMMA CrashKeeps ==
  ASSUME LedgerInv, Crash
  PROVE  LedgerInv'
<1>1. /\ asked' = [i \in DOMAIN asked |-> [asked[i] EXCEPT !.at = "done"]]
      /\ open' = 0 /\ db' = (IF open # 0 THEN kept ELSE db) /\ kept' = Blank
      /\ up' = FALSE /\ crashes' = crashes + 1 /\ crashes < MaxCrashes
      /\ local' = local /\ clock' = clock /\ faults' = faults
      /\ promised' = promised /\ swept' = swept /\ raced' = raced
  BY DEF Crash
<1>2. asked \in Seq(Requests) /\ DOMAIN asked = 1 .. Len(asked) /\ Len(asked) \in Nat
  BY AskedTyped DEF LedgerInv, LedgerTypeOK
<1>3. \A i \in DOMAIN asked : /\ asked'[i] \in Requests
                              /\ asked'[i].at = "done" /\ asked'[i].op = asked[i].op
                              /\ asked'[i].user = asked[i].user /\ asked'[i].to = asked[i].to
  <2> SUFFICES ASSUME NEW i \in DOMAIN asked
               PROVE  /\ asked'[i] \in Requests
                      /\ asked'[i].at = "done" /\ asked'[i].op = asked[i].op
                      /\ asked'[i].user = asked[i].user /\ asked'[i].to = asked[i].to
    OBVIOUS
  <2>1. asked[i] \in Requests
    BY <1>2
  <2>2. asked'[i] = [asked[i] EXCEPT !.at = "done"]
    BY <1>1
  <2> QED
    BY <2>1, <2>2 DEF Requests, Stages
<1>4. asked' \in Seq(Requests) /\ Len(asked') = Len(asked) /\ DOMAIN asked' = DOMAIN asked
  <2>1. DOMAIN asked' = 1 .. Len(asked)
    BY <1>1, <1>2
  <2>2. \A k \in 1 .. Len(asked) : asked'[k] \in Requests
    BY <1>2, <1>3
  <2>3. asked' = [k \in 1 .. Len(asked) |-> asked'[k]]
    BY <1>1, <1>2, <2>1
  <2>4. asked' \in [1 .. Len(asked) -> Requests]
    BY <2>2, <2>3
  <2> QED
    BY <1>2, <2>1, <2>4
<1>5. db' \in Tables /\ kept' \in Tables /\ (db' = db \/ db' = kept)
  BY <1>1, InvTyped, BlankTyped
<1>6. LedgerTypeOK'
  <2>1. open' \in 0 .. Len(asked') /\ Len(asked') <= MaxRequests
    BY <1>1, <1>2, <1>4 DEF LedgerInv, LedgerTypeOK
  <2>2. crashes' \in 0 .. MaxCrashes
    BY ONLY <1>1, LedgerInv, CountersTyped
  <2>3. {local', up'} \subseteq BOOLEAN
    BY <1>1 DEF LedgerInv, LedgerTypeOK
  <2> QED
    BY <1>1, <1>4, <1>5, <2>1, <2>2, <2>3 DEF LedgerInv, LedgerTypeOK
<1>7. AnswersWritten'
  BY <1>1 DEF LedgerInv, AnswersWritten
<1>8. ASSUME NEW u \in Holders
      PROVE  /\ Unknown(db, u) /\ Unknown(kept, u) => Unknown(db', u)
             /\ Balanced(db', u, 0, 0) /\ Owed(db'.ledger[u])
             /\ u \notin raced => Capped(db'.ledger[u])
  <2>1. open = 0 => Ahead(u) = 0 /\ Due(u) = 0
    BY DEF Ahead, Due, Halfway
  <2>2. Balanced(db, u, Ahead(u), Due(u)) /\ Balanced(kept, u, 0, 0)
    BY DEF LedgerInv, BooksKept
  <2>3. Balanced(db', u, 0, 0)
    BY <1>1, <2>1, <2>2
  <2>4. Owed(db'.ledger[u]) /\ (u \notin raced => Capped(db'.ledger[u]))
    BY <1>5 DEF LedgerInv, PaidSoFar
  <2> QED
    BY <1>5, <2>3, <2>4
<1> QED
  BY <1>1, <1>3, <1>4, <1>6, <1>7, <1>8, IdleIs

LEMMA BackfillKeeps ==
  ASSUME LedgerInv, NEW u \in Holders, Backfill(u)
  PROVE  LedgerInv'
<1>1. /\ ~up /\ u \in db.accounts /\ DOMAIN RowsOf(db.ledger[u], "signup") = {}
      /\ db' = Posted(Credited(db, u, StartGrant), u, StartGrant, "signup")
      /\ local' = local /\ up' = up /\ open' = open /\ kept' = kept /\ asked' = asked
      /\ clock' = clock /\ faults' = faults /\ crashes' = crashes /\ raced' = raced
      /\ promised' = promised /\ swept' = swept
  BY DEF Backfill, Ungranted
<1>2. open = 0 /\ kept = Blank /\ \A i \in DOMAIN asked : asked[i].at = "done"
  BY <1>1 DEF LedgerInv, DownIsIdle, OneOpen
<1>3. PICK t, g, a, s, e : /\ t = db /\ g = StartGrant /\ a = Credited(t, u, g)
                           /\ s = Posted(a, u, g, "signup") /\ e = Entry(g, "signup")
  OBVIOUS
<1>4. t \in Tables
  BY <1>3, InvTyped
<1>5. g \in Int
  BY <1>3, Amounts
<1>6. a = Credited(t, u, g)
  BY <1>3
<1>7. s = Posted(a, u, g, "signup")
  BY <1>3
<1>8. "signup" \in Reasons
  BY DEF Reasons
<1>9. clock \in Nat
  BY InvTyped
<1>10. /\ a \in Tables /\ a.accounts = t.accounts /\ a.bared = t.bared /\ a.other = t.other
       /\ a.ledger = t.ledger
       /\ u \in t.accounts => a.balance[u] = t.balance[u] + g
       /\ u \notin t.accounts => a.balance[u] = t.balance[u]
       /\ \A v \in Holders : v # u => a.balance[v] = t.balance[v] /\ Same(t, a, v)
  BY ONLY <1>4, <1>5, <1>6, u \in Holders, CreditedIs
<1>11. a \in Tables
  BY <1>10
<1>12. /\ s \in Tables /\ s.accounts = a.accounts /\ s.bared = a.bared /\ s.other = a.other
       /\ s.balance = a.balance
       /\ s.ledger[u] = Append(a.ledger[u], Entry(g, "signup"))
       /\ \A v \in Holders : v # u => s.ledger[v] = a.ledger[v] /\ Same(a, s, v)
  BY ONLY <1>5, <1>7, <1>8, <1>9, <1>11, u \in Holders, PostedIs
<1>13. db' = s /\ db = t
  BY <1>1, <1>3
<1>14. e \in Entries /\ e.at = clock /\ e.reason = "signup" /\ e.delta = g
  BY <1>3, <1>5, <1>8, <1>9, EntryTyped
<1>15. s.ledger[u] = Append(t.ledger[u], e)
  BY <1>3, <1>10, <1>12
<1>16. \A v \in Holders : v # u => Same(t, s, v)
  BY <1>10, <1>12 DEF Same
<1>17. LedgerTypeOK'
  BY <1>1, <1>12, <1>13 DEF LedgerInv, LedgerTypeOK
<1>18. AnswersWritten'
  BY <1>1, <1>10, <1>12, <1>13 DEF LedgerInv, AnswersWritten
<1>19. \A v \in Holders : Balanced(t, v, 0, 0)
  <2>1. \A v \in Holders : Ahead(v) = 0 /\ Due(v) = 0
    BY <1>2 DEF Ahead, Due, Halfway
  <2> QED
    BY <1>13, <2>1 DEF LedgerInv, BooksKept
<1>20. Balanced(s, u, 0, 0)
  <2>1. PICK z : z = 0
    OBVIOUS
  <2>2. z \in Int /\ z + g = z + e.delta
    BY <1>14, <2>1
  <2>3. Balanced(t, u, z, z)
    BY <1>19, <2>1
  <2>4. z <= g + z
    BY <1>3, <2>1, Amounts
  <2>5. s \in Tables
    BY <1>12
  <2>6. s.accounts = t.accounts
    BY <1>10, <1>12
  <2>7. s.bared = t.bared
    BY <1>10, <1>12
  <2>8. u \in t.accounts => s.balance[u] = t.balance[u] + g
    BY <1>10, <1>12
  <2>9. e \in Entries /\ e.reason # "admin"
    BY <1>14
  <2>10. Balanced(s, u, z, z)
    BY ONLY <1>4, <1>5, <1>15, <2>2, <2>3, <2>4, <2>5, <2>6, <2>7, <2>8, <2>9, u \in Holders, BookPosted
  <2> QED
    BY <2>1, <2>10
<1>21. Owed(s.ledger[u]) /\ (u \notin raced => Capped(s.ledger[u]))
  <2>1. PICK posts, more, n : posts = t.ledger[u] /\ more = s.ledger[u] /\ n = Len(posts) + 1
    OBVIOUS
  <2>2. posts \in Seq(Entries) /\ e \in Entries /\ more = Append(posts, e)
    BY <1>4, <1>14, <1>15, <2>1, TablesTyped
  <2>3. OneMore(posts, more, n, e)
    BY <2>1, <2>2, OneMoreRow
  <2>4. Owed(posts)
    BY <1>13, <2>1 DEF LedgerInv, PaidSoFar
  <2>5. e.at <= clock
    BY <1>9, <1>14
  <2>6. e.reason = "daily" => \A k \in DOMAIN RowsOf(posts, "daily") : DayOf(posts[k]) # DayOf(e)
    BY <1>14
  <2>7. e.reason = "signup" => DOMAIN RowsOf(posts, "signup") = {}
    BY <1>1, <1>13, <2>1
  <2>8. Owed(more)
    BY ONLY <2>3, <2>4, <2>5, <2>6, <2>7, OwedAdded
  <2>9. e.reason # "ad"
    BY <1>14
  <2>10. u \notin raced => Capped(posts)
    BY <1>13, <2>1 DEF LedgerInv, PaidSoFar
  <2>11. Capped(posts) => Capped(more)
    BY ONLY <2>3, <2>9, NoAdAdded
  <2> QED
    BY <2>1, <2>8, <2>10, <2>11
<1>22. ASSUME NEW v \in Holders
       PROVE  /\ Unknown(db, v) /\ Unknown(kept, v) => Unknown(db', v)
              /\ Balanced(db', v, 0, 0) /\ Owed(db'.ledger[v])
              /\ v \notin raced => Capped(db'.ledger[v])
  <2>1. CASE v = u
    BY <1>1, <1>13, <1>20, <1>21, <2>1 DEF Unknown
  <2>2. CASE v # u
    <3>1. Same(t, s, v) /\ Owed(t.ledger[v]) /\ (v \notin raced => Capped(t.ledger[v]))
      BY <1>13, <1>16, <2>2 DEF LedgerInv, PaidSoFar
    <3>2. Balanced(s, v, 0, 0)
      BY <1>19, <3>1 DEF Balanced, Same
    <3> QED
      BY <1>13, <3>1, <3>2 DEF Same, Unknown
  <2> QED
    BY <2>1, <2>2
<1> QED
  BY <1>1, <1>2, <1>17, <1>18, <1>22, IdleIs

\* Every step of the economy keeps the invariant.
LEMMA LedgerKeeps ==
  ASSUME LedgerInv, LedgerNext \/ UNCHANGED ledgerVars
  PROVE  LedgerInv'
  BY ArrivesKeeps, RequestKeeps, OtherWritesKeeps, TickKeeps, CrashKeeps, BootKeeps, BackfillKeeps,
     LedgerStutters DEF LedgerNext

\* What it means: the balances are what the audit trails say.
LEMMA LedgerMeans == LedgerInv => LedgerIsTrue
<1> SUFFICES ASSUME LedgerInv PROVE LedgerIsTrue
  OBVIOUS
<1>1. ASSUME open = 0, NEW u \in db.accounts \ db.bared
      PROVE  /\ db.balance[u] = TrailOf(db.ledger[u])
             /\ db.balance[u] + Penalty * Penalties(db.ledger[u]) >= 0
  <2>1. u \in Holders
    BY <1>1, InvTyped, TablesTyped
  <2>2. Ahead(u) = 0 /\ Due(u) = 0
    BY <1>1 DEF Ahead, Due, Halfway
  <2> DEFINE sum == TrailOf(db.ledger[u])
             p == Penalty * Penalties(db.ledger[u])
             b == db.balance[u]
  <2>3. b = sum + 0 /\ b + p + 0 >= 0
    BY <1>1, <2>1, <2>2 DEF LedgerInv, BooksKept, Balanced
  <2>4. sum \in Int /\ p \in Int /\ b \in Int
    BY <2>1, InvTyped, SumsTyped
  <2> HIDE DEF sum, p, b
  <2>5. b = sum /\ b + p >= 0
    BY <2>3, <2>4
  <2> QED
    BY <2>5 DEF sum, p, b
<1>2. TrailKept /\ GiftsCovered
  BY <1>1 DEF TrailKept, GiftsCovered
<1>3. PaidAsOwed
  BY DEF LedgerInv, PaidSoFar, Owed, Capped, PaidAsOwed
<1>4. AnswersKept
  BY DEF LedgerInv, AnswersWritten, AnswersKept
<1> QED
  BY <1>2, <1>3, <1>4 DEF LedgerIsTrue
=============================================================================
