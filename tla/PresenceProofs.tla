--------------------------- MODULE PresenceProofs ---------------------------
(***************************************************************************)
(* Presence, for every number of people, pages and connections, and every  *)
(* order in which tabs come and go and announcements arrive.               *)
(***************************************************************************)
EXTENDS Presence, TLAPS

-----------------------------------------------------------------------------
(* The invariant. *)

Task == [page : Pages, at : PresenceStages, known : BOOLEAN, ids : SUBSET People, rest : SUBSET People]

PresenceTypes ==
  /\ conns \in Seq(Task) /\ Len(conns) <= MaxConns
  /\ outbox \in Seq(Seq(Frame)) /\ Len(outbox) = Len(conns)
  /\ \A i \in Conn : Len(outbox[i]) <= Capacity
  /\ registered \subseteq linked /\ linked \subseteq Conn
  /\ attached \in [Pages -> 0 .. Len(conns)]
  /\ \A p \in Pages : attached[p] # 0 => conns[attached[p]].page = p
  /\ shownOn \in [Pages -> SUBSET People]
  /\ doubted \subseteq People /\ dropped \subseteq People

\* the registry knows a connection from its upgrade to its end, unless its outbox was full
Entered ==
  \A i \in Conn : /\ conns[i].at \in {"greet", "list", "tell", "read"} =>
                       i \in registered \/ UserOfConn(i) \in dropped
                  /\ conns[i].at = "remove" /\ i \in registered => conns[i].known
                  /\ conns[i].at \in {"check", "part", "bye", "gone"} => i \notin registered

\* an announcement begins with all the friends
ToTell == \A i \in Conn : conns[i].at = "list" => conns[i].rest = Befriended[UserOfConn(i)]

Certain(f) == f \notin doubted \cup dropped

\* what an announcement says that is under way is so
ListsAreTrue ==
  \A i \in Conn : conns[i].at = "list" =>
    \A f \in Befriended[UserOfConn(i)] : Certain(f) => (f \in conns[i].ids <=> IsOnline(f))
PartedIsOffline ==
  \A i \in Conn : conns[i].at \in {"part", "bye"} /\ Certain(UserOfConn(i)) => ~IsOnline(UserOfConn(i))

\* a page shows f once it has taken the frames of its outbox
About(frame, f) == frame.kind = "list" \/ frame.id = f
Says(frame, f) == IF frame.kind = "list" THEN f \in frame.ids ELSE frame.kind = "online"
WillShow(ids, box, f) ==
  \/ f \in ids /\ \A k \in DOMAIN box : ~About(box[k], f)
  \/ \E k \in DOMAIN box : /\ About(box[k], f) /\ Says(box[k], f)
                           /\ \A l \in DOMAIN box : l > k => ~About(box[l], f)

\* u is still to be told that f came, or went
TellsOnline(task, u) == task.at \in {"greet", "list"} \/ (task.at = "tell" /\ u \in task.rest)
TellsOffline(task, u) == task.at \in {"check", "part"} \/ (task.at = "bye" /\ u \in task.rest)
ToHearOnline(u, f) == \E j \in Conn : UserOfConn(j) = f /\ TellsOnline(conns[j], u)
ToHearOffline(u, f) == \E j \in Conn : UserOfConn(j) = f /\ TellsOffline(conns[j], u)
WillBeRight(p) ==
  LET i == attached[p]
      u == AccountOf[p]
  IN i # 0 /\ i \in registered /\ conns[i].at \notin {"greet", "list"} =>
       \A f \in Befriended[u] : Certain(f) =>
         /\ IsOnline(f) => WillShow(shownOn[p], outbox[i], f) \/ ToHearOnline(u, f)
         /\ WillShow(shownOn[p], outbox[i], f) => IsOnline(f) \/ ToHearOffline(u, f)

PresenceInv ==
  /\ PresenceTypes /\ Entered /\ ToTell /\ ListsAreTrue /\ PartedIsOffline
  /\ \A p \in Pages : WillBeRight(p)
-----------------------------------------------------------------------------
LEMMA PresenceStarts == PresenceInit => PresenceInv
<1> SUFFICES ASSUME PresenceInit PROVE PresenceInv
  OBVIOUS
<1>1. Conn = {} /\ Len(conns) = 0 /\ Len(outbox) = 0
  BY DEF PresenceInit, Conn
<1>2. PresenceTypes
  BY <1>1, PresenceBounds DEF PresenceInit, PresenceTypes, Conn
<1>3. Entered /\ ToTell /\ ListsAreTrue /\ PartedIsOffline
  BY <1>1 DEF Entered, ToTell, ListsAreTrue, PartedIsOffline
<1>4. \A p \in Pages : WillBeRight(p)
  BY DEF PresenceInit, WillBeRight
<1> QED BY <1>2, <1>3, <1>4 DEF PresenceInv

-----------------------------------------------------------------------------
(* What a page will show. *)

LEMMA FrameKinds ==
  ASSUME NEW frame \in Frame
  PROVE  /\ frame.kind \in {"list", "online", "offline"}
         /\ frame.kind = "list" => frame.ids \subseteq People
         /\ frame.kind # "list" => frame.id \in People
  BY DEF Frame

\* the last frame about f decides
LEMMA ShowAppended ==
  ASSUME NEW box \in Seq(Frame), NEW frame \in Frame, NEW ids, NEW f
  PROVE  /\ About(frame, f) => (WillShow(ids, Append(box, frame), f) <=> Says(frame, f))
         /\ ~About(frame, f) => (WillShow(ids, Append(box, frame), f) <=> WillShow(ids, box, f))
<1> DEFINE more == Append(box, frame)
           n == Len(box)
<1>1. /\ n \in Nat /\ DOMAIN box = 1 .. n /\ DOMAIN more = 1 .. n + 1
      /\ more[n + 1] = frame /\ \A k \in 1 .. n : more[k] = box[k]
  OBVIOUS
<1> HIDE DEF more, n
<1>2. ASSUME About(frame, f) PROVE WillShow(ids, more, f) <=> Says(frame, f)
  <2>1. n + 1 \in DOMAIN more /\ \A k \in DOMAIN more : k # n + 1 => n + 1 > k
    BY <1>1
  <2>2. \A l \in DOMAIN more : ~(l > n + 1)
    BY <1>1
  <2> QED BY <1>1, <1>2, <2>1, <2>2 DEF WillShow
<1>3. ASSUME ~About(frame, f) PROVE WillShow(ids, more, f) <=> WillShow(ids, box, f)
  <2>1. \A k \in DOMAIN more : About(more[k], f) <=> k \in DOMAIN box /\ About(box[k], f)
    BY <1>1, <1>3
  <2>2. \A k \in DOMAIN box : k \in DOMAIN more /\ more[k] = box[k]
    BY <1>1
  <2> QED BY <2>1, <2>2 DEF WillShow
<1> QED BY <1>2, <1>3 DEF more

\* taking a frame changes nothing about that
LEMMA ShowTaken ==
  ASSUME NEW box \in Seq(Frame), box # <<>>, NEW ids, NEW f
  PROVE  WillShow(Applied(ids, Head(box)), Tail(box), f) <=> WillShow(ids, box, f)
<1> DEFINE rest == Tail(box)
           n == Len(box)
           head == Head(box)
<1>1. /\ n \in Nat \ {0} /\ DOMAIN box = 1 .. n /\ DOMAIN rest = 1 .. n - 1
      /\ head = box[1] /\ \A k \in 1 .. n - 1 : rest[k] = box[k + 1]
      /\ head \in Frame
  OBVIOUS
<1> HIDE DEF rest, n, head
<1>2. f \in Applied(ids, head) <=> IF About(head, f) THEN Says(head, f) ELSE f \in ids
  BY <1>1, FrameKinds DEF Applied, About, Says
<1>3. \A k \in DOMAIN box : k # 1 => k - 1 \in DOMAIN rest /\ rest[k - 1] = box[k]
  BY <1>1
<1>4. \A k \in DOMAIN rest : k + 1 \in DOMAIN box /\ rest[k] = box[k + 1] /\ k + 1 # 1
  BY <1>1
<1>5. (\A k \in DOMAIN rest : ~About(rest[k], f)) <=> (\A k \in DOMAIN box : k # 1 => ~About(box[k], f))
  BY <1>3, <1>4
<1>6. 1 \in DOMAIN box /\ \A k \in DOMAIN box : k # 1 => k > 1 /\ ~(1 > k)
  BY <1>1
<1>7. (\E k \in DOMAIN rest : /\ About(rest[k], f) /\ Says(rest[k], f)
                              /\ \A l \in DOMAIN rest : l > k => ~About(rest[l], f))
      <=> (\E k \in DOMAIN box : /\ k # 1 /\ About(box[k], f) /\ Says(box[k], f)
                                 /\ \A l \in DOMAIN box : l > k => ~About(box[l], f))
  <2>1. ASSUME NEW k \in DOMAIN rest
        PROVE  (\A l \in DOMAIN rest : l > k => ~About(rest[l], f))
               <=> (\A l \in DOMAIN box : l > k + 1 => ~About(box[l], f))
    <3>1. ASSUME \A l \in DOMAIN rest : l > k => ~About(rest[l], f), NEW l \in DOMAIN box, l > k + 1
          PROVE  ~About(box[l], f)
      BY <1>1, <1>3, <3>1
    <3>2. ASSUME \A l \in DOMAIN box : l > k + 1 => ~About(box[l], f), NEW l \in DOMAIN rest, l > k
          PROVE  ~About(rest[l], f)
      BY <1>1, <1>4, <3>2
    <3> QED BY <3>1, <3>2
  <2>2. \A k \in DOMAIN box : k # 1 => k = (k - 1) + 1
    BY <1>1
  <2> QED BY <1>3, <1>4, <2>1, <2>2
<1> QED BY <1>1, <1>2, <1>5, <1>6, <1>7 DEF WillShow, rest, head

-----------------------------------------------------------------------------
(* A task takes a step. *)

Turns(i, t) ==
  /\ i \in Conn /\ t \in Task /\ t.page = conns[i].page
  /\ conns' \in Seq(Task) /\ Len(conns') = Len(conns) /\ DOMAIN conns' = DOMAIN conns
  /\ conns'[i] = t /\ \A j \in Conn : j # i => conns'[j] = conns[j]
  /\ \A j \in Conn : UserOfConn(j)' = UserOfConn(j)

LEMMA TaskTyped ==
  ASSUME PresenceInv, NEW i \in Conn
  PROVE  /\ conns[i] \in Task /\ i \in Nat \ {0} /\ i \in 1 .. Len(conns) /\ UserOfConn(i) \in People
         /\ Befriended[UserOfConn(i)] \subseteq People
<1>1. conns[i] \in Task /\ i \in Nat \ {0} /\ i \in 1 .. Len(conns)
  BY DEF PresenceInv, PresenceTypes, Conn
<1>2. conns[i].page \in Pages
  BY <1>1 DEF Task
<1> QED BY <1>1, <1>2, PresenceBounds DEF UserOfConn

LEMMA Turned ==
  ASSUME PresenceTypes, NEW i \in Conn, NEW t, t \in Task, t.page = conns[i].page,
         conns' = [conns EXCEPT ![i] = t]
  PROVE  Turns(i, t)
<1>1. /\ conns' \in Seq(Task) /\ Len(conns') = Len(conns) /\ DOMAIN conns' = DOMAIN conns
      /\ conns'[i] = t /\ \A j \in Conn : j # i => conns'[j] = conns[j]
  BY DEF PresenceTypes, Conn
<1> QED BY <1>1 DEF Turns, UserOfConn, Conn

\* what becomes of the registry while nobody connects
Shrinks ==
  /\ linked' \subseteq linked /\ registered' \subseteq registered \cap linked'
  /\ outbox' \in Seq(Seq(Frame)) /\ Len(outbox') = Len(outbox)
  /\ \A k \in Conn : Len(outbox'[k]) <= Capacity
  /\ attached' = attached /\ shownOn' = shownOn
  /\ doubted \subseteq doubted' /\ doubted' \subseteq People
  /\ dropped \subseteq dropped' /\ dropped' \subseteq People

Greeted == {"greet", "list", "tell", "read"}
Ended == {"check", "part", "bye", "gone"}

LEMMA TurnKeeps ==
  ASSUME PresenceInv, NEW i, NEW t, Turns(i, t), Shrinks,
         \A f : Certain(f)' => (IsOnline(f)' <=> IsOnline(f)) \/ ~Underway(f),
         \A k \in registered \ registered' : UserOfConn(k) \in dropped' \/ k = i,
         t.at \in Greeted => conns[i].at \in Greeted /\ (i \in registered => i \in registered' \/ UserOfConn(i) \in dropped'),
         t.at = "remove" /\ i \in registered' => t.known,
         t.at \in Ended => i \notin registered',
         t.at = "list" => /\ t.rest = Befriended[UserOfConn(i)]
                          /\ \A f \in Befriended[UserOfConn(i)] : Certain(f)' => (f \in t.ids <=> IsOnline(f)'),
         t.at \in {"part", "bye"} /\ Certain(UserOfConn(i))' => ~IsOnline(UserOfConn(i))'
  PROVE  PresenceTypes' /\ Entered' /\ ToTell' /\ ListsAreTrue' /\ PartedIsOffline'
<1>1. PresenceTypes'
  <2>1. \A p \in Pages : attached[p] # 0 => attached[p] \in Conn
    BY DEF PresenceInv, PresenceTypes, Conn
  <2>2. \A j \in Conn : conns'[j].page = conns[j].page
    BY DEF Turns, Conn
  <2> QED BY <2>1, <2>2 DEF PresenceInv, PresenceTypes, Turns, Shrinks, Conn
<1>2. Entered'
  <2> SUFFICES ASSUME NEW j \in Conn
               PROVE  /\ conns'[j].at \in Greeted => j \in registered' \/ UserOfConn(j) \in dropped'
                      /\ conns'[j].at = "remove" /\ j \in registered' => conns'[j].known
                      /\ conns'[j].at \in Ended => j \notin registered'
    BY DEF Entered, Turns, Greeted, Ended, Conn
  <2>1. CASE j = i
    BY <2>1 DEF PresenceInv, Entered, Turns, Shrinks, Greeted, Conn
  <2>2. CASE j # i
    BY <2>2 DEF PresenceInv, Entered, Turns, Shrinks, Greeted, Ended, Conn
  <2> QED BY <2>1, <2>2
<1>3. ToTell'
  BY DEF PresenceInv, ToTell, Turns, Conn
<1>4. \A f : Certain(f)' => Certain(f)
  BY DEF Certain, Shrinks
<1>5. ListsAreTrue'
  <2> SUFFICES ASSUME NEW j \in Conn, conns'[j].at = "list", NEW f \in Befriended[UserOfConn(j)], Certain(f)'
               PROVE  f \in conns'[j].ids <=> IsOnline(f)'
    BY DEF ListsAreTrue, Turns, Conn
  <2>1. CASE j = i
    BY <2>1 DEF Turns, Conn
  <2>2. CASE j # i
    <3>1. conns'[j] = conns[j] /\ Underway(f)
      BY <2>2 DEF Turns, Underway, Conn
    <3> QED BY <1>4, <3>1 DEF PresenceInv, ListsAreTrue
  <2> QED BY <2>1, <2>2
<1>6. PartedIsOffline'
  <2> SUFFICES ASSUME NEW j \in Conn, conns'[j].at \in {"part", "bye"}, Certain(UserOfConn(j))'
               PROVE  ~IsOnline(UserOfConn(j))'
    BY DEF PartedIsOffline, Turns, Conn
  <2>1. CASE j = i
    BY <2>1 DEF Turns, Conn
  <2>2. CASE j # i
    <3>1. PICK u : u = UserOfConn(j)
      OBVIOUS
    <3>2. u = UserOfConn(j)'
      BY <3>1 DEF Turns
    <3>3. conns'[j] = conns[j] /\ Underway(u)
      BY <2>2, <3>1 DEF Turns, Underway, Conn
    <3>4. Certain(u)' /\ Certain(u)
      BY <1>4, <3>2 DEF Certain
    <3>5. ~IsOnline(u)
      BY <3>1, <3>3, <3>4 DEF PresenceInv, PartedIsOffline
    <3>6. ~IsOnline(u)'
      BY <3>3, <3>4, <3>5
    <3> QED BY <3>2, <3>6 DEF IsOnline
  <2> QED BY <2>1, <2>2
<1> QED BY <1>1, <1>2, <1>3, <1>5, <1>6
-----------------------------------------------------------------------------
(* Pages. *)

\* the frames of a page and what it is told of f are as before
LEMMA RightAsBefore ==
  ASSUME PresenceInv, NEW p \in Pages, NEW i, NEW t, Turns(i, t), Shrinks,
         \A f : Certain(f)' => (IsOnline(f)' <=> IsOnline(f)),
         t.at \notin {"greet", "list"} => conns[i].at \notin {"greet", "list"} \/ attached[p] # i,
         attached[p] \in registered' => outbox'[attached[p]] = outbox[attached[p]],
         AccountOf[p] \in Befriended[UserOfConn(i)] =>
           /\ TellsOnline(conns[i], AccountOf[p]) => TellsOnline(t, AccountOf[p])
           /\ TellsOffline(conns[i], AccountOf[p]) => TellsOffline(t, AccountOf[p]) \/ IsOnline(UserOfConn(i))
  PROVE  WillBeRight(p)'
<1> DEFINE u == AccountOf[p]
           c == attached[p]
<1> SUFFICES ASSUME c # 0, c \in registered', conns'[c].at \notin {"greet", "list"},
                    NEW f \in Befriended[u], Certain(f)'
             PROVE  /\ IsOnline(f)' => WillShow(shownOn[p], outbox'[c], f) \/ ToHearOnline(u, f)'
                    /\ WillShow(shownOn[p], outbox'[c], f) => IsOnline(f)' \/ ToHearOffline(u, f)'
  BY DEF WillBeRight, Shrinks
<1>1. c \in registered /\ conns[c].at \notin {"greet", "list"} /\ outbox'[c] = outbox[c] /\ Certain(f)
  BY DEF PresenceInv, PresenceTypes, Turns, Shrinks, Certain, Conn
<1>2. /\ IsOnline(f) => WillShow(shownOn[p], outbox[c], f) \/ ToHearOnline(u, f)
      /\ WillShow(shownOn[p], outbox[c], f) => IsOnline(f) \/ ToHearOffline(u, f)
  BY <1>1 DEF PresenceInv, WillBeRight
<1>3. UserOfConn(i) = f => u \in Befriended[UserOfConn(i)]
  BY PresenceBounds DEF PresenceInv, PresenceTypes
<1>4. ToHearOnline(u, f) => ToHearOnline(u, f)'
  <2> SUFFICES ASSUME NEW j \in Conn, UserOfConn(j) = f, TellsOnline(conns[j], u)
               PROVE  TellsOnline(conns'[j], u)
    BY DEF ToHearOnline, Turns, Conn
  <2> QED BY <1>3 DEF Turns
<1>5. ToHearOffline(u, f) => ToHearOffline(u, f)' \/ IsOnline(f)
  <2> SUFFICES ASSUME NEW j \in Conn, UserOfConn(j) = f, TellsOffline(conns[j], u), ~IsOnline(f)
               PROVE  TellsOffline(conns'[j], u)
    BY DEF ToHearOffline, Turns, Conn
  <2> QED BY <1>3 DEF Turns
<1> QED BY <1>1, <1>2, <1>4, <1>5

\* steps of a task that push nothing
Still == UNCHANGED <<linked, registered, outbox, attached, shownOn, doubted, dropped>>

LEMMA StillShrinks ==
  ASSUME PresenceInv, NEW i, NEW t, Turns(i, t), Still
  PROVE  /\ Shrinks /\ registered' = registered
         /\ \A f : IsOnline(f)' <=> IsOnline(f)
<1>1. Shrinks
  BY DEF PresenceInv, PresenceTypes, Still, Shrinks, Conn
<1>2. \A k \in registered : UserOfConn(k)' = UserOfConn(k)
  BY DEF PresenceInv, PresenceTypes, Turns
<1> QED BY <1>1, <1>2 DEF IsOnline, Still

LEMMA FriendsReadKeeps ==
  ASSUME PresenceInv, NEW i \in Conn, FriendsRead(i)
  PROVE  PresenceInv'
<1> DEFINE friends == Befriended[UserOfConn(i)]
           t == [conns[i] EXCEPT !.at = IF friends = {} THEN "read" ELSE "list",
                                 !.ids = {f \in friends : IsOnline(f)}, !.rest = friends]
<1>1. conns[i] \in Task /\ conns[i].at = "greet" /\ UserOfConn(i) \in People /\ friends \subseteq People
  BY TaskTyped DEF FriendsRead, At
<1>2. /\ t \in Task /\ t.page = conns[i].page /\ t.at = IF friends = {} THEN "read" ELSE "list"
      /\ t.rest = friends /\ t.ids = {f \in friends : IsOnline(f)}
  BY <1>1 DEF Task, PresenceStages
<1>3. conns' = [conns EXCEPT ![i] = t]
  BY DEF FriendsRead
<1> HIDE DEF t
<1>4. Turns(i, t)
  BY <1>2, <1>3, Turned DEF PresenceInv
<1>5. Still
  BY DEF FriendsRead, Still
<1>6. /\ Shrinks /\ registered' = registered
      /\ \A f : IsOnline(f)' <=> IsOnline(f)
  BY <1>4, <1>5, StillShrinks
<1>7. PresenceTypes' /\ Entered' /\ ToTell' /\ ListsAreTrue' /\ PartedIsOffline'
  BY <1>1, <1>2, <1>4, <1>6, TurnKeeps DEF Greeted, Ended
<1>8. ASSUME NEW p \in Pages PROVE WillBeRight(p)'
  <2>1. CASE friends = {} /\ attached[p] = i
    <3>1. AccountOf[p] = UserOfConn(i) /\ attached' = attached
      BY <2>1, <1>6, TaskTyped DEF PresenceInv, PresenceTypes, UserOfConn, Shrinks
    <3> QED BY <2>1, <3>1 DEF WillBeRight
  <2>2. CASE friends # {} \/ attached[p] # i
    <3>1. AccountOf[p] \in friends => TellsOnline(t, AccountOf[p])
      BY <1>2 DEF TellsOnline
    <3>2. ~TellsOffline(conns[i], AccountOf[p])
      BY <1>1 DEF TellsOffline
    <3> QED BY <1>2, <1>4, <1>5, <1>6, <2>2, <3>1, <3>2, RightAsBefore DEF Still
  <2> QED BY <2>1, <2>2
<1> QED BY <1>7, <1>8 DEF PresenceInv

LEMMA LoopEndsKeeps ==
  ASSUME PresenceInv, NEW i \in Conn, LoopEnds(i)
  PROVE  PresenceInv'
<1> DEFINE t == [conns[i] EXCEPT !.at = "remove", !.known = i \in registered]
<1>1. conns[i] \in Task /\ conns[i].at = "read"
  BY TaskTyped DEF LoopEnds, At
<1>2. t \in Task /\ t.page = conns[i].page /\ t.at = "remove" /\ (t.known <=> i \in registered)
  <2>0. (i \in registered) = TRUE \/ (i \in registered) = FALSE
    OBVIOUS
  <2>1. PICK known \in BOOLEAN : known = (i \in registered)
    BY <2>0
  <2>2. t = [conns[i] EXCEPT !.at = "remove", !.known = known]
    BY <2>1
  <2> HIDE DEF t
  <2>3. t \in Task /\ t.page = conns[i].page /\ t.at = "remove" /\ t.known = known
    BY <1>1, <2>2 DEF Task, PresenceStages
  <2> QED BY <2>1, <2>3
<1>3. conns' = [conns EXCEPT ![i] = t]
  BY DEF LoopEnds
<1> HIDE DEF t
<1>4. Turns(i, t)
  BY <1>2, <1>3, Turned DEF PresenceInv
<1>5. Still
  BY DEF LoopEnds, Still
<1>6. /\ Shrinks /\ registered' = registered
      /\ \A f : IsOnline(f)' <=> IsOnline(f)
  BY <1>4, <1>5, StillShrinks
<1>7. PresenceTypes' /\ Entered' /\ ToTell' /\ ListsAreTrue' /\ PartedIsOffline'
  BY <1>1, <1>2, <1>4, <1>6, TurnKeeps DEF Greeted, Ended
<1>8. ASSUME NEW p \in Pages PROVE WillBeRight(p)'
  <2>1. ~TellsOffline(conns[i], AccountOf[p]) /\ ~TellsOnline(conns[i], AccountOf[p])
    BY <1>1 DEF TellsOffline, TellsOnline
  <2> QED BY <1>1, <1>2, <1>4, <1>5, <1>6, <2>1, RightAsBefore DEF Still
<1> QED BY <1>7, <1>8 DEF PresenceInv

LEMMA CheckedKeeps ==
  ASSUME PresenceInv, NEW i \in Conn, Checked(i)
  PROVE  PresenceInv'
<1> DEFINE t == [conns[i] EXCEPT !.at = IF IsOnline(UserOfConn(i)) THEN "gone" ELSE "part"]
<1>1. conns[i] \in Task /\ conns[i].at = "check" /\ i \notin registered
  BY DEF PresenceInv, PresenceTypes, Entered, Conn, Checked, At
<1>2. t \in Task /\ t.page = conns[i].page /\ t.at = IF IsOnline(UserOfConn(i)) THEN "gone" ELSE "part"
  BY <1>1 DEF Task, PresenceStages
<1>3. conns' = [conns EXCEPT ![i] = t]
  BY DEF Checked, StepsTo
<1> HIDE DEF t
<1>4. Turns(i, t)
  BY <1>2, <1>3, Turned DEF PresenceInv
<1>5. Still
  BY DEF Checked, Still
<1>6. /\ Shrinks /\ registered' = registered
      /\ \A f : IsOnline(f)' <=> IsOnline(f)
  BY <1>4, <1>5, StillShrinks
<1>7. PresenceTypes' /\ Entered' /\ ToTell' /\ ListsAreTrue' /\ PartedIsOffline'
  <2>1. t.at \in {"part", "bye"} => ~IsOnline(UserOfConn(i))'
    BY <1>2, <1>4, <1>6 DEF Turns, IsOnline
  <2> QED BY <1>1, <1>2, <1>4, <1>6, <2>1, TurnKeeps DEF Greeted, Ended
<1>8. ASSUME NEW p \in Pages PROVE WillBeRight(p)'
  <2>1. ~TellsOnline(conns[i], AccountOf[p])
    BY <1>1 DEF TellsOnline
  <2>2. TellsOffline(t, AccountOf[p]) \/ IsOnline(UserOfConn(i))
    BY <1>2 DEF TellsOffline
  <2> QED BY <1>1, <1>2, <1>4, <1>5, <1>6, <2>1, <2>2, RightAsBefore DEF Still
<1> QED BY <1>7, <1>8 DEF PresenceInv

LEMMA FriendsReadAgainKeeps ==
  ASSUME PresenceInv, NEW i \in Conn, FriendsReadAgain(i)
  PROVE  PresenceInv'
<1> DEFINE friends == Befriended[UserOfConn(i)]
           t == [conns[i] EXCEPT !.at = IF friends = {} THEN "gone" ELSE "bye", !.rest = friends]
<1>1. /\ conns[i] \in Task /\ conns[i].at = "part" /\ i \notin registered
      /\ UserOfConn(i) \in People /\ friends \subseteq People
  BY TaskTyped DEF FriendsReadAgain, At, PresenceInv, Entered
<1>2. /\ t \in Task /\ t.page = conns[i].page /\ t.at = IF friends = {} THEN "gone" ELSE "bye"
      /\ t.rest = friends
  BY <1>1 DEF Task, PresenceStages
<1>3. conns' = [conns EXCEPT ![i] = t]
  BY DEF FriendsReadAgain
<1> HIDE DEF t
<1>4. Turns(i, t)
  BY <1>2, <1>3, Turned DEF PresenceInv
<1>5. Still
  BY DEF FriendsReadAgain, Still
<1>6. /\ Shrinks /\ registered' = registered
      /\ \A f : IsOnline(f)' <=> IsOnline(f)
  BY <1>4, <1>5, StillShrinks
<1>7. PresenceTypes' /\ Entered' /\ ToTell' /\ ListsAreTrue' /\ PartedIsOffline'
  <2>1. Certain(UserOfConn(i))' => ~IsOnline(UserOfConn(i))'
    BY <1>1, <1>4, <1>5, <1>6 DEF Turns, IsOnline, Certain, Still, PresenceInv, PartedIsOffline
  <2> QED BY <1>1, <1>2, <1>4, <1>6, <2>1, TurnKeeps DEF Greeted, Ended
<1>8. ASSUME NEW p \in Pages PROVE WillBeRight(p)'
  <2>1. ~TellsOnline(conns[i], AccountOf[p])
    BY <1>1 DEF TellsOnline
  <2>2. AccountOf[p] \in friends => TellsOffline(t, AccountOf[p])
    BY <1>2 DEF TellsOffline
  <2> QED BY <1>1, <1>2, <1>4, <1>5, <1>6, <2>1, <2>2, RightAsBefore DEF Still
<1> QED BY <1>7, <1>8 DEF PresenceInv
-----------------------------------------------------------------------------
(* Frames are pushed. *)

LEMMA Pushed ==
  ASSUME PresenceInv, NEW i, NEW t, Turns(i, t), NEW to, to \subseteq linked, NEW frame \in Frame,
         PushedTo(to, frame), UNCHANGED <<attached, shownOn, doubted>>
  PROVE  /\ Shrinks
         /\ \A k \in registered \ registered' : UserOfConn(k) \in dropped'
         /\ \A k \in registered' \cap to : outbox'[k] = Append(outbox[k], frame)
         /\ \A k \in registered' \ to : outbox'[k] = outbox[k]
         /\ \A f : Certain(f)' => (IsOnline(f)' <=> IsOnline(f))
<1>1. /\ outbox \in Seq(Seq(Frame)) /\ Len(outbox) = Len(conns) /\ Conn = 1 .. Len(outbox)
      /\ Len(outbox) \in Nat /\ Capacity \in Nat
      /\ linked \subseteq Conn /\ registered \subseteq linked
      /\ \A k \in Conn : outbox[k] \in Seq(Frame) /\ Len(outbox[k]) <= Capacity
  BY PresenceBounds DEF PresenceInv, PresenceTypes, Conn
<1>2. ASSUME NEW k \in Conn
      PROVE  /\ outbox'[k] = IF k \in to \ Full(to) THEN Append(outbox[k], frame) ELSE outbox[k]
             /\ outbox'[k] \in Seq(Frame) /\ Len(outbox'[k]) <= Capacity
  <2>1. outbox'[k] = IF k \in to \ Full(to) THEN Append(outbox[k], frame) ELSE outbox[k]
    BY DEF PushedTo
  <2>2. CASE k \in to \ Full(to)
    <3>1. Len(outbox[k]) # Capacity /\ Len(outbox[k]) \in Nat
      BY <1>1, <2>2 DEF Full
    <3>2. Append(outbox[k], frame) \in Seq(Frame) /\ Len(Append(outbox[k], frame)) = Len(outbox[k]) + 1
      BY <1>1
    <3> QED BY <1>1, <2>1, <2>2, <3>1, <3>2
  <2>3. CASE k \notin to \ Full(to)
    BY <1>1, <2>1, <2>3
  <2> QED BY <2>1, <2>2, <2>3
<1>3. outbox' \in Seq(Seq(Frame)) /\ Len(outbox') = Len(outbox)
  <2>1. outbox' = [k \in 1 .. Len(outbox) |-> outbox'[k]]
    BY <1>1 DEF PushedTo
  <2>2. \A k \in 1 .. Len(outbox) : outbox'[k] \in Seq(Frame)
    BY <1>1, <1>2
  <2>3. PICK n \in Nat : n = Len(outbox)
    BY <1>1
  <2> QED BY <2>1, <2>2, <2>3
<1>4. /\ linked' = linked \ Full(to) /\ registered' = registered \ Full(to)
      /\ dropped' = dropped \cup {UserOfConn(k) : k \in Full(to)} /\ Full(to) \subseteq to
  BY DEF PushedTo, Full
<1>5. dropped' \subseteq People /\ doubted \subseteq People
  <2>1. \A k \in Full(to) : UserOfConn(k) \in People
    BY <1>1, <1>4, TaskTyped
  <2> QED BY <1>4, <2>1 DEF PresenceInv, PresenceTypes
<1>6. Shrinks
  BY <1>1, <1>2, <1>3, <1>4, <1>5 DEF Shrinks
<1>7. \A k \in registered \ registered' : UserOfConn(k) \in dropped'
  BY <1>4
<1>8. \A f : Certain(f)' => (IsOnline(f)' <=> IsOnline(f))
  <2> SUFFICES ASSUME NEW f, f \notin dropped' PROVE IsOnline(f)' <=> IsOnline(f)
    BY DEF Certain
  <2>1. \A k \in registered : UserOfConn(k)' = UserOfConn(k)
    BY <1>1 DEF Turns
  <2>2. \A k \in registered : UserOfConn(k) = f => k \in registered'
    BY <1>7
  <2> QED BY <1>4, <2>1, <2>2 DEF IsOnline
<1>9. \A k \in registered' : k \in Conn /\ k \notin Full(to)
  BY <1>1, <1>4
<1> QED BY <1>2, <1>6, <1>7, <1>8, <1>9

LEMMA SendListKeeps ==
  ASSUME PresenceInv, NEW i \in Conn, SendList(i)
  PROVE  PresenceInv'
<1> DEFINE t == [conns[i] EXCEPT !.at = "tell"]
           frame == [kind |-> "list", ids |-> conns[i].ids]
           to == {i} \cap linked
<1>1. /\ conns[i] \in Task /\ conns[i].at = "list" /\ conns[i].rest = Befriended[UserOfConn(i)]
      /\ conns[i].ids \subseteq People
  BY TaskTyped DEF SendList, At, PresenceInv, ToTell, Task
<1>2. t \in Task /\ t.page = conns[i].page /\ t.at = "tell" /\ t.rest = conns[i].rest
  BY <1>1 DEF Task, PresenceStages
<1>3. conns' = [conns EXCEPT ![i] = t]
  BY DEF SendList, StepsTo
<1> HIDE DEF t
<1>4. Turns(i, t)
  BY <1>2, <1>3, Turned DEF PresenceInv
<1>5. /\ frame \in Frame /\ to \subseteq linked /\ frame.kind = "list" /\ frame.ids = conns[i].ids
      /\ PushedTo(to, frame) /\ UNCHANGED <<attached, shownOn, doubted>>
  BY <1>1 DEF Frame, SendList
<1> HIDE DEF frame
<1>6. /\ Shrinks
      /\ \A k \in registered \ registered' : UserOfConn(k) \in dropped'
      /\ \A k \in registered' \cap to : outbox'[k] = Append(outbox[k], frame)
      /\ \A k \in registered' \ to : outbox'[k] = outbox[k]
      /\ \A f : Certain(f)' => (IsOnline(f)' <=> IsOnline(f))
  BY <1>4, <1>5, Pushed
<1>7. PresenceTypes' /\ Entered' /\ ToTell' /\ ListsAreTrue' /\ PartedIsOffline'
  BY <1>1, <1>2, <1>4, <1>6, TurnKeeps DEF Greeted, Ended
<1>8. ASSUME NEW p \in Pages PROVE WillBeRight(p)'
  <2>1. CASE attached[p] = i
    <3> SUFFICES ASSUME i \in registered', NEW f \in Befriended[AccountOf[p]], Certain(f)'
                 PROVE  IsOnline(f)' <=> WillShow(shownOn[p], outbox'[i], f)
      BY <1>6, <2>1 DEF WillBeRight, Shrinks
    <3>1. i \in registered /\ i \in to /\ outbox[i] \in Seq(Frame)
      BY <1>6 DEF Shrinks, PresenceInv, PresenceTypes, Conn
    <3>2. AccountOf[p] = UserOfConn(i)
      BY <2>1, TaskTyped DEF PresenceInv, PresenceTypes, UserOfConn
    <3>3. Certain(f)
      BY <1>6 DEF Certain, Shrinks
    <3>4. f \in frame.ids <=> IsOnline(f)
      BY <1>1, <1>5, <3>2, <3>3 DEF PresenceInv, ListsAreTrue
    <3>5. WillShow(shownOn[p], Append(outbox[i], frame), f) <=> Says(frame, f)
      BY <1>5, <3>1, ShowAppended DEF About
    <3> QED BY <1>5, <1>6, <3>1, <3>4, <3>5 DEF Says
  <2>2. CASE attached[p] # i
    <3>1. AccountOf[p] \in Befriended[UserOfConn(i)] => TellsOnline(t, AccountOf[p])
      BY <1>1, <1>2 DEF TellsOnline
    <3>2. ~TellsOffline(conns[i], AccountOf[p])
      BY <1>1 DEF TellsOffline
    <3> QED BY <1>2, <1>4, <1>6, <2>2, <3>1, <3>2, RightAsBefore
  <2> QED BY <2>1, <2>2
<1> QED BY <1>7, <1>8 DEF PresenceInv

\* i tells f0 that its user came or went
LEMMA TellsFits ==
  ASSUME PresenceInv, NEW i \in Conn, NEW t, Turns(i, t), NEW kind \in {"online", "offline"},
         NEW f0 \in conns[i].rest,
         conns[i].at = (IF kind = "online" THEN "tell" ELSE "bye"),
         t.rest = conns[i].rest \ {f0},
         t.at = (IF conns[i].rest = {f0} THEN (IF kind = "online" THEN "read" ELSE "gone") ELSE conns[i].at),
         PushedTo(SocketsForUser(f0), [kind |-> kind, id |-> UserOfConn(i)]),
         UNCHANGED <<attached, shownOn, doubted>>
  PROVE  PresenceInv'
<1> DEFINE frame == [kind |-> kind, id |-> UserOfConn(i)]
           to == SocketsForUser(f0)
<1>0. PICK g : g = UserOfConn(i)
  OBVIOUS
<1>1. /\ frame \in Frame /\ to \subseteq linked /\ frame.kind = kind /\ frame.kind # "list" /\ frame.id = g
      /\ PushedTo(to, frame)
  BY <1>0, TaskTyped DEF Frame, SocketsForUser, PresenceInv, PresenceTypes
<1>2. \A k : k \in to <=> k \in registered /\ UserOfConn(k) = f0
  BY DEF SocketsForUser
<1> HIDE DEF frame, to
<1>3. /\ Shrinks
      /\ \A k \in registered \ registered' : UserOfConn(k) \in dropped'
      /\ \A k \in registered' \cap to : outbox'[k] = Append(outbox[k], frame)
      /\ \A k \in registered' \ to : outbox'[k] = outbox[k]
      /\ \A f : Certain(f)' => (IsOnline(f)' <=> IsOnline(f))
  BY <1>1, Pushed
<1>4. i \notin registered \/ kind = "online"
  BY DEF PresenceInv, Entered
<1>5. Certain(g)' => (IsOnline(g) <=> kind = "online") /\ Certain(g)
  <2>1. Certain(g)' => Certain(g)
    BY <1>3 DEF Certain, Shrinks
  <2>2. kind = "online" => i \in registered \/ g \in dropped
    BY <1>0 DEF PresenceInv, Entered
  <2>3. kind # "online" /\ Certain(g) => ~IsOnline(g)
    BY <1>0 DEF PresenceInv, PartedIsOffline
  <2> QED BY <1>0, <2>1, <2>2, <2>3 DEF IsOnline, Certain
<1>6. PresenceTypes' /\ Entered' /\ ToTell' /\ ListsAreTrue' /\ PartedIsOffline'
  <2>1. t.at \in {"part", "bye"} /\ Certain(g)' => ~IsOnline(g)'
    BY <1>3, <1>5
  <2>2. UserOfConn(i)' = g
    BY <1>0 DEF Turns
  <2>3. t.at \in {"part", "bye"} /\ Certain(UserOfConn(i))' => ~IsOnline(UserOfConn(i))'
    BY <2>1, <2>2 DEF Certain, IsOnline
  <2>4. CASE kind = "online"
    <3>1. conns[i].at = "tell" /\ t.at \in {"tell", "read"}
      BY <2>4
    <3> HIDE DEF frame
    <3>2. t.at \in Greeted /\ conns[i].at \in Greeted /\ t.at \notin Ended \cup {"remove", "list"}
      BY <3>1 DEF Greeted, Ended
    <3> QED BY <1>3, <2>3, <3>2, TurnKeeps
  <2>5. CASE kind = "offline"
    <3>1. conns[i].at = "bye" /\ t.at \in {"bye", "gone"}
      BY <2>5
    <3>2. t.at \notin Greeted \cup {"remove", "list"}
      BY <3>1 DEF Greeted
    <3>3. i \notin registered'
      BY <1>3, <1>4, <2>5 DEF Shrinks
    <3> QED BY <1>3, <2>3, <3>2, <3>3, TurnKeeps
  <2> QED BY <2>4, <2>5
<1>7. ASSUME NEW p \in Pages PROVE WillBeRight(p)'
  <2> DEFINE u == AccountOf[p]
             c == attached[p]
  <2>1. CASE u # f0
    <3>1. c \in registered' => outbox'[c] = outbox[c]
      <4> SUFFICES ASSUME c \in registered' PROVE c \notin to
        BY <1>3
      <4>1. c # 0 /\ c \in registered
        BY <1>3 DEF Shrinks, PresenceInv, PresenceTypes, Conn
      <4>2. UserOfConn(c) = u
        BY <4>1 DEF PresenceInv, PresenceTypes, UserOfConn
      <4> QED BY <1>2, <2>1, <4>2
    <3>2. /\ TellsOnline(conns[i], u) => TellsOnline(t, u)
          /\ TellsOffline(conns[i], u) => TellsOffline(t, u)
      BY <2>1 DEF TellsOnline, TellsOffline
    <3> QED BY <1>3, <3>1, <3>2, RightAsBefore
  <2>2. CASE u = f0
    <3> SUFFICES ASSUME c # 0, c \in registered', conns'[c].at \notin {"greet", "list"},
                        NEW f \in Befriended[u], Certain(f)'
                 PROVE  /\ IsOnline(f)' => WillShow(shownOn[p], outbox'[c], f) \/ ToHearOnline(u, f)'
                        /\ WillShow(shownOn[p], outbox'[c], f) => IsOnline(f)' \/ ToHearOffline(u, f)'
      BY <1>3 DEF WillBeRight, Shrinks
    <3>1. c \in registered /\ UserOfConn(c) = u /\ c \in Conn
      BY <1>3 DEF Shrinks, PresenceInv, PresenceTypes, UserOfConn, Conn
    <3>2. outbox'[c] = Append(outbox[c], frame) /\ outbox[c] \in Seq(Frame)
      BY <1>2, <1>3, <2>2, <3>1 DEF PresenceInv, PresenceTypes, Conn
    <3>3. CASE f = g
      <4>1. WillShow(shownOn[p], outbox'[c], f) <=> kind = "online"
        BY <1>1, <3>2, <3>3, ShowAppended DEF About, Says
      <4> QED BY <1>3, <1>5, <3>3, <4>1
    <3>4. CASE f # g
      <4>1. WillShow(shownOn[p], outbox'[c], f) <=> WillShow(shownOn[p], outbox[c], f)
        BY <1>1, <3>2, <3>4, ShowAppended DEF About
      <4>2. conns[c].at \notin {"greet", "list"} /\ Certain(f)
        BY <1>3, <3>1 DEF Turns, Certain, Shrinks
      <4>3. /\ IsOnline(f) => WillShow(shownOn[p], outbox[c], f) \/ ToHearOnline(u, f)
            /\ WillShow(shownOn[p], outbox[c], f) => IsOnline(f) \/ ToHearOffline(u, f)
        BY <3>1, <4>2 DEF PresenceInv, WillBeRight
      <4>4. ToHearOnline(u, f) => ToHearOnline(u, f)'
        BY <1>0, <3>4 DEF ToHearOnline, Turns, Conn
      <4>5. ToHearOffline(u, f) => ToHearOffline(u, f)'
        BY <1>0, <3>4 DEF ToHearOffline, Turns, Conn
      <4> QED BY <1>3, <4>1, <4>3, <4>4, <4>5
    <3> QED BY <3>3, <3>4
  <2> QED BY <2>1, <2>2
<1> QED BY <1>6, <1>7 DEF PresenceInv

LEMMA TellsKeeps ==
  ASSUME PresenceInv, NEW i \in Conn, TellOnline(i) \/ TellOffline(i)
  PROVE  PresenceInv'
<1>1. PICK kind \in {"online", "offline"} :
        /\ conns[i].at = (IF kind = "online" THEN "tell" ELSE "bye")
        /\ Tells(i, kind, IF kind = "online" THEN "read" ELSE "gone")
  BY DEF TellOnline, TellOffline, At
<1> DEFINE next == IF kind = "online" THEN "read" ELSE "gone"
<1>2. PICK f0 \in conns[i].rest :
        /\ conns' = [conns EXCEPT ![i].rest = conns[i].rest \ {f0},
                                  ![i].at = IF conns[i].rest = {f0} THEN next ELSE conns[i].at]
        /\ PushedTo(SocketsForUser(f0), [kind |-> kind, id |-> UserOfConn(i)])
        /\ UNCHANGED <<attached, shownOn, doubted>>
  BY <1>1 DEF Tells
<1> DEFINE t == [conns[i] EXCEPT !.rest = conns[i].rest \ {f0},
                                 !.at = IF conns[i].rest = {f0} THEN next ELSE conns[i].at]
<1>3. conns[i] \in Task
  BY TaskTyped
<1>4. /\ t \in Task /\ t.page = conns[i].page /\ t.rest = conns[i].rest \ {f0}
      /\ t.at = IF conns[i].rest = {f0} THEN next ELSE conns[i].at
  BY <1>3 DEF Task, PresenceStages
<1>5. conns' = [conns EXCEPT ![i] = t]
  BY <1>2, <1>3 DEF PresenceInv, PresenceTypes, Conn
<1> HIDE DEF t
<1>6. Turns(i, t)
  BY <1>4, <1>5, Turned DEF PresenceInv
<1> QED BY <1>1, <1>2, <1>4, <1>6, TellsFits

-----------------------------------------------------------------------------
(* The other steps. *)

LEMMA DisconnectKeeps ==
  ASSUME PresenceInv, NEW i \in Conn, Disconnect(i)
  PROVE  PresenceInv'
<1> DEFINE t == [conns[i] EXCEPT !.at = IF conns[i].known THEN "check" ELSE "gone"]
           g == UserOfConn(i)
<1>1. conns[i] \in Task /\ conns[i].at = "remove" /\ (i \in registered => conns[i].known)
  BY TaskTyped DEF Disconnect, At, PresenceInv, Entered
<1>2. t \in Task /\ t.page = conns[i].page /\ t.at = IF conns[i].known THEN "check" ELSE "gone"
  BY <1>1 DEF Task, PresenceStages
<1>3. conns' = [conns EXCEPT ![i] = t]
  BY DEF Disconnect, StepsTo
<1> HIDE DEF t
<1>4. Turns(i, t)
  BY <1>2, <1>3, Turned DEF PresenceInv
<1>5. Shrinks /\ registered' = registered \ {i} /\ dropped' = dropped
      /\ \A k \in Conn : k # i => outbox'[k] = outbox[k]
  <2>1. outbox' = [outbox EXCEPT ![i] = <<>>] /\ <<>> \in Seq(Frame) /\ Len(<<>>) = 0 /\ Capacity \in Nat
    BY PresenceBounds DEF Disconnect
  <2>2. doubted \subseteq doubted' /\ doubted' \subseteq People
    BY TaskTyped DEF Disconnect, Crosses, PresenceInv, PresenceTypes
  <2>3. outbox' \in Seq(Seq(Frame)) /\ Len(outbox') = Len(outbox) /\ \A k \in Conn : k # i => outbox'[k] = outbox[k]
    BY <2>1 DEF PresenceInv, PresenceTypes, Conn
  <2>4. outbox'[i] = <<>>
    BY <2>1 DEF PresenceInv, PresenceTypes, Conn
  <2>5. \A k \in Conn : Len(outbox'[k]) <= Capacity
    BY <2>1, <2>3, <2>4 DEF PresenceInv, PresenceTypes
  <2> QED BY <2>2, <2>3, <2>5 DEF Disconnect, Shrinks, PresenceInv, PresenceTypes
<1>6. \A f : IsOnline(f)' => IsOnline(f)
  BY <1>4, <1>5 DEF IsOnline, Turns, PresenceInv, PresenceTypes
<1>7. ASSUME NEW f, Certain(f)', IsOnline(f), ~IsOnline(f)'
      PROVE  ~Underway(f) /\ f = g /\ i \in registered
  <2>1. PICK c \in registered : UserOfConn(c) = f
    BY <1>7 DEF IsOnline
  <2>2. \A k \in registered : UserOfConn(k)' = UserOfConn(k)
    BY <1>4 DEF Turns, PresenceInv, PresenceTypes
  <2>3. \A k \in registered : UserOfConn(k) = f => k = i
    BY <1>5, <1>7, <2>2 DEF IsOnline
  <2>4. c = i /\ f = g /\ i \in registered
    BY <2>1, <2>3
  <2>5. SocketsForUser(g) = {i}
    BY <2>3, <2>4 DEF SocketsForUser
  <2>6. Crosses(g)
    BY <2>4, <2>5 DEF Disconnect
  <2> QED BY <1>7, <2>4, <2>6 DEF Crosses, Certain
<1>8. PresenceTypes' /\ Entered' /\ ToTell' /\ ListsAreTrue' /\ PartedIsOffline'
  <2>1. \A f : Certain(f)' => (IsOnline(f)' <=> IsOnline(f)) \/ ~Underway(f)
    BY <1>6, <1>7
  <2> QED BY <1>1, <1>2, <1>4, <1>5, <2>1, TurnKeeps DEF Greeted, Ended
<1>9. ASSUME NEW p \in Pages PROVE WillBeRight(p)'
  <2> DEFINE u == AccountOf[p]
             c == attached[p]
  <2> SUFFICES ASSUME c # 0, c \in registered', conns'[c].at \notin {"greet", "list"},
                      NEW f \in Befriended[u], Certain(f)'
               PROVE  /\ IsOnline(f)' => WillShow(shownOn[p], outbox'[c], f) \/ ToHearOnline(u, f)'
                      /\ WillShow(shownOn[p], outbox'[c], f) => IsOnline(f)' \/ ToHearOffline(u, f)'
    BY <1>5 DEF WillBeRight, Shrinks
  <2>1. /\ c \in registered /\ c # i /\ c \in Conn /\ outbox'[c] = outbox[c]
        /\ conns[c].at \notin {"greet", "list"} /\ Certain(f)
    BY <1>4, <1>5 DEF Turns, Certain, Shrinks, PresenceInv, PresenceTypes
  <2>2. /\ IsOnline(f) => WillShow(shownOn[p], outbox[c], f) \/ ToHearOnline(u, f)
        /\ WillShow(shownOn[p], outbox[c], f) => IsOnline(f) \/ ToHearOffline(u, f)
    BY <2>1 DEF PresenceInv, WillBeRight
  <2>3. ToHearOnline(u, f) => ToHearOnline(u, f)'
    BY <1>1, <1>4 DEF ToHearOnline, TellsOnline, Turns, Conn
  <2>4. ToHearOffline(u, f) => ToHearOffline(u, f)'
    BY <1>1, <1>4 DEF ToHearOffline, TellsOffline, Turns, Conn
  <2>5. ~IsOnline(f)' /\ IsOnline(f) => ToHearOffline(u, f)'
    BY <1>1, <1>2, <1>4, <1>7 DEF ToHearOffline, TellsOffline, Turns, Conn
  <2> QED BY <1>6, <2>1, <2>2, <2>3, <2>4, <2>5
<1> QED BY <1>8, <1>9 DEF PresenceInv

LEMMA PageClosesKeeps ==
  ASSUME PresenceInv, NEW p \in Pages, PageCloses(p)
  PROVE  PresenceInv'
<1>1. /\ attached' = [attached EXCEPT ![p] = 0]
      /\ UNCHANGED <<conns, linked, registered, outbox, shownOn, doubted, dropped>>
  BY DEF PageCloses
<1>2. \A q \in Pages : attached'[q] = IF q = p THEN 0 ELSE attached[q]
  BY <1>1 DEF PresenceInv, PresenceTypes
<1>3. PresenceTypes'
  BY <1>1, <1>2 DEF PresenceInv, PresenceTypes, Conn
<1>4. Entered' /\ ToTell' /\ ListsAreTrue' /\ PartedIsOffline'
  BY <1>1 DEF PresenceInv, Entered, ToTell, ListsAreTrue, PartedIsOffline, Conn, UserOfConn, IsOnline, Certain
<1>5. ASSUME NEW q \in Pages PROVE WillBeRight(q)'
  <2>1. CASE q = p
    BY <1>2, <2>1 DEF WillBeRight
  <2>2. CASE q # p
    BY <1>1, <1>2, <2>2 DEF PresenceInv, WillBeRight, ToHearOnline, ToHearOffline, Conn, UserOfConn, IsOnline, Certain
  <2> QED BY <2>1, <2>2
<1> QED BY <1>3, <1>4, <1>5 DEF PresenceInv

LEMMA PageTakesKeeps ==
  ASSUME PresenceInv, NEW p \in Pages, PageTakes(p)
  PROVE  PresenceInv'
<1> DEFINE i == attached[p]
<1>1. /\ i # 0 /\ outbox[i] # <<>>
      /\ outbox' = [outbox EXCEPT ![i] = Tail(@)]
      /\ shownOn' = [shownOn EXCEPT ![p] = Applied(@, Head(outbox[i]))]
      /\ UNCHANGED <<conns, linked, registered, attached, doubted, dropped>>
  BY DEF PageTakes
<1>2. i \in Conn /\ outbox[i] \in Seq(Frame) /\ conns[i].page = p
  BY <1>1 DEF PresenceInv, PresenceTypes, Conn
<1>3. /\ Tail(outbox[i]) \in Seq(Frame) /\ Len(Tail(outbox[i])) <= Capacity
      /\ Head(outbox[i]) \in Frame
  BY <1>1, <1>2, PresenceBounds DEF PresenceInv, PresenceTypes
<1>4. Applied(shownOn[p], Head(outbox[i])) \subseteq People
  BY <1>3, FrameKinds DEF Applied, PresenceInv, PresenceTypes
<1>5. /\ outbox' \in Seq(Seq(Frame)) /\ Len(outbox') = Len(outbox)
      /\ outbox'[i] = Tail(outbox[i]) /\ \A k \in Conn : k # i => outbox'[k] = outbox[k]
      /\ shownOn' \in [Pages -> SUBSET People]
      /\ shownOn'[p] = Applied(shownOn[p], Head(outbox[i])) /\ \A q \in Pages : q # p => shownOn'[q] = shownOn[q]
  BY <1>1, <1>2, <1>3, <1>4 DEF PresenceInv, PresenceTypes, Conn
<1>6. PresenceTypes'
  BY <1>1, <1>3, <1>5 DEF PresenceInv, PresenceTypes, Conn
<1>7. Entered' /\ ToTell' /\ ListsAreTrue' /\ PartedIsOffline'
  BY <1>1 DEF PresenceInv, Entered, ToTell, ListsAreTrue, PartedIsOffline, Conn, UserOfConn, IsOnline, Certain
<1>8. ASSUME NEW q \in Pages PROVE WillBeRight(q)'
  <2> DEFINE c == attached[q]
  <2>1. ASSUME c # 0, NEW f PROVE WillShow(shownOn'[q], outbox'[c], f) <=> WillShow(shownOn[q], outbox[c], f)
    <3>1. CASE q = p
      BY <1>1, <1>2, <1>5, <3>1, ShowTaken
    <3>2. CASE q # p
      <4>1. c \in Conn /\ c # i
        BY <1>2, <2>1, <3>2 DEF PresenceInv, PresenceTypes, Conn
      <4> QED BY <1>5, <3>2, <4>1
    <3> QED BY <3>1, <3>2
  <2> QED BY <1>1, <2>1 DEF PresenceInv, WillBeRight, ToHearOnline, ToHearOffline, Conn, UserOfConn, IsOnline, Certain
<1> QED BY <1>6, <1>7, <1>8 DEF PresenceInv

LEMMA ConnectKeeps ==
  ASSUME PresenceInv, NEW p \in Pages, Connect(p)
  PROVE  PresenceInv'
<1> DEFINE t == [page |-> p, at |-> "greet", known |-> FALSE, ids |-> {}, rest |-> {}]
<1>0. PICK i : i = Len(conns) + 1
  OBVIOUS
<1>01. PICK g : g = AccountOf[p]
  OBVIOUS
<1>1. /\ attached[p] = 0 /\ i <= MaxConns
      /\ conns' = Append(conns, t)
      /\ linked' = linked \cup {i} /\ registered' = registered \cup {i}
      /\ outbox' = Append(outbox, <<>>)
      /\ attached' = [attached EXCEPT ![p] = i]
      /\ Crosses(g) /\ UNCHANGED <<shownOn, dropped>>
  BY <1>0, <1>01 DEF Connect
<1>2. t \in Task /\ t.page = p /\ t.at = "greet" /\ g \in People
  BY <1>01, PresenceBounds DEF Task, PresenceStages
<1> HIDE DEF t
<1>3. /\ conns' \in Seq(Task) /\ Len(conns') = i /\ i \in Nat \ {0} /\ i \notin Conn
      /\ DOMAIN conns' = Conn \cup {i}
      /\ conns'[i] = t /\ \A j \in Conn : conns'[j] = conns[j]
  BY <1>0, <1>1, <1>2 DEF PresenceInv, PresenceTypes, Conn
<1>4. UserOfConn(i)' = g /\ \A j \in Conn : UserOfConn(j)' = UserOfConn(j)
  BY <1>01, <1>2, <1>3 DEF UserOfConn
<1>5. /\ outbox' \in Seq(Seq(Frame)) /\ Len(outbox') = i /\ DOMAIN outbox' = Conn \cup {i}
      /\ outbox'[i] = <<>> /\ \A j \in Conn : outbox'[j] = outbox[j]
  BY <1>0, <1>1 DEF PresenceInv, PresenceTypes, Conn
<1>6. doubted \subseteq doubted' /\ doubted' \subseteq People
  BY <1>1, <1>2 DEF Crosses, PresenceInv, PresenceTypes
<1>7. \A q \in Pages : attached'[q] = IF q = p THEN i ELSE attached[q]
  BY <1>1 DEF PresenceInv, PresenceTypes
<1>8. PresenceTypes'
  <2>1. attached' \in [Pages -> 0 .. Len(conns')]
    BY <1>0, <1>1, <1>3, <1>7 DEF PresenceInv, PresenceTypes
  <2>2. \A q \in Pages : attached'[q] # 0 => conns'[attached'[q]].page = q
    BY <1>2, <1>3, <1>7 DEF PresenceInv, PresenceTypes, Conn
  <2>3. \A j \in Conn' : Len(outbox'[j]) <= Capacity
    <3>1. Conn' = Conn \cup {i} /\ Len(<<>>) = 0 /\ Capacity \in Nat
      BY <1>3, PresenceBounds DEF Conn
    <3>2. \A j \in Conn : Len(outbox[j]) <= Capacity
      BY DEF PresenceInv, PresenceTypes
    <3> QED BY <1>5, <3>1, <3>2
  <2>4. registered' \subseteq linked' /\ linked' \subseteq Conn'
    BY <1>1, <1>3 DEF PresenceInv, PresenceTypes, Conn
  <2> QED BY <1>1, <1>3, <1>5, <1>6, <2>1, <2>2, <2>3, <2>4 DEF PresenceInv, PresenceTypes
<1>9. ASSUME NEW f
      PROVE  /\ IsOnline(f) => IsOnline(f)'
             /\ IsOnline(f)' => IsOnline(f) \/ f = g
  BY <1>1, <1>4 DEF IsOnline, PresenceInv, PresenceTypes
<1>10. ASSUME NEW f, Certain(f)' PROVE Certain(f) /\ (f = g => ~Underway(g))
  BY <1>1, <1>6, <1>10 DEF Certain, Crosses
<1>11. Entered' /\ ToTell'
  <2>1. Entered'
    <3> SUFFICES ASSUME NEW j \in Conn \cup {i}
                 PROVE  /\ conns'[j].at \in Greeted => j \in registered' \/ UserOfConn(j)' \in dropped'
                        /\ conns'[j].at = "remove" /\ j \in registered' => conns'[j].known
                        /\ conns'[j].at \in Ended => j \notin registered'
      BY <1>3 DEF Entered, Conn, Greeted, Ended
    <3>1. CASE j = i
      BY <1>1, <1>2, <1>3, <3>1 DEF Ended
    <3>2. CASE j # i
      BY <1>1, <1>3, <1>4, <3>2 DEF PresenceInv, Entered, Greeted, Ended
    <3> QED BY <3>1, <3>2
  <2>2. ToTell'
    BY <1>2, <1>3, <1>4 DEF PresenceInv, ToTell, Conn
  <2> QED BY <2>1, <2>2
<1>12. ListsAreTrue'
  <2> SUFFICES ASSUME NEW j \in Conn \cup {i}, conns'[j].at = "list",
                      NEW f \in Befriended[UserOfConn(j)'], Certain(f)'
               PROVE  f \in conns'[j].ids <=> IsOnline(f)'
    BY <1>3 DEF ListsAreTrue, Conn
  <2>1. j \in Conn /\ conns'[j] = conns[j] /\ UserOfConn(j)' = UserOfConn(j)
    BY <1>2, <1>3, <1>4
  <2>2. Underway(f)
    BY <2>1 DEF Underway
  <2>3. Certain(f) /\ f # g
    BY <1>10, <2>2
  <2> QED BY <1>9, <2>1, <2>3 DEF PresenceInv, ListsAreTrue
<1>13. PartedIsOffline'
  <2> SUFFICES ASSUME NEW j \in Conn \cup {i}, conns'[j].at \in {"part", "bye"}, NEW f, f = UserOfConn(j)',
                      Certain(f)'
               PROVE  ~IsOnline(f)'
    BY <1>3 DEF PartedIsOffline, Conn, Certain, IsOnline
  <2>1. j \in Conn /\ conns'[j] = conns[j] /\ f = UserOfConn(j)
    BY <1>2, <1>3, <1>4
  <2>2. Underway(f)
    BY <2>1 DEF Underway
  <2>3. Certain(f) /\ f # g
    BY <1>10, <2>2
  <2>4. ~IsOnline(f)
    BY <2>1, <2>3 DEF PresenceInv, PartedIsOffline
  <2> QED BY <1>9, <2>3, <2>4
<1>14. ASSUME NEW q \in Pages PROVE WillBeRight(q)'
  <2> DEFINE u == AccountOf[q]
             c == attached[q]
  <2>1. CASE q = p
    BY <1>2, <1>3, <1>7, <2>1 DEF WillBeRight
  <2>2. CASE q # p
    <3> SUFFICES ASSUME c # 0, c \in registered', conns'[c].at \notin {"greet", "list"},
                        NEW f \in Befriended[u], Certain(f)'
                 PROVE  /\ IsOnline(f)' => WillShow(shownOn[q], outbox'[c], f) \/ ToHearOnline(u, f)'
                        /\ WillShow(shownOn[q], outbox'[c], f) => IsOnline(f)' \/ ToHearOffline(u, f)'
      BY <1>1, <1>7, <2>2 DEF WillBeRight
    <3>1. c \in Conn /\ c \in registered /\ conns'[c] = conns[c] /\ outbox'[c] = outbox[c] /\ Certain(f)
      BY <1>1, <1>3, <1>5, <1>10 DEF PresenceInv, PresenceTypes, Conn
    <3>2. /\ IsOnline(f) => WillShow(shownOn[q], outbox[c], f) \/ ToHearOnline(u, f)
          /\ WillShow(shownOn[q], outbox[c], f) => IsOnline(f) \/ ToHearOffline(u, f)
      BY <3>1 DEF PresenceInv, WillBeRight
    <3>3. ToHearOnline(u, f) => ToHearOnline(u, f)'
      BY <1>3, <1>4 DEF ToHearOnline, Conn
    <3>4. ToHearOffline(u, f) => ToHearOffline(u, f)'
      BY <1>3, <1>4 DEF ToHearOffline, Conn
    <3>5. f = g => ToHearOnline(u, f)'
      BY <1>2, <1>3, <1>4 DEF ToHearOnline, TellsOnline, Conn
    <3> QED BY <1>9, <3>1, <3>2, <3>3, <3>4, <3>5
  <2> QED BY <2>1, <2>2
<1> QED BY <1>8, <1>11, <1>12, <1>13, <1>14 DEF PresenceInv

LEMMA PresenceStep == PresenceInv /\ [PresenceNext]_presenceVars => PresenceInv'
<1> SUFFICES ASSUME PresenceInv, [PresenceNext]_presenceVars PROVE PresenceInv'
  OBVIOUS
<1>1. CASE UNCHANGED presenceVars
  BY <1>1 DEF presenceVars, PresenceInv, PresenceTypes, Entered, ToTell, ListsAreTrue, PartedIsOffline,
              WillBeRight, ToHearOnline, ToHearOffline, Conn, UserOfConn, IsOnline, Certain
<1> QED BY <1>1, FriendsReadKeeps, SendListKeeps, TellsKeeps, LoopEndsKeeps, DisconnectKeeps, CheckedKeeps,
           FriendsReadAgainKeeps, PageTakesKeeps, PageClosesKeeps, ConnectKeeps
        DEF PresenceNext, PresenceSteps

LEMMA PresenceMeans == PresenceInv => PresenceTypeOK /\ PresenceSettles
<1> SUFFICES ASSUME PresenceInv PROVE PresenceTypeOK /\ PresenceSettles
  OBVIOUS
<1>1. PresenceTypeOK
  <2>1. \A i \in Conn : /\ conns[i].page \in Pages /\ conns[i].at \in PresenceStages
                        /\ conns[i].known \in BOOLEAN
                        /\ conns[i].ids \subseteq People /\ conns[i].rest \subseteq People
    BY TaskTyped DEF Task
  <2>2. \A i \in Conn : \A k \in DOMAIN outbox[i] : outbox[i][k] \in Frame
    BY DEF PresenceInv, PresenceTypes, Conn
  <2> QED BY <2>1, <2>2 DEF PresenceInv, PresenceTypes, PresenceTypeOK
<1>2. PresenceSettles
  <2> SUFFICES ASSUME PresenceQuiet, NEW p \in Pages, attached[p] \in registered,
                      NEW f \in Befriended[AccountOf[p]], f \notin doubted \cup dropped
               PROVE  f \in shownOn[p] <=> IsOnline(f)
    BY DEF PresenceSettles
  <2> DEFINE c == attached[p]
  <2>1. c \in Conn /\ c # 0 /\ outbox[c] = <<>> /\ conns[c].at \in {"gone", "read"}
    BY TaskTyped DEF PresenceQuiet, PresenceInv, PresenceTypes
  <2>2. WillShow(shownOn[p], outbox[c], f) <=> f \in shownOn[p]
    BY <2>1 DEF WillShow
  <2>3. ~ToHearOnline(AccountOf[p], f) /\ ~ToHearOffline(AccountOf[p], f)
    BY DEF PresenceQuiet, ToHearOnline, ToHearOffline, TellsOnline, TellsOffline
  <2> QED BY <2>1, <2>2, <2>3 DEF PresenceInv, WillBeRight, Certain
<1> QED BY <1>1, <1>2
=============================================================================
