------------------------------ MODULE MeshCall ------------------------------
(***************************************************************************)
(* The ends of a group match: useWebRTC's mesh half (createMeshPeers,      *)
(* handleSignal with a sender, removePeer, clear) driven by the session's  *)
(* onGroupMatchMatched, onGroupMatchParticipantLeft and stop.              *)
(*                                                                         *)
(* The server numbers the members; an end offers to the members after it.  *)
(* A group that was searching is matched again when the other side is      *)
(* found, and then every end builds its mesh anew.  As in SoloCall what is *)
(* left of a handler at an await is a task, and connections are numbered.  *)
(***************************************************************************)
EXTENDS Naturals, Sequences, FiniteSets, SequencesExt

CONSTANTS Members,      \* the member numbers the server may hand out
          MaxRematches, \* matches after the first
          MaxLeavers    \* members that stop on their own

ASSUME MeshBounds ==
  /\ {1, 2} \subseteq Members /\ Members \subseteq Nat \ {0} /\ IsFiniteSet(Members)
  /\ MaxRematches \in Nat /\ MaxLeavers \in Nat

VARIABLES
  group,     \* members of the match
  roomSeat,      \* per member: "waiting" for group-match:matched, "in", "left"
  work,      \* per member: what is left of the handlers that await
  peers,     \* per member: peersRef, the connection kept for a peer or 0
  links,     \* per member: every connection it created
  parked,    \* per member: pendingSignalsRef, a set: it is drained at one go
  relay,     \* per member: what the server has for it, in order
  rounds,    \* per member: runs of createMeshPeers that have cleared
  rematches, \* matches after the first so far
  hurried,   \* matched again before the signals of the last round were through (history)
  lost,      \* per member: a signal was dropped by clear() (history)
  aborted,   \* per member: createMeshPeers gave up half way (history)
  overstay   \* per member: it left while createMeshPeers was coming (history)

meshVars == <<group, roomSeat, work, peers, links, parked, relay, rounds, rematches,
              hurried, lost, aborted, overstay>>

Note == [kind : {"matched"}, from : {0}, link : 0 .. MaxRematches]
        \cup [kind : {"gone"}, from : Members, link : {0}]
        \cup [kind : {"offer", "answer", "candidate"}, from : Members, link : Nat]

Work == [kind : {"build"}, stage : {"prepare", "ice"}, peer : {0}, link : {0},
         sdp : 0 .. MaxRematches]
        \cup [kind : {"build"}, stage : {"offering"}, peer : Members, link : Nat, sdp : {0}]
        \cup [kind : {"offer", "answer"}, stage : {"remote", "answering"},
              peer : Members, link : Nat, sdp : Nat]

(* state is the signalling state, far the number of the peer's connection  *)
(* whose description is set, ready and held are the candidate buffer;      *)
(* round is the run of createMeshPeers that created it.                    *)
Link == [peer : Members, round : Nat, open : BOOLEAN, state : {"stable", "local", "remote"}, far : Nat,
         ready : BOOLEAN, held : SUBSET Nat, cands : SUBSET Nat]

NewLink(p, n) == [peer |-> p, round |-> n, open |-> TRUE, state |-> "stable", far |-> 0, ready |-> FALSE,
               held |-> {}, cands |-> {}]

MeshTypeOK ==
  /\ group \subseteq Members
  /\ roomSeat \in [Members -> {"waiting", "in", "left"}]
  /\ \A e \in Members :
       /\ work[e] \subseteq Work
       /\ \A i \in DOMAIN links[e] : links[e][i] \in Link
       /\ \A p \in Members : peers[e][p] \in 0 .. Len(links[e])
       /\ parked[e] \subseteq Note
       /\ Range(relay[e]) \subseteq Note
  /\ rounds \in [Members -> 0 .. MaxRematches + 1] /\ rematches \in 0 .. MaxRematches
  /\ hurried \in BOOLEAN
  /\ {lost, aborted, overstay} \subseteq [Members -> BOOLEAN]

\* the n-th match after the first; a build task of it carries n in sdp
Summons(n) == [kind |-> "matched", from |-> 0, link |-> n]

MeshInitOf(ms, n) ==
  /\ group = ms
  /\ roomSeat = [e \in Members |-> IF e \in ms THEN "waiting" ELSE "left"]
  /\ work = [e \in Members |-> {}]
  /\ peers = [e \in Members |-> [p \in Members |-> 0]]
  /\ links = [e \in Members |-> <<>>]
  /\ parked = [e \in Members |-> {}]
  /\ relay = [e \in Members |-> IF e \in ms THEN <<Summons(0)>> ELSE <<>>]
  /\ rounds = [e \in Members |-> 0]
  /\ rematches = n
  /\ hurried = FALSE
  /\ lost = [e \in Members |-> FALSE]
  /\ aborted = [e \in Members |-> FALSE]
  /\ overstay = [e \in Members |-> FALSE]

\* a full group matched once, or a pair that may be matched again
MeshInit == MeshInitOf(Members, MaxRematches) \/ MeshInitOf({1, 2}, 0)

(***************************************************************************)
(* Helpers                                                                 *)
(***************************************************************************)
\* sendSignal of a description, and the candidates onicecandidate sends once it
\* is set: relayed to a member that is still in the room
Told(r, e, p, kind, i) ==
  IF "left" \in {roomSeat[e], roomSeat[p]} THEN r
  ELSE [r EXCEPT ![p] = @ \o <<[kind |-> kind, from |-> e, link |-> i],
                               [kind |-> "candidate", from |-> e, link |-> i]>>]

Known(e, p) == peers[e][p] # 0
Shut(ls, is) == [i \in DOMAIN ls |-> IF i \in is THEN [ls[i] EXCEPT !.open = FALSE] ELSE ls[i]]
Kept(e) == {peers[e][p] : p \in Members} \ {0}

\* webrtc.clear(): everything in peersRef is closed, and what was parked is gone
ClearMesh(e) ==
  /\ links' = [links EXCEPT ![e] = Shut(@, Kept(e))]
  /\ peers' = [peers EXCEPT ![e] = [p \in Members |-> 0]]
  /\ parked' = [parked EXCEPT ![e] = {}]

\* the asynchronous part of handleSignal for an offer or an answer
Handling(e, s, map) ==
  [kind |-> s.kind, stage |-> "remote", peer |-> s.from, link |-> map[s.from], sdp |-> s.link]

\* a candidate is held until its connection has a description
Candidate(l, c) ==
  IF ~l.ready THEN [l EXCEPT !.held = @ \cup {c}]
  ELSE IF l.open /\ c = l.far THEN [l EXCEPT !.cands = @ \cup {c}] ELSE l

WithCandidate(ls, i, c) == [ls EXCEPT ![i] = Candidate(@, c)]

(***************************************************************************)
(* createMeshPeers                                                         *)
(***************************************************************************)
\* group-match:matched: signals are accepted while the stream is awaited
OnGroupMatched(e) ==
  /\ relay[e] # <<>> /\ Head(relay[e]).kind = "matched" /\ roomSeat[e] # "left"
  /\ roomSeat' = [roomSeat EXCEPT ![e] = "in"]
  /\ relay' = [relay EXCEPT ![e] = Tail(@)]
  /\ work' = [work EXCEPT ![e] = @ \cup
        {[kind |-> "build", stage |-> "prepare", peer |-> 0, link |-> 0,
          sdp |-> Head(relay[e]).link]}]
  /\ UNCHANGED <<group, peers, links, parked, rounds, rematches, lost, aborted, overstay, hurried>>

\* a connection about to be closed has taken a signal of the coming round
Early(e) ==
  \E p \in Members : Known(e, p) /\
    LET l   == links[e][peers[e][p]]
        far == {l.far} \cup l.held \cup
               {t.sdp : t \in {u \in work[e] : u.peer = p /\ u.stage \in {"remote", "answering"}}}
    IN \E i \in far \ {0} : links[p][i].round > rounds[e]

\* the stream is published: clear(), then the ice servers are fetched.  What
\* was kept or parked for the members is dropped with it.
MeshPrepared(e) ==
  \E t \in work[e] :
    /\ t.stage = "prepare"
    /\ work' = [work EXCEPT ![e] = (@ \ {t}) \cup {[t EXCEPT !.stage = "ice"]}]
    /\ ClearMesh(e)
    /\ rounds' = [rounds EXCEPT ![e] = @ + 1]
    /\ lost' = [lost EXCEPT ![e] = @ \/ parked[e] # {} \/ Early(e)]
    /\ UNCHANGED <<group, roomSeat, relay, rematches, aborted, overstay, hurried>>

\* the members still without a connection, up to the first one to offer to:
\* the loop creates their connections without awaiting anything
Stretch(e) ==
  LET missing == {p \in group \ {e} : ~Known(e, p)}
  IN  {p \in missing : \A q \in missing : q < p => q < e}

\* the place of a member among them: the loop goes by their numbers
Place(e, p) == Cardinality({q \in Stretch(e) : q <= p})
Loop(e, i) == CHOOSE p \in Stretch(e) : Place(e, p) = i

\* their connections, numbered on from those there are
Created(e) ==
  LET base == Len(links[e]) IN
  [made |-> links[e] \o [i \in 1 .. Cardinality(Stretch(e)) |-> NewLink(Loop(e, i), rounds[e])],
   map  |-> [p \in Members |-> IF p \in Stretch(e) THEN base + Place(e, p) ELSE peers[e][p]]]

\* parked signals of the members known by now are handled, the others go back
Drained(e, made, map, w) ==
  LET taken   == {s \in parked[e] : map[s.from] # 0}
      held(i) == {s.link : s \in {x \in taken : x.kind = "candidate" /\ map[x.from] = i}}
  IN /\ links' = [links EXCEPT ![e] =
            [i \in DOMAIN made |-> [made[i] EXCEPT !.held = @ \cup held(i)]]]
     /\ parked' = [parked EXCEPT ![e] = @ \ taken]
     /\ work' = [work EXCEPT ![e] = w \cup
            {Handling(e, s, map) : s \in {x \in taken : x.kind # "candidate"}}]

\* one stretch of the loop: from fetchIceServers or a sent offer to the next
\* offer to make, or to the end
Build(e, t) ==
  LET c     == Created(e)
      offer == {p \in Stretch(e) : p > e}
  IN /\ peers' = [peers EXCEPT ![e] = c.map]
     /\ Drained(e, c.made, c.map, (work[e] \ {t}) \cup
          {[kind |-> "build", stage |-> "offering", peer |-> p, link |-> c.map[p], sdp |-> 0]
             : p \in offer})

MeshIceFetched(e) ==
  \E t \in work[e] :
    /\ t.stage = "ice"
    /\ Build(e, t)
    /\ UNCHANGED <<group, roomSeat, relay, rounds, rematches, lost, aborted, overstay, hurried>>

\* the offer is set and sent, and the loop goes on
MeshOffered(e) ==
  \E t \in work[e] :
    /\ t.stage = "offering" /\ links[e][t.link].open
    /\ relay' = Told(relay, e, t.peer, "offer", t.link)
    /\ LET c     == Created(e)
           made  == [c.made EXCEPT ![t.link].state = "local"]
           offer == {p \in Stretch(e) : p > e}
       IN /\ peers' = [peers EXCEPT ![e] = c.map]
          /\ Drained(e, made, c.map, (work[e] \ {t}) \cup
               {[kind |-> "build", stage |-> "offering", peer |-> p, link |-> c.map[p], sdp |-> 0]
                  : p \in offer})
    /\ UNCHANGED <<group, roomSeat, rounds, rematches, lost, aborted, overstay, hurried>>

\* createOffer of a connection closed meanwhile rejects: the loop ends there,
\* and the members after that one get no connection
MeshAborts(e) ==
  \E t \in work[e] :
    /\ t.stage = "offering" /\ ~links[e][t.link].open
    /\ work' = [work EXCEPT ![e] = @ \ {t}]
    /\ aborted' = [aborted EXCEPT ![e] = TRUE]
    /\ UNCHANGED <<group, roomSeat, peers, links, parked, relay, rounds, rematches, lost, overstay, hurried>>

(***************************************************************************)
(* Signals of a member                                                     *)
(***************************************************************************)
Incoming(e, kinds) ==
  /\ relay[e] # <<>> /\ Head(relay[e]).kind \in kinds
  /\ roomSeat[e] = "in"
  /\ relay' = [relay EXCEPT ![e] = Tail(@)]

\* a signal of a member without a connection is parked
faulty_OnUnknown(e) ==
  /\ Incoming(e, {"offer", "answer", "candidate"})
  /\ ~Known(e, Head(relay[e]).from)
  /\ UNCHANGED <<parked, group, roomSeat, work, peers, links, rounds, rematches, lost, aborted, overstay, hurried>>

OnUnknown(e) ==
  /\ Incoming(e, {"offer", "answer", "candidate"})
  /\ ~Known(e, Head(relay[e]).from)
  /\ parked' = [parked EXCEPT ![e] = @ \cup {Head(relay[e])}]
  /\ UNCHANGED <<group, roomSeat, work, peers, links, rounds, rematches, lost, aborted, overstay, hurried>>

\* an offer is handled when stable, or after rolling a local offer back: the
\* code compares the sender with the connection's own key, which are equal.
\* An answer is handled when a local offer waits for one.
OnDescription(e) ==
  LET s == Head(relay[e])
      l == links[e][peers[e][s.from]]
  IN /\ Incoming(e, {"offer", "answer"}) /\ Known(e, s.from)
     /\ IF (s.kind = "offer" /\ l.state = "remote") \/ (s.kind = "answer" /\ l.state # "local")
        THEN UNCHANGED work
        ELSE work' = [work EXCEPT ![e] = @ \cup {Handling(e, s, peers[e])}]
     /\ UNCHANGED <<group, roomSeat, peers, links, parked, rounds, rematches, lost, aborted, overstay, hurried>>

OnMeshCandidate(e) ==
  LET s == Head(relay[e]) IN
  /\ Incoming(e, {"candidate"}) /\ Known(e, s.from)
  /\ links' = [links EXCEPT ![e] = WithCandidate(@, peers[e][s.from], s.link)]
  /\ UNCHANGED <<group, roomSeat, work, peers, parked, rounds, rematches, lost, aborted, overstay, hurried>>

\* setRemoteDescription is through: ready, and the held candidates are added
MeshRemoteSet(e) ==
  \E t \in work[e] :
    /\ t.stage = "remote" /\ links[e][t.link].open
    /\ t.kind = "answer" => links[e][t.link].state = "local"
    /\ LET c == links[e][t.link] IN
       links' = [links EXCEPT ![e][t.link] =
          [c EXCEPT !.state = IF t.kind = "offer" THEN "remote" ELSE "stable",
                    !.far = t.sdp, !.ready = TRUE, !.held = {},
                    !.cands = @ \cup (c.held \cap {t.sdp})]]
    /\ work' = [work EXCEPT ![e] = (@ \ {t}) \cup
          (IF t.kind = "offer" THEN {[t EXCEPT !.stage = "answering"]} ELSE {})]
    /\ UNCHANGED <<group, roomSeat, peers, parked, relay, rounds, rematches, lost, aborted, overstay, hurried>>

MeshAnswered(e) ==
  \E t \in work[e] :
    /\ t.stage = "answering"
    /\ links[e][t.link].open /\ links[e][t.link].state = "remote"
    /\ links' = [links EXCEPT ![e][t.link].state = "stable"]
    /\ relay' = Told(relay, e, t.peer, "answer", t.link)
    /\ work' = [work EXCEPT ![e] = @ \ {t}]
    /\ UNCHANGED <<group, roomSeat, peers, parked, rounds, rematches, lost, aborted, overstay, hurried>>

\* handleSignal catches what a closed connection throws
MeshRejected(e) ==
  \E t \in work[e] :
    /\ t.stage \in {"remote", "answering"}
    /\ \/ ~links[e][t.link].open
       \/ t.kind = "answer" /\ links[e][t.link].state # "local"
       \/ t.stage = "answering" /\ links[e][t.link].state # "remote"
    /\ work' = [work EXCEPT ![e] = @ \ {t}]
    /\ UNCHANGED <<group, roomSeat, peers, links, parked, relay, rounds, rematches, lost, aborted, overstay, hurried>>

(***************************************************************************)
(* Leaving and matching again                                              *)
(***************************************************************************)
Building(e) == {t \in work[e] : t.kind = "build"}

LeaveMesh(e) ==
  /\ roomSeat' = [roomSeat EXCEPT ![e] = "left"]
  /\ overstay' = [overstay EXCEPT ![e] = Building(e) # {}]
  /\ ClearMesh(e)

\* stop: the server tells the members that are left
StopMesh(e) ==
  /\ roomSeat[e] = "in"
  /\ Cardinality({p \in group : roomSeat[p] = "left"}) < MaxLeavers
  /\ LeaveMesh(e)
  /\ relay' = [p \in Members |->
        IF p # e /\ p \in group /\ roomSeat[p] # "left"
        THEN Append(relay[p], [kind |-> "gone", from |-> e, link |-> 0]) ELSE relay[p]]
  /\ UNCHANGED <<group, work, rounds, rematches, lost, aborted, hurried>>

\* group-match:participant-left: removePeer, and stop when nobody remains
OnGone(e) ==
  LET p == Head(relay[e]).from
      others == {q \in group \ {e, p} : roomSeat[q] # "left"}
  IN /\ Incoming(e, {"gone"})
     /\ IF others = {}
        THEN LeaveMesh(e)
        ELSE /\ links' = [links EXCEPT ![e] = Shut(@, {peers[e][p]})]
             /\ peers' = [peers EXCEPT ![e][p] = 0]
             /\ UNCHANGED <<roomSeat, overstay, parked>>
     /\ UNCHANGED <<group, work, rounds, rematches, lost, aborted, hurried>>

OnStaleNote(e) ==
  /\ relay[e] # <<>> /\ roomSeat[e] = "left"
  /\ relay' = [relay EXCEPT ![e] = Tail(@)]
  /\ UNCHANGED <<group, roomSeat, work, peers, links, parked, rounds, rematches, lost, aborted, overstay, hurried>>

\* the server matches the group again
Rematch ==
  /\ rematches < MaxRematches
  /\ \A e \in group : roomSeat[e] = "in"
  /\ rematches' = rematches + 1
  /\ hurried' = (hurried \/ \E e \in group : work[e] # {} \/ relay[e] # <<>>)
  /\ relay' = [e \in Members |-> IF e \in group THEN Append(relay[e], Summons(rematches')) ELSE relay[e]]
  /\ UNCHANGED <<group, roomSeat, work, peers, links, parked, rounds, lost, aborted, overstay>>

MeshPromises(e) ==
  \/ MeshPrepared(e) \/ MeshIceFetched(e) \/ MeshOffered(e) \/ MeshAborts(e)
  \/ MeshRemoteSet(e) \/ MeshAnswered(e) \/ MeshRejected(e)

MeshEvents(e) ==
  \/ OnGroupMatched(e) \/ OnUnknown(e) \/ OnDescription(e) \/ OnMeshCandidate(e)
  \/ OnGone(e) \/ OnStaleNote(e)

MeshNext ==
  \/ \E e \in group : MeshPromises(e) \/ MeshEvents(e) \/ StopMesh(e)
  \/ Rematch

MeshFairness ==
  \A e \in Members : WF_meshVars(MeshPromises(e)) /\ WF_meshVars(MeshEvents(e))
MeshSpec == MeshInit /\ [][MeshNext]_meshVars /\ MeshFairness

(***************************************************************************)
(* Properties                                                              *)
(***************************************************************************)
\* Every open connection is the one kept for its peer, although two runs of
\* createMeshPeers may overlap: clear() finds all of them.
NoMeshOrphans ==
  \A e \in Members : \A i \in DOMAIN links[e] :
    links[e][i].open => peers[e][links[e][i].peer] = i

\* Once stopped, an end has no open connection unless its mesh was being built.
MeshReleasedAfterStop ==
  \A e \in Members : roomSeat[e] = "left" /\ ~overstay[e] => Kept(e) = {}

MeshJoined(e, p) ==
  /\ Known(e, p) /\ Known(p, e)
  /\ links[e][peers[e][p]].far = peers[p][e]
  /\ links[e][peers[e][p]].state = "stable"
  /\ peers[p][e] \in links[e][peers[e][p]].cands

\* Members of a group that stay get connected to each other, in whatever order
\* offers and candidates meet the building of the mesh, and also when a mesh that
\* stands is built anew.  The exceptions: a signal dropped by the clear() at the
\* start, a loop that gave up, and a second match while the first was building.
MeshStands ==
  \/ \A e \in group : \A p \in group \ {e} : MeshJoined(e, p)
  \/ hurried
  \/ \E e \in group : roomSeat[e] = "left" \/ lost[e] \/ aborted[e]

MembersConnect == []<>MeshStands
=============================================================================
