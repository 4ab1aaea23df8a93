------------------------------ MODULE SoloCall ------------------------------
(***************************************************************************)
(* The two ends of a 1:1 call: useWebRTC's solo half driven by the match   *)
(* session's onMatched, onSignal, onPeerLeft and stop, with the signals    *)
(* the server relays between the ends in order.                            *)
(*                                                                         *)
(* A handler is cut at its awaits: what is left of it is a record of tasks *)
(* whose stage names the promise it waits for.  Other handlers of the same *)
(* end run in between.  A connection is a number: its place in the         *)
(* sequence of the RTCPeerConnections that end has created.                *)
(***************************************************************************)
EXTENDS Naturals, Sequences, FiniteSets, SequencesExt

CONSTANTS MaxPcs,      \* connections an end may create in one match
          MaxRestarts  \* times restartIce may be called in one match

ASSUME SoloBounds == MaxPcs \in Nat \ {0} /\ MaxRestarts \in Nat

VARIABLES
  call,      \* per end: "waiting" for room:matched, "in" the room, "left" it
  stream,    \* per end: media.streamRef holds a stream
  tasks,     \* per end: what is left of the handlers that await
  pc,        \* per end: soloPcRef, 0 for null
  pcs,       \* per end: every connection it created
  pending,   \* per end: soloPending
  ready,     \* per end: soloRemoteReady
  signals,   \* per end: what the server has for it, in order
  creates,   \* per end: calls of createPeer (history)
  refused,   \* per end: an offer met neither connection nor stream (history)
  late,      \* per end: the call ended while createPeer was coming (history)
  restarts   \* calls of restartIce so far

soloVars == <<call, stream, tasks, pc, pcs, pending, ready, signals,
              creates, refused, late, restarts>>

End == {"offerer", "answerer"}
Far(e) == CHOOSE f \in End : f # e
PcId == 1 .. MaxPcs

Signal == [kind : {"matched", "left"}, pc : {0}, of : {0}]
          \cup [kind : {"offer", "candidate"}, pc : PcId, of : {0}]
          \cup [kind : {"answer"}, pc : PcId, of : PcId]

Task == [kind : {"matched"}, stage : {"prepare", "ice"}, pc : {0}, sdp : {0}]
        \cup [kind : {"matched"}, stage : {"offering"}, pc : PcId, sdp : {0}]
        \cup [kind : {"offer"}, stage : {"ice"}, pc : {0}, sdp : PcId]
        \cup [kind : {"offer"}, stage : {"remote", "answering"},
              pc : PcId, sdp : PcId]
        \cup [kind : {"answer"}, stage : {"remote"}, pc : PcId, sdp : PcId]

(* sig is the signalling state, remote the far connection whose            *)
(* description is set, cands the far connections whose candidates were     *)
(* added, gather says that local candidates are still to be emitted.       *)
Pc == [open : BOOLEAN, sig : {"stable", "local", "remote"}, remote : 0 .. MaxPcs,
       cands : SUBSET PcId, gather : BOOLEAN]

NewPc == [open |-> TRUE, sig |-> "stable", remote |-> 0, cands |-> {},
          gather |-> FALSE]

SoloTypeOK ==
  /\ call \in [End -> {"waiting", "in", "left"}]
  /\ stream \in [End -> BOOLEAN]
  /\ \A e \in End : tasks[e] \subseteq Task
  /\ pc \in [End -> 0 .. MaxPcs]
  /\ \A e \in End : Len(pcs[e]) <= MaxPcs /\ \A i \in DOMAIN pcs[e] : pcs[e][i] \in Pc
  /\ \A e \in End : pending[e] \subseteq PcId
  /\ ready \in [End -> BOOLEAN]
  /\ \A e \in End : Range(signals[e]) \subseteq Signal
  /\ creates \in [End -> Nat]
  /\ refused \in [End -> BOOLEAN] /\ late \in [End -> BOOLEAN]
  /\ restarts \in 0 .. MaxRestarts

(***************************************************************************)
(* room:matched is the first thing the server sends to either end.  The    *)
(* camera is normally open by then (beginMatch waits for it); it is absent *)
(* while useMedia is between two streams.                                  *)
(***************************************************************************)
SoloInit ==
  /\ call = [e \in End |-> "waiting"]
  /\ stream \in [End -> BOOLEAN]
  /\ tasks = [e \in End |-> {}]
  /\ pc = [e \in End |-> 0]
  /\ pcs = [e \in End |-> <<>>]
  /\ pending = [e \in End |-> {}]
  /\ ready = [e \in End |-> FALSE]
  /\ signals = [e \in End |-> <<[kind |-> "matched", pc |-> 0, of |-> 0]>>]
  /\ creates = [e \in End |-> 0]
  /\ refused = [e \in End |-> FALSE]
  /\ late = [e \in End |-> FALSE]
  /\ restarts = 0

(***************************************************************************)
(* Helpers                                                                 *)
(***************************************************************************)
\* onSignal's payload on its way: the server relays it while both are in the room
Sending(e, s) ==
  signals' = IF "left" \in {call[e], call[Far(e)]} THEN signals
             ELSE [signals EXCEPT ![Far(e)] = Append(@, s)]

\* closing a connection for good
ClosedAt(ps, i) == [ps EXCEPT ![i].open = FALSE]

\* webrtc.clear(): the current connection is closed, the rest of the half reset
ClearSolo(e) ==
  /\ pcs' = IF pc[e] = 0 THEN pcs ELSE [pcs EXCEPT ![e] = ClosedAt(@, pc[e])]
  /\ pc' = [pc EXCEPT ![e] = 0]
  /\ pending' = [pending EXCEPT ![e] = {}]
  /\ ready' = [ready EXCEPT ![e] = FALSE]

Forget(e, t) == tasks' = [tasks EXCEPT ![e] = @ \ {t}]
Becomes(e, t, u) == tasks' = [tasks EXCEPT ![e] = (@ \ {t}) \cup {u}]

Matching(e) == {t \in tasks[e] : t.stage \in {"prepare", "ice"}}

(***************************************************************************)
(* room:matched and the way to createPeer                                  *)
(***************************************************************************)
faulty_OnMatched(e) ==
  /\ call[e] = "waiting"
  /\ signals[e] # <<>> /\ Head(signals[e]).kind = "matched"
  /\ call' = [call EXCEPT ![e] = "in"]
  /\ signals' = [signals EXCEPT ![e] = Tail(@)]
  /\ UNCHANGED <<stream, tasks, pc, pcs, pending, ready, creates, refused, late, restarts>>

\* onMatched up to its first await: signals are accepted from here on
OnMatched(e) ==
  /\ call[e] = "waiting"
  /\ signals[e] # <<>> /\ Head(signals[e]).kind = "matched"
  /\ call' = [call EXCEPT ![e] = "in"]
  /\ signals' = [signals EXCEPT ![e] = Tail(@)]
  /\ tasks' = [tasks EXCEPT ![e] =
                @ \cup {[kind |-> "matched", stage |-> "prepare", pc |-> 0, sdp |-> 0]}]
  /\ UNCHANGED <<stream, pc, pcs, pending, ready, creates, refused, late, restarts>>

\* createPeer begins: clear(), then the ice servers are fetched
StartCreate(e) ==
  /\ ClearSolo(e)
  /\ creates' = [creates EXCEPT ![e] = @ + 1]

\* the conversation, the stream and publishStream are there: createPeer.
\* Nothing looks whether the match is still on.
Prepared(e) ==
  \E t \in tasks[e] :
    /\ t.kind = "matched" /\ t.stage = "prepare"
    /\ Becomes(e, t, [t EXCEPT !.stage = "ice"])
    /\ StartCreate(e)
    /\ stream' = [stream EXCEPT ![e] = TRUE]
    /\ UNCHANGED <<call, signals, refused, late, restarts>>

\* ensureStream rejects: onMatched returns and no connection is created
PrepareFails(e) ==
  \E t \in tasks[e] :
    /\ t.kind = "matched" /\ t.stage = "prepare" /\ ~stream[e]
    /\ Forget(e, t)
    /\ refused' = [refused EXCEPT ![e] = TRUE]
    /\ UNCHANGED <<call, stream, signals, pc, pcs, pending, ready, creates, late, restarts>>

\* fetchIceServers answers (with STUN when it fails): the connection replaces
\* whatever soloPcRef held, without closing it
IceFetched(e) ==
  \E t \in tasks[e] :
    LET new == Len(pcs[e]) + 1 IN
    /\ t.stage = "ice" /\ new <= MaxPcs
    /\ pcs' = [pcs EXCEPT ![e] = Append(@, NewPc)]
    /\ pc' = [pc EXCEPT ![e] = new]
    /\ ready' = [ready EXCEPT ![e] = FALSE]
    /\ IF t.kind = "offer"
       THEN Becomes(e, t, [t EXCEPT !.stage = "remote", !.pc = new])
       ELSE IF e = "offerer"
            THEN Becomes(e, t, [t EXCEPT !.stage = "offering", !.pc = new])
            ELSE Forget(e, t)
    /\ UNCHANGED <<call, stream, signals, pending, creates, refused, late, restarts>>

\* createOffer and setLocalDescription are through: the offer goes out
Offered(e) ==
  \E t \in tasks[e] :
    LET here == pcs[e][t.pc] IN
    /\ t.stage = "offering"
    /\ here.open /\ here.sig # "remote"
    /\ pcs' = [pcs EXCEPT ![e][t.pc].sig = "local", ![e][t.pc].gather = TRUE]
    /\ Sending(e, [kind |-> "offer", pc |-> t.pc, of |-> 0])
    /\ Forget(e, t)
    /\ UNCHANGED <<call, stream, pc, pending, ready, creates, refused, late, restarts>>

(***************************************************************************)
(* Signals.  onSignal publishes the stream again (in order, since every    *)
(* call waits for the same graph) and hands the payload to handleSignal.   *)
(***************************************************************************)
Arrives(e, kind) ==
  /\ signals[e] # <<>> /\ Head(signals[e]).kind = kind
  /\ call[e] = "in"

Taken(e) == signals' = [signals EXCEPT ![e] = Tail(@)]

\* an offer for the connection there is
OnOffer(e) ==
  /\ Arrives(e, "offer") /\ pc[e] # 0
  /\ Taken(e)
  /\ tasks' = [tasks EXCEPT ![e] =
        @ \cup {[kind |-> "offer", stage |-> "remote", pc |-> pc[e], sdp |-> Head(signals[e]).pc]}]
  /\ UNCHANGED <<call, stream, pc, pcs, pending, ready, creates, refused, late, restarts>>

\* an offer before there is a connection creates one, if there is a stream
OnEarlyOffer(e) ==
  /\ Arrives(e, "offer") /\ pc[e] = 0
  /\ Taken(e)
  /\ \/ /\ stream[e]
        /\ StartCreate(e)
        /\ tasks' = [tasks EXCEPT ![e] =
              @ \cup {[kind |-> "offer", stage |-> "ice", pc |-> 0, sdp |-> Head(signals[e]).pc]}]
        /\ UNCHANGED refused
     \/ /\ ~stream[e]
        /\ refused' = [refused EXCEPT ![e] = TRUE]
        /\ UNCHANGED <<tasks, pc, pcs, pending, ready, creates>>
  /\ UNCHANGED <<call, stream, late, restarts>>

\* an answer is for the current connection, or for none
OnAnswer(e) ==
  /\ Arrives(e, "answer")
  /\ Taken(e)
  /\ tasks' = IF pc[e] = 0 THEN tasks
              ELSE [tasks EXCEPT ![e] = @ \cup {[kind |-> "answer", stage |-> "remote",
                                     pc |-> pc[e], sdp |-> Head(signals[e]).pc]}]
  /\ UNCHANGED <<call, stream, pc, pcs, pending, ready, creates, refused, late, restarts>>

\* addIceCandidate; it is ignored when the connection is closed, has no remote
\* description or another far connection's
Added(ps, i, cs) ==
  IF ps[i].open /\ ps[i].remote # 0
  THEN [ps EXCEPT ![i].cands = @ \cup (cs \cap {ps[i].remote})] ELSE ps

faulty_OnCandidate(e) ==
  LET c == Head(signals[e]).pc IN
  /\ Arrives(e, "candidate")
  /\ Taken(e)
  /\ pcs' = IF pc[e] = 0 THEN pcs ELSE [pcs EXCEPT ![e] = Added(@, pc[e], {c})]
  /\ UNCHANGED <<pending, call, stream, tasks, pc, ready, creates, refused, late, restarts>>

OnCandidate(e) ==
  LET c == Head(signals[e]).pc IN
  /\ Arrives(e, "candidate")
  /\ Taken(e)
  /\ IF pc[e] = 0 \/ ~ready[e]
     THEN pending' = [pending EXCEPT ![e] = @ \cup {c}] /\ UNCHANGED pcs
     ELSE pcs' = [pcs EXCEPT ![e] = Added(@, pc[e], {c})] /\ UNCHANGED pending
  /\ UNCHANGED <<call, stream, tasks, pc, ready, creates, refused, late, restarts>>

\* setRemoteDescription is through: the candidates waiting are added to that
\* connection.  An offer rolls a local one back; an answer needs a local offer.
RemoteSet(e) ==
  \E t \in tasks[e] :
    LET here == pcs[e][t.pc]
        set  == [pcs[e] EXCEPT ![t.pc].remote = t.sdp,
                               ![t.pc].sig = IF t.kind = "offer" THEN "remote" ELSE "stable"]
    IN
    /\ t.stage = "remote" /\ here.open
    /\ t.kind = "answer" => here.sig = "local"
    /\ pcs' = [pcs EXCEPT ![e] = Added(set, t.pc, pending[e])]
    /\ ready' = [ready EXCEPT ![e] = TRUE]
    /\ pending' = [pending EXCEPT ![e] = {}]
    /\ IF t.kind = "offer" THEN Becomes(e, t, [t EXCEPT !.stage = "answering"])
                           ELSE Forget(e, t)
    /\ UNCHANGED <<call, stream, signals, pc, creates, refused, late, restarts>>

\* createAnswer and setLocalDescription are through: the answer goes out
Answered(e) ==
  \E t \in tasks[e] :
    /\ t.stage = "answering"
    /\ pcs[e][t.pc].open /\ pcs[e][t.pc].sig = "remote"
    /\ pcs' = [pcs EXCEPT ![e][t.pc].sig = "stable", ![e][t.pc].gather = TRUE]
    /\ Sending(e, [kind |-> "answer", pc |-> t.pc, of |-> t.sdp])
    /\ Forget(e, t)
    /\ UNCHANGED <<call, stream, pc, pending, ready, creates, refused, late, restarts>>

\* a promise of a closed connection, or of one in the wrong state, rejects
Rejected(e) ==
  \E t \in tasks[e] :
    /\ t.stage \in {"offering", "remote", "answering"}
    /\ \/ ~pcs[e][t.pc].open
       \/ t.stage = "offering" /\ pcs[e][t.pc].sig = "remote"
       \/ t.kind = "answer" /\ pcs[e][t.pc].sig # "local"
       \/ t.stage = "answering" /\ pcs[e][t.pc].sig # "remote"
    /\ Forget(e, t)
    /\ UNCHANGED <<call, stream, pc, pcs, pending, ready, signals, creates, refused,
                   late, restarts>>

\* pc.onicecandidate of any connection still open, the current one or not
OnIceCandidate(e) ==
  \E i \in DOMAIN pcs[e] :
    /\ pcs[e][i].open /\ pcs[e][i].gather
    /\ pcs' = [pcs EXCEPT ![e][i].gather = FALSE]
    /\ Sending(e, [kind |-> "candidate", pc |-> i, of |-> 0])
    /\ UNCHANGED <<call, stream, tasks, pc, pending, ready, creates, refused, late, restarts>>

\* restartIce: a fresh offer of the current connection, from either end
RestartIce(e) ==
  /\ pc[e] # 0 /\ restarts < MaxRestarts
  /\ restarts' = restarts + 1
  /\ tasks' = [tasks EXCEPT ![e] =
        @ \cup {[kind |-> "matched", stage |-> "offering", pc |-> pc[e], sdp |-> 0]}]
  /\ UNCHANGED <<call, stream, pc, pcs, pending, ready, signals, creates, refused, late>>

(***************************************************************************)
(* The end of the call                                                     *)
(***************************************************************************)
faulty_LeaveSolo(e) ==
  /\ call' = [call EXCEPT ![e] = "left"]
  /\ late' = [late EXCEPT ![e] = Matching(e) # {}]
  /\ UNCHANGED <<pc, pcs, pending, ready>>

LeaveSolo(e) ==
  /\ call' = [call EXCEPT ![e] = "left"]
  /\ late' = [late EXCEPT ![e] = Matching(e) # {}]
  /\ ClearSolo(e)

\* stop and next: the session clears its half, the server tells the other end
HangUp(e) ==
  /\ call[e] = "in"
  /\ LeaveSolo(e)
  /\ Sending(e, [kind |-> "left", pc |-> 0, of |-> 0])
  /\ UNCHANGED <<stream, tasks, creates, refused, restarts>>

\* onPeerLeft
OnPeerLeft(e) ==
  /\ Arrives(e, "left")
  /\ Taken(e)
  /\ LeaveSolo(e)
  /\ UNCHANGED <<stream, tasks, creates, refused, restarts>>

\* acceptingSignals is off: what still arrives is dropped
OnStale(e) ==
  /\ signals[e] # <<>> /\ call[e] = "left"
  /\ Taken(e)
  /\ UNCHANGED <<call, stream, tasks, pc, pcs, pending, ready, creates, refused, late, restarts>>

Promises(e) ==
  \/ Prepared(e) \/ PrepareFails(e) \/ IceFetched(e) \/ Offered(e)
  \/ RemoteSet(e) \/ Answered(e) \/ Rejected(e)

Events(e) ==
  \/ OnMatched(e) \/ OnOffer(e) \/ OnEarlyOffer(e) \/ OnAnswer(e)
  \/ OnCandidate(e) \/ OnIceCandidate(e) \/ OnPeerLeft(e) \/ OnStale(e)

SoloNext ==
  \E e \in End : Promises(e) \/ Events(e) \/ RestartIce(e) \/ HangUp(e)

(***************************************************************************)
(* Promises settle and messages arrive; nobody has to hang up or restart.  *)
(***************************************************************************)
SoloFairness == \A e \in End : WF_soloVars(Promises(e)) /\ WF_soloVars(Events(e))
SoloSpec == SoloInit /\ [][SoloNext]_soloVars /\ SoloFairness

(***************************************************************************)
(* Properties                                                              *)
(***************************************************************************)
\* A connection an end no longer refers to is closed, unless createPeer ran
\* twice in the match: clear() closes what soloPcRef holds, and only a second
\* createPeer can overwrite it unclosed (useWebRTC.ts:297).
OrphansOnlyAfterOverlap ==
  \A e \in End : \A i \in DOMAIN pcs[e] :
    pcs[e][i].open /\ i # pc[e] => creates[e] > 1

\* Once an end has left a call no connection of it goes on publishing the
\* camera, unless createPeer was still on its way when it left.
CameraReleasedAfterCall ==
  \A e \in End :
    call[e] = "left" /\ creates[e] < 2 /\ ~late[e]
      => \A i \in DOMAIN pcs[e] : ~pcs[e][i].open

HasLocal(p) == p.sig = "local" \/ (p.sig = "stable" /\ p.remote # 0)

\* While each end creates one connection, a candidate its peer emitted for it is
\* under way, kept until the description comes, or added: none is lost, although
\* candidates overtake the promises that set descriptions.
NoCandidateLost ==
  \A e \in End :
    LET f == Far(e) IN
    (/\ call[e] = "in" /\ call[f] # "left"
     /\ creates[e] = 1 /\ creates[f] = 1 /\ restarts = 0
     /\ ~refused[e] /\ pc[f] # 0
     /\ HasLocal(pcs[f][1]))
      => \/ pcs[f][1].gather
         \/ \E n \in DOMAIN signals[e] : signals[e][n].kind = "candidate"
         \/ 1 \in pending[e]
         \/ pc[e] # 0 /\ 1 \in pcs[e][1].cands

Joined(e) ==
  LET f == Far(e) IN
  /\ pc[e] # 0 /\ pc[f] # 0
  /\ pcs[e][pc[e]].sig = "stable" /\ pcs[e][pc[e]].remote = pc[f]
  /\ pc[f] \in pcs[e][pc[e]].cands

\* Two matched ends that stay get connected: descriptions and candidates of each
\* end up at the other.  The exceptions are named: an end created its connection
\* twice (an offer came during onMatched's awaits), had no stream when the
\* offer came, or both offered at once after restartIce.
BothWait == \A e \in End : call[e] = "waiting"
Connected ==
  \/ \A e \in End : Joined(e)
  \/ \E e \in End : call[e] = "left" \/ creates[e] > 1 \/ refused[e]
  \/ restarts > 0

MatchedEndsConnect == BothWait ~> Connected
=============================================================================
