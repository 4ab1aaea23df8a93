------------------------------ MODULE Denoise ------------------------------
(***************************************************************************)
(* The noise reduction between the microphone and the peers: useDenoiser,  *)
(* the DenoiserChain, and the session's ways to publish (bumpStream,       *)
(* changeDevice, setDenoiseEnabled).  A callback uses the toggle it was    *)
(* rendered with, whatever the toggle has become after its awaits.         *)
(***************************************************************************)
EXTENDS Naturals, FiniteSets

CONSTANTS Publishers,   \* callbacks that may be under way
          MaxMics,      \* microphone tracks opened
          MaxPublishes

ASSUME DenoiseBounds == MaxMics \in Nat \ {0} /\ MaxPublishes \in Nat

VARIABLES
  denoiseOn,    \* enabled
  mic,          \* the audio track of the raw stream, numbered
  browserNS,    \* its noiseSuppression setting
  graph,        \* the worklet: "none", "building", "ready"
  input,        \* inputTrack, 0 for null
  cached,       \* the track cacheRef holds an output for, 0 for null
  published,    \* what the peers get: "raw" or "denoised", and of which track it was made
  pub,          \* per publisher
  publishes,
  chainGone,    \* the effect's cleanup disposed of the chain
  impaired      \* a graph failed, a constraint was rejected, or callbacks overlapped (history)

denoiseVars == <<denoiseOn, mic, browserNS, graph, input, cached, published, pub, publishes,
                 chainGone, impaired>>

Mic == 1 .. MaxMics
Resting == [at |-> "idle"]
QuietChain == \A k \in Publishers : pub[k] = Resting

DenoiseTypeOK ==
  /\ {denoiseOn, browserNS, chainGone, impaired} \subseteq BOOLEAN
  /\ mic \in Mic /\ input \in Mic \cup {0} /\ cached \in Mic \cup {0}
  /\ graph \in {"none", "building", "ready"}
  /\ published \in [form : {"raw", "denoised"}, of : Mic]
  /\ \A k \in Publishers : pub[k].at \in {"idle", "device", "flip", "graph", "resume"}

DenoiseInit ==
  /\ denoiseOn \in BOOLEAN
  /\ mic = 1 /\ browserNS = ~denoiseOn
  /\ graph = "none" /\ input = 0 /\ cached = 0
  /\ published = [form |-> "raw", of |-> 1]
  /\ pub = [k \in Publishers |-> Resting]
  /\ publishes = 0 /\ chainGone = FALSE
  /\ impaired = FALSE

Goes(k, state) == pub' = [pub EXCEPT ![k] = state]
Feeds(k, f, m) == Goes(k, Resting) /\ published' = [form |-> f, of |-> m]

\* toPublishStream as rendered with the toggle on: attach the chain to track m, or
\* hand out what is attached to it already; replaceTracks follows
faulty_PublishStream(k, on, m) ==
  \/ ~on /\ Feeds(k, "raw", m) /\ UNCHANGED <<graph, cached>>
  \/ on /\ (cached # 0 \/ input = m) /\ Feeds(k, "denoised", m) /\ UNCHANGED <<graph, cached>>
  \/ /\ on /\ cached = 0 /\ input # m
     /\ graph' = IF graph = "none" THEN "building" ELSE graph
     /\ Goes(k, [at |-> IF graph = "ready" THEN "resume" ELSE "graph", mic |-> m])
     /\ UNCHANGED <<published, cached>>

PublishStream(k, on, m) ==
  \/ ~on /\ Feeds(k, "raw", m) /\ UNCHANGED <<graph, cached>>
  \/ on /\ cached = m /\ Feeds(k, "denoised", m) /\ UNCHANGED <<graph, cached>>
  \/ on /\ cached # m /\ input = m /\ Feeds(k, "denoised", m) /\ cached' = m /\ UNCHANGED graph
  \/ /\ on /\ cached # m /\ input # m
     /\ graph' = IF graph = "none" THEN "building" ELSE graph
     /\ Goes(k, [at |-> IF graph = "ready" THEN "resume" ELSE "graph", mic |-> m])
     /\ UNCHANGED <<published, cached>>

StartsPublishing(k) ==
  /\ pub[k] = Resting /\ ~chainGone
  /\ publishes < MaxPublishes /\ publishes' = publishes + 1
  /\ impaired' = (impaired \/ ~QuietChain)

\* bumpStream, or the publish of a new match: the stream is there
Republish(k) ==
  /\ StartsPublishing(k) /\ PublishStream(k, denoiseOn, mic)
  /\ UNCHANGED <<denoiseOn, mic, browserNS, input, chainGone>>

\* changeDevice awaits switchDevice, which opens the track with the toggle of then
ChangeMic(k) ==
  /\ StartsPublishing(k) /\ Goes(k, [at |-> "device", on |-> denoiseOn])
  /\ UNCHANGED <<denoiseOn, mic, browserNS, graph, input, cached, published, chainGone>>

MicOpened(k) ==
  /\ pub[k].at = "device" /\ mic < MaxMics
  /\ mic' = mic + 1 /\ browserNS' = ~denoiseOn
  /\ PublishStream(k, pub[k].on, mic + 1)
  /\ UNCHANGED <<denoiseOn, input, publishes, chainGone, impaired>>

\* setDenoiseEnabled: the toggle flips, the cache goes, the chain is detached; the
\* browser's own suppression follows after an await
ToggleDenoise(k) ==
  /\ StartsPublishing(k)
  /\ denoiseOn' = ~denoiseOn
  /\ cached' = 0
  /\ input' = IF denoiseOn THEN 0 ELSE input
  /\ Goes(k, [at |-> "flip", on |-> denoiseOn])
  /\ UNCHANGED <<mic, browserNS, graph, published, chainGone>>

\* applyConstraints is best effort; the publish uses the toggle of before
Flipped(k) ==
  /\ pub[k].at = "flip"
  /\ \/ browserNS' = pub[k].on /\ UNCHANGED impaired
     \/ UNCHANGED browserNS /\ impaired' = TRUE
  /\ PublishStream(k, pub[k].on, mic)
  /\ UNCHANGED <<denoiseOn, mic, input, publishes, chainGone>>

\* buildGraph is over: every attach that awaited it resumes the context
GraphBuilt ==
  /\ graph = "building" /\ graph' = "ready"
  /\ pub' = [k \in Publishers |-> IF pub[k].at = "graph" THEN [pub[k] EXCEPT !.at = "resume"] ELSE pub[k]]
  /\ UNCHANGED <<denoiseOn, mic, browserNS, input, cached, published, publishes, chainGone, impaired>>

\* or it failed (a wrong rate, no init within its time): teardown; each publishes its raw stream
GraphFailed ==
  /\ graph = "building" /\ graph' = "none" /\ input' = 0
  /\ \E k \in Publishers : pub[k].at = "graph" /\ published' = [form |-> "raw", of |-> pub[k].mic]
  /\ pub' = [k \in Publishers |-> IF pub[k].at = "graph" THEN Resting ELSE pub[k]]
  /\ impaired' = TRUE
  /\ UNCHANGED <<denoiseOn, mic, browserNS, cached, publishes, chainGone>>

\* the source of the old track is disconnected, the new one takes its place
Attached(k) ==
  /\ pub[k].at = "resume"
  /\ IF graph = "none"
     THEN Feeds(k, "raw", pub[k].mic) /\ UNCHANGED <<input, cached>>
     ELSE Feeds(k, "denoised", pub[k].mic) /\ input' = pub[k].mic /\ cached' = pub[k].mic
  /\ UNCHANGED <<denoiseOn, mic, browserNS, graph, publishes, chainGone, impaired>>

Dispose ==
  /\ ~chainGone /\ chainGone' = TRUE
  /\ graph' = "none" /\ input' = 0 /\ cached' = 0
  /\ pub' = [k \in Publishers |-> IF pub[k].at = "graph" THEN [pub[k] EXCEPT !.at = "resume"] ELSE pub[k]]
  /\ UNCHANGED <<denoiseOn, mic, browserNS, published, publishes, impaired>>

DenoiseNext ==
  \/ \E k \in Publishers : \/ Republish(k) \/ ChangeMic(k) \/ MicOpened(k) \/ ToggleDenoise(k)
                           \/ Flipped(k) \/ Attached(k)
  \/ GraphBuilt \/ GraphFailed \/ Dispose

DenoiseSpec == DenoiseInit /\ [][DenoiseNext]_denoiseVars

(***************************************************************************)
(* Properties                                                              *)
(***************************************************************************)
\* Peers that get the denoised track hear the microphone in use: however devices
\* were changed and the toggle was flipped, once no callback is under way the
\* worklet is fed by the current track (useDenoiser.ts:45, denoiser.ts:263-300).
DenoisedMicHeard ==
  QuietChain /\ ~impaired /\ ~chainGone /\ published.form = "denoised"
    => input = mic /\ published.of = mic
=============================================================================
