---------------------------- MODULE LinkQuality ----------------------------
(***************************************************************************)
(* The quality badge of a call: the tiers that connection events set and   *)
(* the periodic getStats samples, which await the browser and are written  *)
(* when they come, whatever has become of their connection.  Solo and mesh *)
(* calls share one quality and one set of link metrics.                    *)
(***************************************************************************)
EXTENDS Integers, FiniteSets, FiniteSetsExt

CONSTANTS Links,        \* peer connections, numbered in the order they are opened
          MaxLinkings,  \* calls of createPeer and createMeshPeers
          MaxPackets,   \* received, or lost, that a sample counts
          MaxSamples

ASSUME LinkBounds == Links \subseteq Nat \ {0} /\ {MaxLinkings, MaxPackets, MaxSamples} \subseteq Nat

VARIABLES
  meshed,    \* a group's connections, each with its seed; or a 1:1's, one seed for all
  link,      \* connectionState, per link: "unborn" before it is made
  wired,      \* the connections the page holds: soloPcRef, or those in peersRef
  linkings, linking,  \* calls that make connections: how many there were, and those under way
  cutShort,  \* those of them that a clear() came in the way of (history)
  lateBorn,  \* connections such a call made (history)
  looping,   \* the stats timers that run, each known by its seed
  seed,      \* the counters of the last sample; of each link when meshed
  sampling,  \* getStats calls under way: link and seed of then
  tier,      \* quality
  metrics,   \* linkStats.lossPct, -1 for null
  samples,
  orphaned     \* the badge was written by, or left by, a connection no longer kept (history)

linkVars == <<meshed, link, wired, linkings, linking, cutShort, lateBorn, looping, seed,
              sampling, tier, metrics, samples, orphaned>>

Tier == {"idle", "connecting", "good", "poor", "failed"}
Counters == [recv : 0 .. MaxPackets, lost : 0 .. MaxPackets]
NoSeed == [recv |-> -1, lost |-> -1]
Alive(l) == link[l] \notin {"unborn", "closed"}
SeedOf(l) == IF meshed THEN l ELSE 0

LinkTypeOK ==
  /\ meshed \in BOOLEAN /\ orphaned \in BOOLEAN
  /\ link \in [Links -> {"unborn", "new", "connecting", "connected", "disconnected", "failed", "closed"}]
  /\ wired \cup lateBorn \subseteq {l \in Links : link[l] # "unborn"}
  /\ linkings \in 0 .. MaxLinkings /\ cutShort \subseteq linking /\ linking \subseteq 1 .. linkings
  /\ looping \subseteq Links \cup {0}
  /\ seed \in [Links \cup {0} -> Counters \cup {NoSeed}]
  /\ \A s \in sampling : s.of \in Links /\ s.since \in Counters \cup {NoSeed}
  /\ tier \in Tier /\ metrics \in Int /\ samples \in 0 .. MaxSamples

LinkInit ==
  /\ meshed \in BOOLEAN
  /\ link = [l \in Links |-> "unborn"]
  /\ wired = {} /\ linkings = 0 /\ linking = {} /\ cutShort = {} /\ lateBorn = {}
  /\ looping = {} /\ sampling = {}
  /\ seed = [s \in Links \cup {0} |-> NoSeed]
  /\ tier = "idle" /\ metrics = -1 /\ samples = 0 /\ orphaned = FALSE

(***************************************************************************)
(* readLinkStats and qualityFromLink                                       *)
(***************************************************************************)
AtLeast0(n) == Max({0, n})
Percent(lost, all) == Min({100, (lost * 100) \div all})

\* loss over the window since the last sample, clamped at a restarted counter; without
\* a window that counts, the loss so far; without null
LossOf(now, since) ==
  LET recv == AtLeast0(now.recv - since.recv)
      lost == AtLeast0(now.lost - since.lost)
  IN IF since # NoSeed /\ recv + lost > 0 THEN Percent(lost, recv + lost)
     ELSE IF now.recv + now.lost > 0 THEN Percent(now.lost, now.recv + now.lost)
     ELSE -1

\* rtt: the class of the round-trip time, "low", "high" (280 ms) or "awful" (450 ms)
TierOf(state, loss, rtt, starved) ==
  CASE state \in {"failed", "closed"} -> "failed"
    [] state \in {"new", "connecting"} -> "connecting"
    [] state = "disconnected" -> "poor"
    [] OTHER -> IF \/ rtt = "awful" \/ loss >= 4
                   \/ rtt = "high" /\ loss >= 2     \* 1.5 and up
                   \/ starved /\ loss >= 2          \* under 40 kbps
                THEN "poor" ELSE "good"

(***************************************************************************)
(* Sampling                                                                *)
(***************************************************************************)
LinksStand == UNCHANGED <<meshed, wired, linkings, linking, cutShort, lateBorn>>

\* sampleStats, sampleSoloStats up to the await: what the timer t is about, unless it failed
Sampled(t, since, state) ==
  sampling' = sampling \cup {[of |-> l, since |-> since] :
                               l \in {k \in wired : SeedOf(k) = t /\ state[k] # "failed"}}

\* a solo timer ends itself once no connection is kept; a peer's ends with its peer
TimerTick(t) ==
  /\ t \in looping /\ samples < MaxSamples /\ samples' = samples + 1
  /\ IF \E l \in wired : SeedOf(l) = t
     THEN Sampled(t, seed[t], link) /\ UNCHANGED <<looping, seed>>
     ELSE /\ looping' = looping \ {t} /\ seed' = [seed EXCEPT ![t] = NoSeed]
          /\ UNCHANGED sampling
  /\ LinksStand /\ UNCHANGED <<link, tier, metrics, orphaned>>

\* getStats answers, whatever was counted; a good call does not go back to connecting
StatsCome ==
  \E s \in sampling, now \in Counters : \E rtt \in {"low", "high", "awful"}, starved \in BOOLEAN :
    LET loss == LossOf(now, s.since)
        t == TierOf(link[s.of], loss, rtt, starved)
    IN /\ sampling' = sampling \ {s}
       /\ seed' = [seed EXCEPT ![SeedOf(s.of)] = now]
       /\ metrics' = loss
       /\ tier' = IF t = "connecting" /\ tier = "good" THEN tier ELSE t
       /\ orphaned' = (orphaned \/ s.of \notin wired)
       /\ LinksStand /\ UNCHANGED <<link, looping, samples>>

\* or throws, when the connection is closing
StatsThrow ==
  /\ \E s \in sampling : link[s.of] = "closed" /\ sampling' = sampling \ {s}
  /\ LinksStand /\ UNCHANGED <<link, looping, seed, tier, metrics, samples, orphaned>>

(***************************************************************************)
(* Connections                                                             *)
(***************************************************************************)
\* clear(): what is kept is closed and forgotten
Cleared ==
  /\ link' = [l \in Links |-> IF l \in wired THEN "closed" ELSE link[l]]
  /\ wired' = {} /\ looping' = {}
  /\ seed' = [s \in DOMAIN seed |-> NoSeed]
  /\ metrics' = -1 /\ orphaned' = FALSE
  /\ UNCHANGED <<meshed, lateBorn, sampling, samples>>

\* createPeer, createMeshPeers up to the await for the ice servers
AskLinks ==
  /\ linkings < MaxLinkings /\ linkings' = linkings + 1
  /\ linking' = linking \cup {linkings + 1}
  /\ Cleared /\ tier' = "connecting"
  /\ UNCHANGED cutShort

\* they have come: a connection is made.  A 1:1's takes the place of one that another call
\* made meanwhile, which stays open; a mesh awaits an offer and goes on to the next peer.
CreateLink(c, l) ==
  /\ c \in linking /\ link[l] = "unborn" /\ link' = [link EXCEPT ![l] = "new"]
  /\ lateBorn' = (IF c \in cutShort THEN lateBorn \cup {l} ELSE lateBorn)
  /\ IF meshed THEN wired' = wired \cup {l} /\ UNCHANGED <<linking, cutShort>>
     ELSE wired' = {l} /\ linking' = linking \ {c} /\ cutShort' = cutShort \ {c}
  /\ UNCHANGED <<meshed, linkings, looping, seed, sampling, tier, metrics, samples, orphaned>>

\* a mesh is through with its participants, those that had a peer by then left out
LinksMade(c) ==
  /\ meshed /\ c \in linking /\ linking' = linking \ {c} /\ cutShort' = cutShort \ {c}
  /\ orphaned' = (orphaned \/ wired = {})
  /\ UNCHANGED <<meshed, link, wired, linkings, lateBorn, looping, seed, sampling, tier,
                 metrics, samples>>

faulty_ClearLinks ==
  /\ Cleared /\ cutShort' = linking
  /\ UNCHANGED <<linkings, linking, tier>>

ClearLinks ==
  /\ Cleared /\ cutShort' = linking /\ tier' = "idle"
  /\ UNCHANGED <<linkings, linking>>

\* removePeer: the badge stays as it was, also when this was the last one
RemoveLink(l) ==
  /\ meshed /\ l \in wired /\ wired' = wired \ {l}
  /\ link' = [link EXCEPT ![l] = "closed"]
  /\ looping' = looping \ {l} /\ seed' = [seed EXCEPT ![l] = NoSeed]
  /\ orphaned' = (orphaned \/ wired = {l})
  /\ UNCHANGED <<meshed, linkings, linking, cutShort, lateBorn, sampling, tier, metrics, samples>>

\* startStatsLoop: a fresh seed and a sample at once
Loops(t, state) ==
  /\ samples < MaxSamples /\ samples' = samples + 1
  /\ looping' = looping \cup {t}
  /\ seed' = [seed EXCEPT ![t] = NoSeed]
  /\ Sampled(t, NoSeed, state)

NoLoop == UNCHANGED <<looping, seed, sampling, samples>>

\* onconnectionstatechange
ConnectionChanges(l, s) ==
  /\ Alive(l) /\ link[l] # s
  /\ link' = [link EXCEPT ![l] = s]
  /\ \/ /\ s = "connected" /\ Loops(SeedOf(l), link')
        /\ tier' = IF meshed /\ tier = "poor" THEN tier ELSE "good"
     \/ s = "connecting" /\ tier' = "connecting" /\ NoLoop
     \/ s = "disconnected" /\ tier' = "poor" /\ NoLoop
     \/ /\ s = "failed" /\ tier' = "failed"
        /\ looping' = looping \ {SeedOf(l)} /\ seed' = [seed EXCEPT ![SeedOf(l)] = NoSeed]
        /\ UNCHANGED <<sampling, samples>>
  /\ orphaned' = (orphaned \/ l \notin wired)
  /\ LinksStand /\ UNCHANGED metrics

\* oniceconnectionstatechange, ontrack: ahead of or behind the connection state
IceChanges(l) ==
  /\ Alive(l)
  /\ \/ tier' = "failed" /\ NoLoop
     \/ tier' = "good" /\ meshed /\ Loops(SeedOf(l), link)
     \/ tier' = "good" /\ (meshed => link[l] = "connected") /\ NoLoop
  /\ orphaned' = (orphaned \/ l \notin wired)
  /\ LinksStand /\ UNCHANGED <<link, metrics>>

LinkNext ==
  \/ StatsCome \/ StatsThrow \/ AskLinks \/ ClearLinks
  \/ \E c \in 1 .. MaxLinkings : LinksMade(c) \/ \E l \in Links : CreateLink(c, l)
  \/ \E t \in Links \cup {0} : TimerTick(t)
  \/ \E l \in Links :
       \/ RemoveLink(l) \/ IceChanges(l)
       \/ \E s \in {"connecting", "connected", "disconnected", "failed"} : ConnectionChanges(l, s)

LinkSpec == LinkInit /\ [][LinkNext]_linkVars

(***************************************************************************)
(* Properties                                                              *)
(***************************************************************************)
\* An idle badge stands over no connection the page keeps, but for those made by a call
\* that clear() found waiting (useWebRTC.ts:237, 295-297).  Any other badge is about a
\* connection kept or being made, unless one that is not kept any more wrote it, with a late
\* sample or an event, or the last peers of a mesh are gone, which leaves it (264-289).
BadgeOfCall ==
  /\ tier = "idle" => wired \subseteq lateBorn
  /\ tier # "idle" => wired # {} \/ linking # {} \/ orphaned
=============================================================================
