----------------------------- MODULE PageProofs -----------------------------
(***************************************************************************)
(* Invariants of the parts of the page that a call is made of, and of      *)
(* those that hold what people chose, wrote and play: the devices and the  *)
(* noise reduction, the stage and the badge, the preferences and the       *)
(* profile editor, the conversations and the lists of people, the          *)
(* activities of a call and the game.  Each has a section of its own, over *)
(* its own variables, with a lemma that it starts true, one that its steps *)
(* keep it and one that says what it means.                                *)
(***************************************************************************)
EXTENDS Media, Denoise, LinkQuality, CallStage, Preferences, ProfileEditor,
        SocialChat, SocialRoster, CallParty, TicTacToe, FiniteSetTheorems,
        WellFoundedInduction, TLAPS


-----------------------------------------------------------------------------
\* Every non-empty set of natural numbers has a least element.
LEMMA LeastNumber ==
  ASSUME NEW T \in SUBSET Nat, T # {}
  PROVE  \E n \in T : \A m \in T : n <= m
<1> DEFINE R == {ss \in Nat \X Nat : ss[1] < ss[2]}
<1>1. IsWellFoundedOn(R, Nat)
  BY NatLessThanWellFounded DEF OpToRel
<1>2. \E n \in T : \A m \in T : ~ (<<m, n>> \in R)
  <2> HIDE DEF R
  <2> QED BY <1>1, WFMin
<1>3. PICK n \in T : \A m \in T : ~ (<<m, n>> \in R)
  BY <1>2
<1>4. ASSUME NEW m \in T PROVE n <= m
  <2>1. m \in Nat /\ n \in Nat
    OBVIOUS
  <2>2. m < n => <<m, n>> \in R
    BY <2>1
  <2> QED BY <1>3, <2>1, <2>2
<1> QED BY <1>4

-----------------------------------------------------------------------------
(* The stage: who has the floor.                                           *)

\* Levels are percentages; only participants and our own tile have streams and meters; the
\* floor is with an entry of the last sample, a pin on a tile that is there.
StageInv ==
  /\ present \subseteq Speakers /\ streaming \subseteq present \cup {Ours}
  /\ metered \cup DOMAIN smooth \subseteq Speakers \cup {Ours}
  /\ \A p \in DOMAIN smooth : smooth[p] \in 0 .. 100
  /\ floor \in DOMAIN smooth \cup {Nobody} /\ pinned \in Tiles \cup {Nobody}
  /\ FloorIsHeard

\* A smoothed level is a level.
LEMMA SmoothedIs == ASSUME NEW a \in 0 .. 100, NEW b \in 0 .. 100 PROVE Smoothed(a, b) \in 0 .. 100
<1>1. CASE b > a
  <2>1. PICK d \in 0 .. 100 : d = b - a
    BY <1>1
  <2>2. (d * 55) \div 100 \in 0 .. d
    BY <2>1
  <2> QED BY <1>1, <2>1, <2>2 DEF Smoothed
<1>2. CASE ~(b > a)
  <2>1. PICK d \in 0 .. 100 : d = a - b
    BY <1>2
  <2>2. (d * 18) \div 100 \in 0 .. d
    BY <2>1
  <2> QED BY <1>2, <2>1, <2>2 DEF Smoothed
<1> QED BY <1>1, <1>2

\* Where somebody makes a sound somebody is the loudest.
LEMMA SomeLoudest ==
  ASSUME NEW s, \A p \in DOMAIN s : s[p] \in 0 .. 100, NEW best \in Loudest(s),
         NEW q \in DOMAIN s, s[q] > 0
  PROVE  best \in DOMAIN s /\ s[best] >= s[q]
<1> DEFINE Quieter(n) == n \in Nat /\ \E p \in DOMAIN s : n = 100 - s[p]
<1>1. Quieter(100 - s[q])
  OBVIOUS
<1>2. PICK n : Quieter(n) /\ \A m \in Nat : Quieter(m) => n <= m
  <2> DEFINE S == {n \in Nat : Quieter(n)}
  <2>1. PICK n \in S : \A m \in S : n <= m
    <3>1. S # {} /\ S \subseteq Nat
      BY <1>1
    <3> HIDE DEF S
    <3> QED BY <3>1, LeastNumber
  <2> QED BY <2>1
<1>3. PICK p \in DOMAIN s : n = 100 - s[p]
  BY <1>2
<1>4. ASSUME NEW r \in DOMAIN s PROVE s[p] >= s[r]
  <2>1. Quieter(100 - s[r])
    OBVIOUS
  <2> HIDE DEF Quieter
  <2> QED BY <1>2, <1>3, <2>1
<1>5. p \in {r \in DOMAIN s : s[r] > 0 /\ \A t \in DOMAIN s : s[r] >= s[t]}
  BY <1>4
<1> QED BY <1>5 DEF Loudest

\* Whoever is loudest gets the floor from somebody who cannot be heard.
LEMMA ElectedIsHeard ==
  ASSUME NEW s, \A p \in DOMAIN s : s[p] \in 0 .. 100, Nobody \notin DOMAIN s,
         NEW best \in Loudest(s), NEW q \in DOMAIN s, s[q] >= SpeechOn
  PROVE  Audible(s, Elected(s, best))
<1>1. best \in DOMAIN s /\ s[best] >= SpeechOn
  BY SomeLoudest DEF SpeechOn
<1>2. best # Nobody /\ LevelOf(s, best) \in 0 .. 100 /\ LevelOf(s, best) >= SpeechOn
  BY <1>1 DEF LevelOf
<1>3. Audible(s, best)
  BY <1>2 DEF Audible, SpeechOn, SpeechOff
<1>4. CASE Elected(s, best) = best
  BY <1>3, <1>4
<1>5. CASE Elected(s, best) # best
  <2>1. Elected(s, best) = floor /\ floor # Nobody /\ floor # best
    BY <1>2, <1>5 DEF Elected
  <2>2. SUFFICES ASSUME ~Audible(s, floor) PROVE FALSE
    BY <2>1
  <2>3. Elected(s, best) = best
    BY <1>2, <2>1, <2>2 DEF Elected
  <2> QED BY <1>5, <2>3
<1> QED BY <1>4, <1>5

\* The floor goes to an entry of the sample, or to nobody.
LEMMA ElectedIs ==
  ASSUME NEW s, NEW best \in Loudest(s) PROVE Elected(s, best) \in DOMAIN s \cup {Nobody}
<1>1. best \in DOMAIN s \cup {Nobody}
  BY DEF Loudest
<1> QED BY <1>1 DEF Elected

LEMMA StageStart == ASSUME StageInit PROVE StageInv
  BY DEF StageInit, StageInv, FloorIsHeard

LEMMA LevelsKeep == ASSUME StageInv, SampleLevels PROVE StageInv'
<1>1. PICK raw \in [metered -> Loudness] :
        smooth' = [p \in metered |-> Smoothed(LevelOf(smooth, p), raw[p])]
  BY DEF SampleLevels
<1>2. PICK best \in Loudest(smooth') : floor' = Elected(smooth', best)
  BY ZenonT(40) DEF SampleLevels
<1>3. ASSUME NEW p \in metered PROVE smooth'[p] \in 0 .. 100
  <2>1. LevelOf(smooth, p) \in 0 .. 100
    BY DEF StageInv, LevelOf
  <2>2. raw[p] \in 0 .. 100
    BY <1>1, StageConstants
  <2>3. smooth'[p] = Smoothed(LevelOf(smooth, p), raw[p])
    BY <1>1
  <2> QED BY ONLY <2>1, <2>2, <2>3, SmoothedIs, ZenonT(40)
<1>4. DOMAIN smooth' = metered
  BY <1>1
<1>5. Nobody \notin DOMAIN smooth'
  BY <1>4, StageConstants DEF StageInv, Nobody, Ours
<1>6. FloorIsHeard'
  <2>1. SUFFICES ASSUME NEW q \in DOMAIN smooth', smooth'[q] >= SpeechOn
                 PROVE  Audible(smooth', floor')
    BY DEF FloorIsHeard
  <2> QED BY <1>2, <1>3, <1>4, <1>5, <2>1, ElectedIsHeard
<1>7. UNCHANGED <<present, streaming, metered, pinned>>
  BY DEF SampleLevels
<1>8. floor' \in DOMAIN smooth' \cup {Nobody}
  BY <1>2, ElectedIs
<1>9. Tiles' = Tiles
  BY <1>7 DEF Tiles
<1> QED BY <1>3, <1>4, <1>6, <1>7, <1>8, <1>9 DEF StageInv

\* Levels and floor as they were.
LEMMA FloorStill == ASSUME StageInv, UNCHANGED <<smooth, floor>> PROVE FloorIsHeard'
  BY DEF StageInv, FloorIsHeard, Audible, LevelOf

LEMMA LeavesKeep == ASSUME StageInv, NEW p \in Speakers, Leaves(p) PROVE StageInv'
<1>1. present' = present \ {p} /\ streaming' = streaming \ {p} /\ p \in present
  BY DEF Leaves
<1>2. present' \subseteq Speakers /\ streaming' \subseteq present' \cup {Ours}
  BY <1>1 DEF StageInv
<1>3. CASE present = {p}
  <2>1. DOMAIN smooth' = {} /\ metered' = {} /\ floor' = Nobody /\ pinned' = Nobody
    BY <1>3 DEF Leaves
  <2> QED BY <1>2, <2>1 DEF StageInv, FloorIsHeard
<1>4. CASE present # {p}
  <2>1. UNCHANGED <<smooth, floor, metered>> /\ pinned' = (IF pinned = p THEN Nobody ELSE pinned)
    BY <1>4 DEF Leaves
  <2>2. Tiles = present \cup {Ours} /\ Tiles' = present' \cup {Ours}
    BY <1>1, <1>4 DEF Tiles
  <2>3. pinned' \in Tiles' \cup {Nobody}
    BY <1>1, <2>1, <2>2 DEF StageInv
  <2> QED BY <1>2, <2>1, <2>3, FloorStill DEF StageInv
<1> QED BY <1>3, <1>4

LEMMA JoinsKeep == ASSUME StageInv, NEW p \in Speakers, Joins(p) PROVE StageInv'
<1>1. /\ present' = present \cup {p} /\ metered' \subseteq metered \cup streaming
      /\ UNCHANGED <<streaming, smooth, floor, pinned>>
  BY DEF Joins
<1>2. Tiles' = present' \cup {Ours} /\ Tiles \subseteq Tiles'
  BY <1>1 DEF Tiles
<1>3. present' \subseteq Speakers /\ streaming \subseteq present' \cup {Ours}
  BY <1>1 DEF StageInv
<1> QED BY <1>1, <1>2, <1>3, FloorStill DEF StageInv

LEMMA StreamsKeep ==
  ASSUME StageInv, NEW p \in Speakers \cup {Ours}, StreamComes(p) \/ StreamGoes(p) \/ Pin(p)
  PROVE  StageInv'
<1>1. UNCHANGED <<present, smooth, floor>>
  BY DEF StreamComes, StreamGoes, Pin
<1>2. Tiles' = Tiles
  BY <1>1 DEF Tiles
<1>3. streaming' \subseteq streaming \cup ((present \cup {Ours}) \cap {p})
  BY DEF StreamComes, StreamGoes, Pin
<1>4. metered' \subseteq metered \cup {p}
  BY DEF StreamComes, StreamGoes, Pin
<1>5. pinned' \in Tiles \cup {pinned, Nobody}
  BY DEF StreamComes, StreamGoes, Pin
<1> QED BY <1>1, <1>2, <1>3, <1>4, <1>5, FloorStill DEF StageInv

LEMMA StageStep == ASSUME StageInv, [StageNext]_stageVars PROVE StageInv'
<1>1. CASE UNCHANGED stageVars
  <2>1. UNCHANGED <<present, streaming, metered, smooth, floor, pinned>>
    BY <1>1 DEF stageVars
  <2>2. Tiles' = Tiles
    BY <2>1 DEF Tiles
  <2> QED BY <2>1, <2>2, FloorStill DEF StageInv
<1> QED BY <1>1, LeavesKeep, JoinsKeep, StreamsKeep, LevelsKeep DEF StageNext

\* What the spotlight falls back to is a tile.
LEMMA FallbackIsATile == ASSUME StageInv, present # {} PROVE Fallback \in Tiles
<1>1. Tiles = present \cup {Ours} /\ streaming \subseteq Tiles
  BY DEF Tiles, StageInv
<1>2. CASE streaming # {} /\ streaming # {Ours}
  <2>1. \E p \in streaming : p # Ours
    BY <1>2
  <2>2. (CHOOSE p \in streaming : p # Ours) \in streaming
    BY <2>1
  <2> QED BY <1>1, <1>2, <2>2 DEF Fallback
<1>3. CASE streaming = {} \/ streaming = {Ours}
  <2>1. (CHOOSE p \in present : TRUE) \in present
    OBVIOUS
  <2> QED BY <1>1, <1>3, <2>1 DEF Fallback
<1> QED BY <1>2, <1>3

LEMMA StageMeans == ASSUME StageInv PROVE FloorIsHeard /\ SpotlightHolds
<1>1. ASSUME present # {}, MainTiles = {} PROVE pinned = Nobody /\ floor \in DOMAIN smooth \ Tiles
  <2>1. MainId \notin Tiles
    BY <1>1 DEF MainTiles
  <2>2. pinned = Nobody
    BY <2>1 DEF MainId, StageInv
  <2>3. floor # Nobody
    BY <1>1, <2>1, <2>2, FallbackIsATile DEF MainId
  <2> QED BY <2>1, <2>2, <2>3 DEF MainId, StageInv
<1> QED BY <1>1 DEF StageInv, SpotlightHolds

-----------------------------------------------------------------------------
(* The badge: while it is idle no call that makes connections goes on but  *)
(* those a clear() came in the way of.                                     *)

BadgeInv ==
  /\ tier = "idle" => linking \subseteq cutShort
  /\ BadgeOfCall

\* No sample says that the call is idle.
LEMMA SamplesSay ==
  ASSUME NEW state, NEW loss, NEW rtt, NEW starved PROVE TierOf(state, loss, rtt, starved) # "idle"
<1>1. CASE state \in {"failed", "closed"}
  BY <1>1 DEF TierOf
<1>2. CASE state \in {"new", "connecting"}
  BY <1>2 DEF TierOf
<1>3. CASE state = "disconnected"
  BY <1>3 DEF TierOf
<1>4. CASE state \notin {"failed", "closed", "new", "connecting", "disconnected"}
  BY <1>4 DEF TierOf
<1> QED BY <1>1, <1>2, <1>3, <1>4

LEMMA BadgeStart == ASSUME LinkInit PROVE BadgeInv
  BY DEF LinkInit, BadgeInv, BadgeOfCall

\* The same connections, kept and in the making, and a badge about one of them or the same.
LEMMA BadgeStill ==
  ASSUME BadgeInv, LinksStand,
         \/ UNCHANGED <<tier, orphaned>>
         \/ tier' # "idle" /\ \E l : orphaned' = (orphaned \/ l \notin wired)
  PROVE  BadgeInv'
  BY DEF BadgeInv, BadgeOfCall, LinksStand

LEMMA StatsKeep == ASSUME BadgeInv, StatsCome PROVE BadgeInv'
<1>1. PICK s \in sampling : \E rtt, starved, loss :
        LET t == TierOf(link[s.of], loss, rtt, starved)
        IN /\ tier' = IF t = "connecting" /\ tier = "good" THEN tier ELSE t
           /\ orphaned' = (orphaned \/ s.of \notin wired)
           /\ LinksStand
  BY DEF StatsCome
<1>2. tier' # "idle"
  BY <1>1, SamplesSay
<1> QED BY <1>1, <1>2, BadgeStill

LEMMA AsksKeep == ASSUME BadgeInv, AskLinks PROVE BadgeInv'
<1>1. tier' = "connecting" /\ linkings + 1 \in linking'
  BY DEF AskLinks
<1> QED BY <1>1 DEF BadgeInv, BadgeOfCall

LEMMA CreatesKeep ==
  ASSUME BadgeInv, NEW c \in 1 .. MaxLinkings, NEW l \in Links, CreateLink(c, l)
  PROVE  BadgeInv'
<1>1. /\ c \in linking /\ UNCHANGED <<tier, orphaned>>
      /\ lateBorn' = IF c \in cutShort THEN lateBorn \cup {l} ELSE lateBorn
      /\ \/ wired' = wired \cup {l} /\ UNCHANGED <<linking, cutShort>>
         \/ wired' = {l} /\ linking' = linking \ {c} /\ cutShort' = cutShort \ {c}
  BY DEF CreateLink
<1>2. l \in wired' /\ wired' \subseteq wired \cup {l} /\ lateBorn \subseteq lateBorn'
  BY <1>1
<1>3. linking \subseteq cutShort => linking' \subseteq cutShort'
  BY <1>1
<1>4. tier = "idle" => l \in lateBorn' /\ wired \subseteq lateBorn
  BY <1>1 DEF BadgeInv, BadgeOfCall
<1> QED BY <1>1, <1>2, <1>3, <1>4 DEF BadgeInv, BadgeOfCall

LEMMA MadeKeep == ASSUME BadgeInv, NEW c \in 1 .. MaxLinkings, LinksMade(c) PROVE BadgeInv'
  BY DEF LinksMade, BadgeInv, BadgeOfCall

LEMMA ClearsKeep == ASSUME BadgeInv, ClearLinks PROVE BadgeInv'
  BY DEF ClearLinks, Cleared, BadgeInv, BadgeOfCall

LEMMA RemovesKeep == ASSUME BadgeInv, NEW l \in Links, RemoveLink(l) PROVE BadgeInv'
  BY DEF RemoveLink, BadgeInv, BadgeOfCall

LEMMA ConnectionsKeep ==
  ASSUME BadgeInv, NEW l \in Links,
         NEW s \in {"connecting", "connected", "disconnected", "failed"}, ConnectionChanges(l, s)
  PROVE  BadgeInv'
<1>1. tier' # "idle" /\ LinksStand /\ orphaned' = (orphaned \/ l \notin wired)
  BY DEF ConnectionChanges
<1> QED BY <1>1, BadgeStill

LEMMA IceKeeps == ASSUME BadgeInv, NEW l \in Links, IceChanges(l) PROVE BadgeInv'
<1>1. tier' # "idle" /\ LinksStand /\ orphaned' = (orphaned \/ l \notin wired)
  BY DEF IceChanges
<1> QED BY <1>1, BadgeStill

LEMMA BadgeStep == ASSUME BadgeInv, [LinkNext]_linkVars PROVE BadgeInv'
<1>1. CASE UNCHANGED linkVars \/ StatsThrow
  BY <1>1, BadgeStill DEF linkVars, StatsThrow, LinksStand
<1>2. ASSUME NEW t \in Links \cup {0}, TimerTick(t) PROVE BadgeInv'
  BY <1>2, BadgeStill DEF TimerTick
<1> QED BY <1>1, <1>2, StatsKeep, AsksKeep, CreatesKeep, MadeKeep, ClearsKeep, RemovesKeep,
           IceKeeps, ConnectionsKeep DEF LinkNext

-----------------------------------------------------------------------------
(* Devices: unless calls overlap, a call that waits for a stream left none *)
(* behind, and one that switches a device found a stream.                  *)

StreamTyped == stream = Null \/ DOMAIN stream = Kind

CallsTyped ==
  /\ DOMAIN call = Acquirers
  /\ \A k \in Acquirers :
       /\ call[k].at \in {"idle", "try", "list", "other", "switch"}
       /\ call[k].at = "idle" => call[k] = NoCall
       /\ call[k].at = "switch" => call[k].kind \in Kind

OneCall == \A j, k \in Acquirers : Busy(j) /\ Busy(k) => j = k

\* What a call found, or left, in streamRef.
CallSees(k) ==
  /\ call[k].at \in {"try", "list", "other"} => stream = Null
  /\ call[k].at = "switch" => stream # Null

MediaInv ==
  /\ StreamTyped /\ CallsTyped /\ MuteHolds
  /\ ~overlapped =>
       /\ ~leaked /\ OneCall
       /\ \A k \in Acquirers : CallSees(k) /\ (mediaGone => ~Busy(k))

LEMMA KindIs == Kind = {"video", "audio"} /\ Null # [kd \in Kind |-> 0] /\ DOMAIN Null = {}
  BY DEF Kind, Null

LEMMA MediaStart == ASSUME MediaInit PROVE MediaInv
  BY DEF MediaInit, MediaInv, StreamTyped, CallsTyped, MuteHolds, OneCall, CallSees, Busy, NoCall

\* The tracks that are published carry the buttons of the page.
LEMMA PublishIs ==
  ASSUME NEW d, Publish(d), UNCHANGED <<muted, cameraOn>>
  PROVE  /\ StreamTyped' /\ MuteHolds' /\ stream' # Null
<1>1. stream' = [kd \in Kind |-> Track(d[kd], Wanted[kd])]
  BY DEF Publish
<1>2. DOMAIN stream' = Kind /\ \A kd \in Kind : stream'[kd].on = Wanted[kd]
  BY <1>1 DEF Track
<1>3. stream' # Null
  BY <1>2, KindIs
<1>4. Wanted' = Wanted
  BY DEF Wanted
<1> QED BY <1>2, <1>3, <1>4 DEF StreamTyped, MuteHolds

\* A new call, when no other is under way.
LEMMA OneStarts ==
  ASSUME MediaInv, NEW k \in Acquirers, Starts(k)
  PROVE  /\ ~mediaGone /\ ~Busy(k) /\ UNCHANGED <<mediaGone, muted, cameraOn, leaked>>
         /\ ~overlapped' => ~overlapped /\ \A j \in Acquirers : ~Busy(j)
  BY DEF Starts, fixedVars

\* What a call does to the list of calls.
LEMMA CallMoves ==
  ASSUME CallsTyped, NEW k \in Acquirers, NEW c, call' = [call EXCEPT ![k] = c],
         c.at \in {"idle", "try", "list", "other", "switch"}, c.at = "idle" => c = NoCall,
         c.at = "switch" => c.kind \in Kind
  PROVE  /\ CallsTyped' /\ call'[k] = c
         /\ \A j \in Acquirers : j # k => call'[j] = call[j]
  BY DEF CallsTyped

\* Who is busy is so alone, on a page that is there.
LEMMA BusyAlone ==
  ASSUME MediaInv, ~overlapped, NEW k \in Acquirers, Busy(k)
  PROVE  ~leaked /\ ~mediaGone /\ CallSees(k) /\ \A j \in Acquirers : j # k => ~Busy(j)
  BY DEF MediaInv, OneCall

\* One call moves on and sees what it is to see.
LEMMA OneMoves ==
  ASSUME NEW k \in Acquirers, StreamTyped', CallsTyped', MuteHolds',
         \A j \in Acquirers : j # k => call'[j] = call[j],
         ~overlapped' => /\ ~leaked' /\ ~mediaGone' /\ CallSees(k)'
                         /\ \A j \in Acquirers : j # k => ~Busy(j)
  PROVE  MediaInv'
<1>1. SUFFICES ASSUME ~overlapped'
               PROVE  /\ ~leaked' /\ OneCall'
                      /\ \A j \in Acquirers : CallSees(j)' /\ (mediaGone' => ~Busy(j)')
  BY DEF MediaInv
<1>2. \A j \in Acquirers : j # k => ~Busy(j)'
  BY <1>1 DEF Busy
<1>3. ASSUME NEW j \in Acquirers, j # k PROVE CallSees(j)'
  BY <1>2, <1>3 DEF CallSees, Busy, NoCall
<1> QED BY <1>1, <1>2, <1>3 DEF OneCall

LEMMA AcquireIs ==
  ASSUME CallsTyped, NEW k \in Acquirers, NEW want, NEW force, Acquire(k, want, force)
  PROVE  /\ CallsTyped' /\ \A j \in Acquirers : j # k => call'[j] = call[j]
         /\ \/ call'[k] = NoCall /\ UNCHANGED stream
            \/ call'[k].at = "try" /\ stream' = Null
<1>1. CASE call' = [call EXCEPT ![k] = NoCall] /\ UNCHANGED stream
  <2>1. NoCall.at = "idle"
    BY DEF NoCall
  <2> QED BY <1>1, <2>1, CallMoves
<1>2. CASE /\ call' = [call EXCEPT ![k] = [at |-> "try", want |-> want, modes |-> Attempts(want)]]
           /\ stream' = Null
  <2>1. PICK c : c = [at |-> "try", want |-> want, modes |-> Attempts(want)]
    OBVIOUS
  <2>2. c.at = "try"
    BY <2>1
  <2>3. call' = [call EXCEPT ![k] = c]
    BY <1>2, <2>1
  <2> QED BY <1>2, <2>2, <2>3, CallMoves
<1> QED BY <1>1, <1>2 DEF Acquire

\* Where a call starts to acquire, it sees nothing that it does not own.
LEMMA AcquiringKeeps ==
  ASSUME MediaInv, NEW k \in Acquirers, NEW want, NEW force, Acquire(k, want, force),
         UNCHANGED <<muted, cameraOn>>,
         ~overlapped' => /\ ~leaked' /\ ~mediaGone'
                         /\ \A j \in Acquirers : j # k => ~Busy(j)
  PROVE  MediaInv'
<1>1. CallsTyped
  BY DEF MediaInv
<1>2. /\ CallsTyped' /\ \A j \in Acquirers : j # k => call'[j] = call[j]
      /\ \/ call'[k] = NoCall /\ UNCHANGED stream
         \/ call'[k].at = "try" /\ stream' = Null
  BY <1>1, AcquireIs
<1>3. StreamTyped' /\ MuteHolds'
  BY <1>2 DEF MediaInv, StreamTyped, MuteHolds, Wanted
<1>4. CallSees(k)'
  BY <1>2 DEF CallSees, NoCall
<1> QED BY <1>2, <1>3, <1>4, OneMoves

LEMMA EnsuringKeeps == ASSUME MediaInv, NEW k \in Acquirers, EnsureStream(k) PROVE MediaInv'
<1>1. PICK force \in BOOLEAN : Acquire(k, picked, force)
  BY DEF EnsureStream
<1>2. Starts(k)
  BY DEF EnsureStream
<1>3. UNCHANGED <<muted, cameraOn>>
  BY <1>2, OneStarts
<1>4. ~overlapped' => /\ ~leaked' /\ ~mediaGone' /\ \A j \in Acquirers : j # k => ~Busy(j)
  BY <1>2, OneStarts DEF MediaInv
<1> QED BY <1>1, <1>3, <1>4, AcquiringKeeps

LEMMA SwitchingKeeps == ASSUME MediaInv, NEW k \in Acquirers, SwitchDevice(k) PROVE MediaInv'
<1>1. PICK kd \in Kind : \E id \in DevicesOf[kd] \cup {0} :
        LET want == [picked EXCEPT ![kd] = id] IN
        /\ Starts(k)
        /\ IF stream = Null THEN Acquire(k, want, FALSE)
           ELSE /\ call' = [call EXCEPT ![k] = [at |-> "switch", want |-> want, kind |-> kd]]
                /\ UNCHANGED stream
  BY DEF SwitchDevice
<1>2. PICK want : /\ Starts(k)
                  /\ IF stream = Null THEN Acquire(k, want, FALSE)
                     ELSE /\ call' = [call EXCEPT ![k] = [at |-> "switch", want |-> want, kind |-> kd]]
                          /\ UNCHANGED stream
  BY <1>1
<1>3. UNCHANGED <<muted, cameraOn>>
  BY <1>2, OneStarts
<1>4. ~overlapped' => /\ ~leaked' /\ ~mediaGone' /\ \A j \in Acquirers : j # k => ~Busy(j)
  BY <1>2, OneStarts DEF MediaInv
<1>5. CASE stream = Null
  BY <1>2, <1>3, <1>4, <1>5, AcquiringKeeps
<1>6. CASE stream # Null
  <2>1. PICK c : c = [at |-> "switch", want |-> want, kind |-> kd]
    OBVIOUS
  <2>2. c.at = "switch" /\ c.kind \in Kind /\ CallsTyped
    BY <2>1 DEF MediaInv
  <2>3. call' = [call EXCEPT ![k] = c] /\ UNCHANGED stream
    BY <1>2, <1>6, <2>1
  <2>4. CallsTyped' /\ call'[k] = c /\ \A j \in Acquirers : j # k => call'[j] = call[j]
    BY <2>2, <2>3, CallMoves
  <2>5. StreamTyped' /\ MuteHolds'
    BY <1>3, <2>3 DEF MediaInv, StreamTyped, MuteHolds, Wanted
  <2>6. CallSees(k)'
    BY <1>6, <2>2, <2>3, <2>4 DEF CallSees
  <2> QED BY <1>4, <2>4, <2>5, <2>6, OneMoves
<1> QED BY <1>5, <1>6

\* A stream comes for a call that waits for one.
LEMMA GrantKeeps ==
  ASSUME MediaInv, NEW k \in Acquirers, call[k].at \in {"try", "other"}, NEW d, Publish(d), Done(k),
         UNCHANGED <<fixedVars, overlapped>>
  PROVE  MediaInv'
<1>1. UNCHANGED <<muted, cameraOn, mediaGone, overlapped>>
  BY DEF fixedVars
<1>2. StreamTyped' /\ MuteHolds'
  BY <1>1, PublishIs
<1>3. Busy(k)
  BY DEF Busy, NoCall
<1>4. CallsTyped /\ NoCall.at = "idle" /\ call' = [call EXCEPT ![k] = NoCall]
  BY DEF MediaInv, NoCall, Done
<1>5. CallsTyped' /\ call'[k] = NoCall /\ \A j \in Acquirers : j # k => call'[j] = call[j]
  BY <1>4, CallMoves
<1>6. CallSees(k)'
  BY <1>4, <1>5 DEF CallSees
<1>7. ASSUME ~overlapped'
      PROVE  ~leaked' /\ ~mediaGone' /\ \A j \in Acquirers : j # k => ~Busy(j)
  <2>1. ~leaked /\ ~mediaGone /\ CallSees(k) /\ \A j \in Acquirers : j # k => ~Busy(j)
    BY <1>1, <1>3, <1>7, BusyAlone
  <2>2. stream = Null
    BY <2>1 DEF CallSees
  <2>3. ~LiveStream
    BY <2>2 DEF LiveStream
  <2> QED BY <1>1, <2>1, <2>3 DEF Publish
<1> QED BY <1>2, <1>5, <1>6, <1>7, OneMoves

LEMMA GrantsKeep == ASSUME MediaInv, NEW k \in Acquirers, Granted(k) \/ OtherGranted(k) PROVE MediaInv'
<1>1. CASE Granted(k)
  <2>1. PICK d : Publish(d)
    BY <1>1 DEF Granted
  <2>2. call[k].at \in {"try", "other"} /\ Done(k) /\ UNCHANGED <<fixedVars, overlapped>>
    BY <1>1 DEF Granted
  <2> QED BY <2>1, <2>2, GrantKeeps
<1>2. CASE OtherGranted(k)
  <2>1. PICK d : Publish(d)
    BY <1>2 DEF OtherGranted
  <2>2. call[k].at \in {"try", "other"} /\ Done(k) /\ UNCHANGED <<fixedVars, overlapped>>
    BY <1>2 DEF OtherGranted
  <2> QED BY <2>1, <2>2, GrantKeeps
<1> QED BY <1>1, <1>2

\* A call that waits for a stream goes on waiting, or gives up.
LEMMA WaitingKeeps ==
  ASSUME MediaInv, NEW k \in Acquirers, call[k].at \in {"try", "list", "other"},
         NEW c, call' = [call EXCEPT ![k] = c],
         c = NoCall \/ c.at \in {"try", "list", "other"}, stream' \in {stream, Null},
         UNCHANGED <<muted, cameraOn, mediaGone, overlapped, leaked>>
  PROVE  MediaInv'
<1>1. Busy(k)
  BY DEF Busy, NoCall
<1>2. CallsTyped /\ NoCall.at = "idle" /\ NoCall.at # "switch"
  BY DEF MediaInv, NoCall
<1>3. c.at \in {"idle", "try", "list", "other"} /\ (c.at = "idle" => c = NoCall)
  BY <1>2
<1>4. CallsTyped' /\ call'[k] = c /\ \A j \in Acquirers : j # k => call'[j] = call[j]
  BY <1>2, <1>3, CallMoves
<1>5. StreamTyped' /\ MuteHolds'
  BY DEF MediaInv, StreamTyped, MuteHolds, Wanted
<1>6. ASSUME ~overlapped'
      PROVE  ~leaked' /\ ~mediaGone' /\ CallSees(k)' /\ \A j \in Acquirers : j # k => ~Busy(j)
  <2>1. ~leaked /\ ~mediaGone /\ CallSees(k) /\ \A j \in Acquirers : j # k => ~Busy(j)
    BY <1>1, <1>6, BusyAlone
  <2>2. stream' = Null
    BY <2>1 DEF CallSees
  <2>3. CallSees(k)'
    BY <1>3, <1>4, <2>2 DEF CallSees
  <2> QED BY <2>1, <2>3
<1> QED BY <1>4, <1>5, <1>6, OneMoves

LEMMA DenialsKeep == ASSUME MediaInv, NEW k \in Acquirers, Denied(k) PROVE MediaInv'
<1>1. call[k].at \in {"try", "list", "other"} /\ UNCHANGED <<muted, cameraOn, mediaGone, overlapped, leaked>>
  BY DEF Denied, fixedVars
<1>2. stream' \in {stream, Null}
  BY DEF Denied
<1>3. PICK c : call' = [call EXCEPT ![k] = c] /\ c.at \in {"try", "list", "other"}
  <2>1. CASE call' = [call EXCEPT ![k] = [at |-> "list", want |-> call[k].want]]
    <3>1. PICK c : c = [at |-> "list", want |-> call[k].want]
      OBVIOUS
    <3>2. call' = [call EXCEPT ![k] = c] /\ c.at = "list"
      BY <2>1, <3>1
    <3> QED BY <3>2
  <2>2. CASE call' = [call EXCEPT ![k].modes = Tail(@)]
    <3>1. [call[k] EXCEPT !.modes = Tail(@)].at = call[k].at
      OBVIOUS
    <3> QED BY <1>1, <2>2, <3>1
  <2> QED BY <2>1, <2>2 DEF Denied
<1> QED BY <1>1, <1>2, <1>3, WaitingKeeps

LEMMA OthersKeep ==
  ASSUME MediaInv, NEW k \in Acquirers, ListCameras(k) \/ OtherDenied(k) PROVE MediaInv'
<1>1. call[k].at \in {"try", "list", "other"} /\ UNCHANGED <<muted, cameraOn, mediaGone, overlapped, leaked>>
  BY DEF ListCameras, OtherDenied, fixedVars
<1>2. PICK cams : TryOther(k, cams)
  BY DEF ListCameras, OtherDenied
<1>3. stream' \in {stream, Null}
  BY <1>2 DEF TryOther, GivesUp
<1>4. PICK c : call' = [call EXCEPT ![k] = c] /\ (c = NoCall \/ c.at \in {"try", "list", "other"})
  BY <1>2 DEF TryOther, GivesUp, Done
<1> QED BY <1>1, <1>3, <1>4, WaitingKeeps

LEMMA SwitchDeniedKeeps == ASSUME MediaInv, NEW k \in Acquirers, SwitchDenied(k) PROVE MediaInv'
<1>1. Acquire(k, call[k].want, FALSE) /\ UNCHANGED <<muted, cameraOn, mediaGone, overlapped, leaked>>
  BY DEF SwitchDenied, fixedVars
<1>2. Busy(k)
  BY DEF SwitchDenied, Busy, NoCall
<1>3. ~overlapped' => /\ ~leaked' /\ ~mediaGone' /\ \A j \in Acquirers : j # k => ~Busy(j)
  BY <1>1, <1>2, BusyAlone
<1> QED BY <1>1, <1>3, AcquiringKeeps

LEMMA SwitchGrantedKeeps == ASSUME MediaInv, NEW k \in Acquirers, SwitchGranted(k) PROVE MediaInv'
<1>1. UNCHANGED <<muted, cameraOn, mediaGone, overlapped>> /\ call[k].at = "switch"
  BY DEF SwitchGranted, fixedVars
<1>2. Busy(k)
  BY <1>1 DEF Busy, NoCall
<1>3. ~overlapped' => /\ ~leaked /\ ~mediaGone' /\ CallSees(k)
                      /\ \A j \in Acquirers : j # k => ~Busy(j)
  BY <1>1, <1>2, BusyAlone
<1>4. CASE stream = Null
  <2>1. overlapped'
    BY <1>1, <1>3, <1>4 DEF CallSees
  <2>2. Acquire(k, call[k].want, FALSE)
    BY <1>4 DEF SwitchGranted
  <2> QED BY <1>1, <2>1, <2>2, AcquiringKeeps
<1>5. CASE stream # Null
  <2>1. PICK kd \in Kind : kd = call[k].kind
    BY <1>1 DEF MediaInv, CallsTyped
  <2>2. PICK d : stream' = [stream EXCEPT ![kd] = Track(d, Wanted[kd])]
    BY <1>5, <2>1 DEF SwitchGranted
  <2>3. Done(k) /\ UNCHANGED leaked
    BY <1>5 DEF SwitchGranted
  <2>4. DOMAIN stream = Kind
    BY <1>5 DEF MediaInv, StreamTyped
  <2>5. DOMAIN stream' = Kind /\ stream'[kd].on = Wanted[kd]
        /\ \A other \in Kind : other # kd => stream'[other] = stream[other]
    BY <2>2, <2>4 DEF Track
  <2>6. StreamTyped' /\ stream' # Null
    BY <2>5, KindIs DEF StreamTyped
  <2>7. Wanted' = Wanted
    BY <1>1 DEF Wanted
  <2>8. MuteHolds'
    BY <1>5, <2>5, <2>7 DEF MediaInv, MuteHolds
  <2>9. CallsTyped /\ NoCall.at = "idle" /\ call' = [call EXCEPT ![k] = NoCall]
    BY <2>3 DEF MediaInv, NoCall, Done
  <2>10. CallsTyped' /\ call'[k] = NoCall /\ \A j \in Acquirers : j # k => call'[j] = call[j]
    BY <2>9, CallMoves
  <2>11. CallSees(k)'
    BY <2>9, <2>10 DEF CallSees
  <2> QED BY <1>3, <2>3, <2>6, <2>8, <2>10, <2>11, OneMoves
<1> QED BY <1>4, <1>5

\* What leaves the calls alone, and a stream where there was one.
LEMMA CallsRest ==
  ASSUME MediaInv, UNCHANGED <<call, leaked, overlapped, mediaGone>>,
         StreamTyped', MuteHolds', stream = Null <=> stream' = Null
  PROVE  MediaInv'
<1>1. CallsTyped' /\ (OneCall => OneCall')
  BY DEF MediaInv, CallsTyped, OneCall, Busy
<1>2. ASSUME NEW k \in Acquirers PROVE (CallSees(k) => CallSees(k)') /\ (Busy(k)' => Busy(k))
  BY DEF CallSees, Busy
<1> QED BY <1>1, <1>2 DEF MediaInv

LEMMA UnplugKeeps == ASSUME MediaInv, Unplug PROVE MediaInv'
<1>1. UNCHANGED <<call, leaked, overlapped, mediaGone, muted, cameraOn>>
  BY DEF Unplug
<1>2. Wanted' = Wanted
  BY <1>1 DEF Wanted
<1>3. CASE UNCHANGED stream
  <2>1. StreamTyped' /\ MuteHolds'
    BY <1>2, <1>3 DEF MediaInv, StreamTyped, MuteHolds
  <2> QED BY <1>1, <1>3, <2>1, CallsRest
<1>4. CASE stream # Null /\ \E kd \in Kind : stream' = [stream EXCEPT ![kd].live = FALSE]
  <2>1. PICK kd \in Kind : stream' = [stream EXCEPT ![kd].live = FALSE]
    BY <1>4
  <2>2. DOMAIN stream = Kind
    BY <1>4 DEF MediaInv, StreamTyped
  <2>3. DOMAIN stream' = Kind /\ \A other \in Kind : stream'[other].on = stream[other].on
    BY <2>1, <2>2
  <2>4. StreamTyped' /\ stream' # Null
    BY <2>3, KindIs DEF StreamTyped
  <2>5. MuteHolds'
    BY <1>2, <1>4, <2>3 DEF MediaInv, MuteHolds
  <2> QED BY <1>1, <1>4, <2>4, <2>5, CallsRest
<1> QED BY <1>3, <1>4 DEF Unplug

LEMMA ToggleKeeps == ASSUME MediaInv, Toggle PROVE MediaInv'
<1>1. UNCHANGED <<call, leaked, overlapped, mediaGone>>
  BY DEF Toggle
<1>2. PICK kd \in Kind : Flip(kd) /\ Wanted'[kd] = ~Wanted[kd]
                         /\ \A other \in Kind : other # kd => Wanted'[other] = Wanted[other]
  BY DEF Toggle, Wanted, Kind
<1>3. CASE stream = Null
  <2>1. stream' = Null
    BY <1>2, <1>3 DEF Flip
  <2>2. StreamTyped' /\ MuteHolds'
    BY <2>1 DEF StreamTyped, MuteHolds
  <2> QED BY <1>1, <1>3, <2>1, <2>2, CallsRest
<1>4. CASE stream # Null
  <2>1. DOMAIN stream = Kind /\ stream' = [stream EXCEPT ![kd].on = ~Wanted[kd]]
    BY <1>2, <1>4 DEF MediaInv, StreamTyped, Flip
  <2>2. DOMAIN stream' = Kind /\ stream'[kd].on = ~Wanted[kd]
        /\ \A other \in Kind : other # kd => stream'[other] = stream[other]
    BY <2>1
  <2>3. StreamTyped' /\ stream' # Null
    BY <2>2, KindIs DEF StreamTyped
  <2>4. MuteHolds'
    BY <1>2, <1>4, <2>2 DEF MediaInv, MuteHolds
  <2> QED BY <1>1, <1>4, <2>3, <2>4, CallsRest
<1> QED BY <1>3, <1>4

LEMMA DeviceChangeKeeps == ASSUME MediaInv, DeviceChange PROVE MediaInv'
<1>1. UNCHANGED <<call, leaked, overlapped, mediaGone, muted, cameraOn, stream>>
  BY DEF DeviceChange
<1>2. StreamTyped' /\ MuteHolds'
  BY <1>1 DEF MediaInv, StreamTyped, MuteHolds, Wanted
<1> QED BY <1>1, <1>2, CallsRest

LEMMA UnmountKeeps == ASSUME MediaInv, Unmount PROVE MediaInv'
<1>1. UNCHANGED <<call, leaked>> /\ stream' = Null /\ mediaGone'
      /\ (overlapped' <=> overlapped \/ \E j \in Acquirers : Busy(j))
  BY DEF Unmount
<1>2. StreamTyped' /\ MuteHolds' /\ CallsTyped'
  BY <1>1 DEF MediaInv, StreamTyped, MuteHolds, CallsTyped
<1>3. ASSUME ~overlapped', NEW k \in Acquirers PROVE call'[k] = NoCall
  BY <1>1, <1>3 DEF Busy
<1>4. ~overlapped' => ~leaked'
  BY <1>1 DEF MediaInv
<1> QED BY <1>2, <1>3, <1>4 DEF MediaInv, OneCall, CallSees, Busy, NoCall

LEMMA MediaStep == ASSUME MediaInv, [MediaNext]_mediaVars PROVE MediaInv'
<1>1. CASE UNCHANGED mediaVars
  <2>1. UNCHANGED <<call, leaked, overlapped, mediaGone, muted, cameraOn, stream>>
    BY <1>1 DEF mediaVars
  <2>2. StreamTyped' /\ MuteHolds'
    BY <2>1 DEF MediaInv, StreamTyped, MuteHolds, Wanted
  <2> QED BY <2>1, <2>2, CallsRest
<1> QED BY <1>1, EnsuringKeeps, GrantsKeep, DenialsKeep, OthersKeep, SwitchingKeeps, SwitchGrantedKeeps,
           SwitchDeniedKeeps, UnplugKeeps, DeviceChangeKeeps, ToggleKeeps, UnmountKeeps DEF MediaNext

-----------------------------------------------------------------------------
(* Noise reduction: unless callbacks overlap, what is attached or on its   *)
(* way to be attached is the microphone in use.                            *)

OnePublisher == \A j, k \in Publishers : pub[j] # Resting /\ pub[k] # Resting => j = k

PubTyped ==
  /\ mic \in Nat /\ mic # 0 /\ DOMAIN pub = Publishers
  /\ \A k \in Publishers : pub[k] = Resting \/ pub[k].at \in {"device", "flip", "graph", "resume"}

\* A track that waits for the worklet is the one in use.
Attaching(k) == pub[k].at \in {"graph", "resume"} => pub[k].mic = mic

PeersHear == published.form = "denoised" => input = mic /\ published.of = mic

ChainInv ==
  /\ PubTyped
  /\ ~impaired /\ ~chainGone =>
       /\ OnePublisher /\ cached \in {0, input}
       /\ \A k \in Publishers : Attaching(k)
       /\ QuietChain => PeersHear

LEMMA ChainStart == ASSUME DenoiseInit PROVE ChainInv
  BY DenoiseBounds DEF DenoiseInit, ChainInv, PubTyped, OnePublisher, Attaching, PeersHear, QuietChain, Resting

\* What a publisher does to the list of publishers.
LEMMA GoesIs ==
  ASSUME PubTyped, mic' \in Nat, mic' # 0, NEW k \in Publishers, NEW c, Goes(k, c),
         c = Resting \/ c.at \in {"device", "flip", "graph", "resume"}
  PROVE  /\ PubTyped' /\ pub'[k] = c
         /\ \A j \in Publishers : j # k => pub'[j] = pub[j]
  BY DEF PubTyped, Goes

\* The others rest, one goes on.
LEMMA OneGoes ==
  ASSUME NEW k \in Publishers, PubTyped',
         ~impaired' /\ ~chainGone' =>
           /\ \A j \in Publishers : j # k => pub'[j] = Resting
           /\ cached' \in {0, input'} /\ Attaching(k)'
           /\ pub'[k] = Resting => PeersHear'
  PROVE  ChainInv'
<1>1. SUFFICES ASSUME ~impaired', ~chainGone'
               PROVE  /\ OnePublisher' /\ cached' \in {0, input'}
                      /\ \A j \in Publishers : Attaching(j)'
                      /\ QuietChain' => PeersHear'
  BY DEF ChainInv
<1>2. \A j \in Publishers : Attaching(j)'
  BY <1>1 DEF Attaching, Resting
<1> QED BY <1>1, <1>2 DEF OnePublisher, QuietChain

\* A publisher hands out what carries the microphone in use, or waits for the worklet with it.
LEMMA PublishStreamIs ==
  ASSUME PubTyped, mic' \in Nat, mic' # 0, NEW k \in Publishers, NEW on,
         PublishStream(k, on, mic'), cached \in {0, input} \/ impaired' \/ chainGone', UNCHANGED input
  PROVE  /\ PubTyped' /\ \A j \in Publishers : j # k => pub'[j] = pub[j]
         /\ ~impaired' /\ ~chainGone' =>
              /\ cached' \in {0, input'} /\ Attaching(k)'
              /\ pub'[k] = Resting => PeersHear'
<1>1. CASE Feeds(k, "raw", mic') /\ UNCHANGED cached
  <2>1. PubTyped' /\ pub'[k] = Resting /\ \A j \in Publishers : j # k => pub'[j] = pub[j]
    BY <1>1, GoesIs DEF Feeds
  <2>2. published'.form = "raw"
    BY <1>1 DEF Feeds
  <2> QED BY <1>1, <2>1, <2>2 DEF Attaching, Resting, PeersHear
<1>2. CASE /\ Feeds(k, "denoised", mic')
           /\ (cached = mic' /\ UNCHANGED cached) \/ (input = mic' /\ cached' = mic')
  <2>1. PubTyped' /\ pub'[k] = Resting /\ \A j \in Publishers : j # k => pub'[j] = pub[j]
    BY <1>2, GoesIs DEF Feeds
  <2>2. published'.of = mic'
    BY <1>2 DEF Feeds
  <2> QED BY <1>2, <2>1, <2>2 DEF Attaching, Resting, PeersHear
<1>3. CASE /\ UNCHANGED cached
           /\ Goes(k, [at |-> IF graph = "ready" THEN "resume" ELSE "graph", mic |-> mic'])
  <2>1. PICK c : c = [at |-> IF graph = "ready" THEN "resume" ELSE "graph", mic |-> mic']
    OBVIOUS
  <2>2. c.at \in {"resume", "graph"} /\ c.mic = mic' /\ Goes(k, c)
    BY <1>3, <2>1
  <2>3. PubTyped' /\ pub'[k] = c /\ \A j \in Publishers : j # k => pub'[j] = pub[j]
    BY <2>2, GoesIs
  <2> QED BY <1>3, <2>2, <2>3 DEF Attaching, Resting
<1> QED BY <1>1, <1>2, <1>3 DEF PublishStream

\* A callback that begins finds the others resting, or they overlap.
LEMMA BeginsAlone ==
  ASSUME ChainInv, NEW k \in Publishers, StartsPublishing(k), UNCHANGED chainGone, ~impaired'
  PROVE  ~impaired /\ ~chainGone /\ (\A j \in Publishers : pub[j] = Resting) /\ cached \in {0, input}
  BY DEF StartsPublishing, ChainInv, QuietChain

\* One that goes on is the only one.
LEMMA GoesOnAlone ==
  ASSUME ChainInv, NEW k \in Publishers, pub[k] # Resting, ~impaired, ~chainGone
  PROVE  (\A j \in Publishers : j # k => pub[j] = Resting) /\ cached \in {0, input} /\ Attaching(k)
  BY DEF ChainInv, OnePublisher

\* A step that publishes.
LEMMA PublishingKeeps ==
  ASSUME ChainInv, mic' \in Nat, mic' # 0, NEW k \in Publishers, NEW on, PublishStream(k, on, mic'),
         UNCHANGED <<input, chainGone>>,
         ~impaired' /\ ~chainGone' => cached \in {0, input} /\ \A j \in Publishers : j # k => pub[j] = Resting
  PROVE  ChainInv'
<1>1. PubTyped
  BY DEF ChainInv
<1>2. cached \in {0, input} \/ impaired' \/ chainGone'
  OBVIOUS
<1>3. /\ PubTyped' /\ \A j \in Publishers : j # k => pub'[j] = pub[j]
      /\ ~impaired' /\ ~chainGone' =>
           /\ cached' \in {0, input'} /\ Attaching(k)'
           /\ pub'[k] = Resting => PeersHear'
  BY <1>1, <1>2, PublishStreamIs
<1> QED BY <1>3, OneGoes

LEMMA RepublishKeeps == ASSUME ChainInv, NEW k \in Publishers, Republish(k) PROVE ChainInv'
<1>1. UNCHANGED <<mic, input, chainGone>> /\ mic' \in Nat /\ mic' # 0
  BY DEF Republish, ChainInv, PubTyped
<1>2. PublishStream(k, denoiseOn, mic') /\ StartsPublishing(k)
  BY <1>1 DEF Republish
<1>3. ~impaired' /\ ~chainGone' => cached \in {0, input} /\ \A j \in Publishers : j # k => pub[j] = Resting
  BY <1>1, <1>2, BeginsAlone
<1> QED BY <1>1, <1>2, <1>3, PublishingKeeps

LEMMA MicOpenedKeeps == ASSUME ChainInv, NEW k \in Publishers, MicOpened(k) PROVE ChainInv'
<1>1. mic' = mic + 1 /\ mic' \in Nat /\ mic' # 0 /\ UNCHANGED <<input, chainGone, impaired>>
  BY DEF MicOpened, ChainInv, PubTyped
<1>2. PublishStream(k, pub[k].on, mic')
  BY <1>1 DEF MicOpened
<1>3. pub[k] # Resting
  BY DEF MicOpened, Resting
<1>4. ~impaired' /\ ~chainGone' => cached \in {0, input} /\ \A j \in Publishers : j # k => pub[j] = Resting
  BY <1>1, <1>3, GoesOnAlone
<1> QED BY <1>1, <1>2, <1>4, PublishingKeeps

LEMMA FlippedKeeps == ASSUME ChainInv, NEW k \in Publishers, Flipped(k) PROVE ChainInv'
<1>1. UNCHANGED <<mic, input, chainGone>> /\ mic' \in Nat /\ mic' # 0 /\ (~impaired' => ~impaired)
  BY DEF Flipped, ChainInv, PubTyped
<1>2. PublishStream(k, pub[k].on, mic')
  BY <1>1 DEF Flipped
<1>3. pub[k] # Resting
  BY DEF Flipped, Resting
<1>4. ~impaired' /\ ~chainGone' => cached \in {0, input} /\ \A j \in Publishers : j # k => pub[j] = Resting
  BY <1>1, <1>3, GoesOnAlone
<1> QED BY <1>1, <1>2, <1>4, PublishingKeeps

LEMMA CallbacksKeep ==
  ASSUME ChainInv, NEW k \in Publishers, ChangeMic(k) \/ ToggleDenoise(k) PROVE ChainInv'
<1>1. StartsPublishing(k) /\ UNCHANGED <<mic, chainGone>>
  BY DEF ChangeMic, ToggleDenoise
<1>2. PICK c : Goes(k, c) /\ c.at \in {"device", "flip"}
  <2>1. CASE Goes(k, [at |-> "device", on |-> denoiseOn])
    <3>1. PICK c : c = [at |-> "device", on |-> denoiseOn]
      OBVIOUS
    <3>2. Goes(k, c) /\ c.at = "device"
      BY <2>1, <3>1
    <3> QED BY <3>2
  <2>2. CASE Goes(k, [at |-> "flip", on |-> denoiseOn])
    <3>1. PICK c : c = [at |-> "flip", on |-> denoiseOn]
      OBVIOUS
    <3>2. Goes(k, c) /\ c.at = "flip"
      BY <2>2, <3>1
    <3> QED BY <3>2
  <2> QED BY <2>1, <2>2 DEF ChangeMic, ToggleDenoise
<1>3. PubTyped /\ mic' \in Nat /\ mic' # 0
  BY <1>1 DEF ChainInv, PubTyped
<1>4. PubTyped' /\ pub'[k] = c /\ \A j \in Publishers : j # k => pub'[j] = pub[j]
  BY <1>2, <1>3, GoesIs
<1>5. pub'[k] # Resting /\ Attaching(k)'
  BY <1>2, <1>4 DEF Resting, Attaching
<1>6. ASSUME ~impaired' PROVE (\A j \in Publishers : pub[j] = Resting) /\ cached' \in {0, input'}
  <2>1. (\A j \in Publishers : pub[j] = Resting) /\ cached \in {0, input}
    BY <1>1, <1>6, BeginsAlone
  <2> QED BY <2>1 DEF ChangeMic, ToggleDenoise
<1> QED BY <1>4, <1>5, <1>6, OneGoes

LEMMA GraphsKeep == ASSUME ChainInv, GraphBuilt \/ GraphFailed \/ Dispose PROVE ChainInv'
<1>1. UNCHANGED mic
  BY DEF GraphBuilt, GraphFailed, Dispose
<1>2. DOMAIN pub' = Publishers /\ DOMAIN pub = Publishers
  BY DEF GraphBuilt, GraphFailed, Dispose, ChainInv, PubTyped
<1>3. ASSUME NEW k \in Publishers
      PROVE  pub'[k] = pub[k] \/ pub'[k] = Resting
             \/ (pub[k].at = "graph" /\ pub'[k] = [pub[k] EXCEPT !.at = "resume"])
  BY DEF GraphBuilt, GraphFailed, Dispose
<1>4. CASE GraphFailed \/ Dispose
  <2>1. impaired' \/ chainGone'
    BY <1>4 DEF GraphFailed, Dispose
  <2>2. PubTyped'
    <3>1. ASSUME NEW k \in Publishers
          PROVE  pub'[k] = Resting \/ pub'[k].at \in {"device", "flip", "graph", "resume"}
      <4>1. CASE pub'[k] \in {pub[k], Resting}
        BY <4>1 DEF ChainInv, PubTyped
      <4>2. CASE pub[k].at = "graph" /\ pub'[k] = [pub[k] EXCEPT !.at = "resume"]
        <5>1. pub[k] # Resting
          BY <4>2 DEF Resting
        <5>2. DOMAIN [pub[k] EXCEPT !.at = "resume"] = DOMAIN pub[k]
          OBVIOUS
        <5> QED BY <4>2, <5>1, <5>2
      <4> QED BY <1>3, <4>1, <4>2
    <3> QED BY <1>1, <1>2, <3>1 DEF ChainInv, PubTyped
  <2> QED BY <2>1, <2>2 DEF ChainInv
<1>5. CASE GraphBuilt
  <2>1. UNCHANGED <<input, cached, published, chainGone, impaired>>
    BY <1>5 DEF GraphBuilt
  <2>2. ASSUME NEW k \in Publishers
        PROVE  /\ pub'[k] = Resting \/ pub'[k].at \in {"device", "flip", "graph", "resume"}
               /\ pub'[k] = Resting <=> pub[k] = Resting
               /\ Attaching(k) => Attaching(k)'
    <3>1. pub'[k] = IF pub[k].at = "graph" THEN [pub[k] EXCEPT !.at = "resume"] ELSE pub[k]
      BY <1>5 DEF GraphBuilt
    <3>2. CASE pub[k].at = "graph"
      <4>1. pub[k] # Resting
        BY <3>2 DEF Resting
      <4>2. PICK c : c = [pub[k] EXCEPT !.at = "resume"]
        OBVIOUS
      <4>3. pub'[k] = c
        BY <3>1, <3>2, <4>2
      <4>4. c.at = "resume" /\ c.mic = pub[k].mic
        BY <3>2, <4>2
      <4> QED BY <1>1, <3>2, <4>1, <4>3, <4>4 DEF Attaching, Resting
    <3>3. CASE pub[k].at # "graph"
      BY <1>1, <3>1, <3>3 DEF Attaching, ChainInv, PubTyped
    <3> QED BY <3>2, <3>3
  <2>3. PubTyped' /\ (OnePublisher => OnePublisher') /\ (QuietChain' <=> QuietChain)
    BY <1>1, <1>2, <2>2 DEF ChainInv, PubTyped, OnePublisher, QuietChain
  <2> QED BY <1>1, <2>1, <2>2, <2>3 DEF ChainInv, PeersHear
<1> QED BY <1>4, <1>5

LEMMA AttachedKeeps == ASSUME ChainInv, NEW k \in Publishers, Attached(k) PROVE ChainInv'
<1>1. UNCHANGED <<mic, chainGone, impaired>> /\ pub[k].at = "resume"
  BY DEF Attached
<1>2. PubTyped /\ mic' \in Nat /\ mic' # 0 /\ pub[k] # Resting
  BY <1>1 DEF ChainInv, PubTyped, Resting
<1>3. PICK f : Feeds(k, f, pub[k].mic)
  BY DEF Attached
<1>4. PubTyped' /\ pub'[k] = Resting /\ \A j \in Publishers : j # k => pub'[j] = pub[j]
  BY <1>2, <1>3, GoesIs DEF Feeds
<1>5. ASSUME ~impaired', ~chainGone'
      PROVE  /\ \A j \in Publishers : j # k => pub'[j] = Resting
             /\ cached' \in {0, input'} /\ Attaching(k)' /\ PeersHear'
  <2>1. (\A j \in Publishers : j # k => pub[j] = Resting) /\ cached \in {0, input} /\ Attaching(k)
    BY <1>1, <1>2, <1>5, GoesOnAlone
  <2>2. pub[k].mic = mic /\ Attaching(k)'
    BY <1>1, <1>4, <2>1 DEF Attaching, Resting
  <2>3. CASE graph = "none"
    <3>1. published'.form = "raw" /\ UNCHANGED <<input, cached>>
      BY <2>3 DEF Attached, Feeds
    <3> QED BY <1>4, <2>1, <2>2, <3>1 DEF PeersHear
  <2>4. CASE graph # "none"
    <3>1. published'.of = mic /\ input' = mic /\ cached' = mic
      BY <2>2, <2>4 DEF Attached, Feeds
    <3> QED BY <1>1, <1>4, <2>1, <2>2, <3>1 DEF PeersHear
  <2> QED BY <2>3, <2>4
<1> QED BY <1>4, <1>5, OneGoes

LEMMA ChainStep == ASSUME ChainInv, [DenoiseNext]_denoiseVars PROVE ChainInv'
<1>1. CASE UNCHANGED denoiseVars
  BY <1>1 DEF denoiseVars, ChainInv, PubTyped, OnePublisher, Attaching, PeersHear, QuietChain
<1> QED BY <1>1, RepublishKeeps, MicOpenedKeeps, FlippedKeeps, CallbacksKeep, GraphsKeep, AttachedKeeps
        DEF DenoiseNext

LEMMA ChainMeans == ASSUME ChainInv PROVE DenoisedMicHeard
  BY DEF ChainInv, PeersHear, DenoisedMicHeard

-----------------------------------------------------------------------------
(* The filters: while at most one question or save is under way, what it   *)
(* will bring is known.                                                    *)

PrefsTyped ==
  /\ storing \in BOOLEAN /\ prefs \in FilterSets /\ kept \in FilterSets
  /\ wanted \in Values /\ wizardScope \in Values
  /\ openSheet \in {"none", "preferences", "wizard"}
  /\ DOMAIN traitsOf = Members /\ \A a \in Members : traitsOf[a] \in Values
  /\ cookieOf \in Members \cup {Visitor} /\ member \in Members \cup {Visitor}
  /\ questions \in [Questions -> [state : {"none", "sent", "read"}, who : Members \cup {Visitor},
                                   traits : Values]]
  /\ \A p \in patches : p.traits \in Values

\* The scope that was confirmed is the one shown, until the wizard opens again.
ScopeConfirmed ==
  /\ confirmed \subseteq {prefs.scope} /\ SoughtAsConfirmed
  /\ openSheet = "wizard" => confirmed = Free

\* One question or one save at a time, about whom the cookie names.
OneUnderWay ==
  /\ \A p, q \in patches : p = q
  /\ patches # {} => \A k \in Questions : questions[k] = NotAsked
  /\ questions["me"] = NotAsked \/ questions["login"] = NotAsked

\* What is read of an account is what the account has.
QuestionsTrue ==
  /\ \A k \in Questions : questions[k] # NotAsked =>
       /\ questions[k].state \in {"sent", "read"}
       /\ questions[k].state = "read" /\ questions[k].who # Visitor =>
            questions[k].traits = traitsOf[questions[k].who] /\ cookieOf = questions[k].who
  /\ questions["me"] # NotAsked => questions["me"].who = cookieOf
  /\ questions["login"] # NotAsked => questions["login"].who # Visitor

\* With nothing asked the page shows the account of the cookie, or what a save will make of it.
ShownTrue ==
  (\A k \in Questions : questions[k] = NotAsked) =>
    /\ member \in {Visitor, cookieOf}
    /\ \A p \in patches : p.who = cookieOf
    /\ member # Visitor /\ ~aside =>
         /\ patches = {} => prefs.traits = traitsOf[member]
         /\ \A p \in patches : prefs.traits = p.traits

PrefsInv ==
  /\ PrefsTyped /\ KeptAsShown /\ ScopeConfirmed
  /\ ~mislaid => OneUnderWay /\ QuestionsTrue /\ ShownTrue

LEMMA MembersAre == Visitor \notin Members /\ Visitor = 0 /\ NotAsked.state = "none"
  BY PreferencesConstants DEF Visitor, NotAsked

LEMMA PrefsStart == ASSUME PreferencesInit PROVE PrefsInv
<1>1. PrefsTyped
  BY PreferencesConstants DEF PreferencesInit, PrefsTyped, Defaults, FilterSets, NotAsked, Visitor, Questions
<1>2. KeptAsShown /\ ScopeConfirmed
  BY DEF PreferencesInit, KeptAsShown, ScopeConfirmed, SoughtAsConfirmed, Defaults, Free
<1>3. OneUnderWay /\ QuestionsTrue /\ ShownTrue
  BY DEF PreferencesInit, OneUnderWay, QuestionsTrue, ShownTrue, Questions
<1> QED BY <1>1, <1>2, <1>3 DEF PrefsInv

LEMMA PrefsMean == ASSUME PrefsInv PROVE FiltersAreTrue
<1>1. AccountAsShown
  BY DEF AccountAsShown, PrefsInv, ShownTrue, AllQuiet
<1> QED BY <1>1 DEF PrefsInv, ScopeConfirmed, FiltersAreTrue

\* Steps of the page that leave the account and its traits alone.
LEMMA AccountStill ==
  ASSUME PrefsInv, UNCHANGED <<traitsOf, cookieOf, questions, patches, member, aside>>,
         prefs'.traits = prefs.traits, ~mislaid', ~mislaid
  PROVE  (OneUnderWay /\ QuestionsTrue /\ ShownTrue)'
  BY DEF PrefsInv, OneUnderWay, QuestionsTrue, ShownTrue

\* Steps that leave the filters alone.
LEMMA FiltersStill ==
  ASSUME PrefsInv, UNCHANGED <<storing, prefs, kept, view, keptView, wanted>>
  PROVE  KeptAsShown' /\ prefs' \in FilterSets /\ kept' \in FilterSets /\ wanted' \in Values
  BY DEF PrefsInv, PrefsTyped, KeptAsShown

LEMMA ScopeStill ==
  ASSUME PrefsInv, UNCHANGED <<prefs, confirmed, sought>>, openSheet' = "wizard" => openSheet = "wizard"
  PROVE  ScopeConfirmed'
  BY DEF PrefsInv, ScopeConfirmed, SoughtAsConfirmed

\* Filters that the page sets are kept where anything is kept.
LEMMA SettingKeeps ==
  ASSUME PrefsInv, NEW f \in FilterSets, SetPrefs(f), UNCHANGED <<storing, view, keptView>>,
         storing' => f.wants = wanted'
  PROVE  KeptAsShown' /\ prefs' \in FilterSets /\ kept' \in FilterSets /\ prefs' = f
  BY DEF PrefsInv, PrefsTyped, KeptAsShown, SetPrefs, Saved

LEMMA SheetsKeep ==
  ASSUME PrefsInv, OpenPreferences \/ CloseWizard \/ NoDevices \/ StartClick \/ JoinsQueue
                   \/ \E v \in Values : PickScope(v)
  PROVE  PrefsInv'
<1>1. UNCHANGED <<storing, prefs, kept, view, keptView, wanted, traitsOf, cookieOf, questions,
                  patches, member, aside, mislaid>>
  BY DEF OpenPreferences, CloseWizard, NoDevices, StartClick, JoinsQueue, PickScope, browserVars,
         filterVars, serverVars, historyVars
<1>2. KeptAsShown' /\ prefs' \in FilterSets /\ kept' \in FilterSets /\ wanted' \in Values
  BY <1>1, FiltersStill
<1>3. wizardScope' \in Values /\ openSheet' \in {"none", "preferences", "wizard"}
  BY DEF OpenPreferences, CloseWizard, NoDevices, StartClick, JoinsQueue, PickScope, wizardVars,
         PrefsInv, PrefsTyped, FilterSets
<1>4. PrefsTyped'
  BY <1>1, <1>2, <1>3 DEF PrefsInv, PrefsTyped
<1>5. ScopeConfirmed'
  <2>1. CASE StartClick
    BY <1>1, <2>1 DEF StartClick, PrefsInv, ScopeConfirmed, SoughtAsConfirmed, Free
  <2>2. CASE JoinsQueue
    BY <1>1, <2>2 DEF JoinsQueue, PrefsInv, ScopeConfirmed, SoughtAsConfirmed
  <2>3. CASE OpenPreferences \/ CloseWizard \/ NoDevices \/ \E v \in Values : PickScope(v)
    <3>1. UNCHANGED <<prefs, confirmed, sought>> /\ (openSheet' = "wizard" => openSheet = "wizard")
      BY <2>3 DEF OpenPreferences, CloseWizard, NoDevices, PickScope, wizardVars, filterVars
    <3> QED BY <3>1, ScopeStill
  <2> QED BY <2>1, <2>2, <2>3
<1> QED BY <1>1, <1>2, <1>4, <1>5, AccountStill DEF PrefsInv

LEMMA LooksKeep ==
  ASSUME PrefsInv, NEW part, NEW v, Looks(part, v) PROVE PrefsInv'
<1>1. UNCHANGED <<storing, prefs, kept, wanted, wizardScope, openSheet, confirmed, sought, traitsOf, cookieOf,
                  questions, patches, member, aside, mislaid>>
  BY DEF Looks, filterVars, serverVars, historyVars, wizardVars
<1>2. keptView' = Saved(keptView, view')
  BY DEF Looks
<1>3. PrefsTyped' /\ KeptAsShown'
  BY <1>1, <1>2 DEF PrefsInv, PrefsTyped, KeptAsShown, Saved
<1>4. ScopeConfirmed'
  BY <1>1, ScopeStill
<1> QED BY <1>1, <1>3, <1>4, AccountStill DEF PrefsInv

LEMMA FinishKeeps == ASSUME PrefsInv, FinishSolo \/ FinishGroup PROVE PrefsInv'
<1>1. UNCHANGED <<storing, view, keptView, wanted, wizardScope, traitsOf, cookieOf,
                  questions, patches, member, aside, mislaid>>
  BY DEF FinishSolo, FinishGroup, browserVars, serverVars, historyVars
<1>2. PICK f : f = [prefs EXCEPT !.scope = wizardScope]
  OBVIOUS
<1>3. SetPrefs(f) /\ openSheet' = "none" /\ openSheet = "wizard"
  BY <1>2 DEF FinishSolo, FinishGroup
<1>4. f \in FilterSets /\ f.wants = prefs.wants /\ f.scope = wizardScope /\ f.traits = prefs.traits
  BY <1>2 DEF PrefsInv, PrefsTyped, FilterSets
<1>5. storing' => f.wants = wanted'
  BY <1>1, <1>4 DEF PrefsInv, KeptAsShown
<1>6. KeptAsShown' /\ prefs' \in FilterSets /\ kept' \in FilterSets /\ prefs' = f
  BY <1>1, <1>3, <1>4, <1>5, SettingKeeps
<1>7. PrefsTyped'
  BY <1>1, <1>3, <1>6 DEF PrefsInv, PrefsTyped
<1>8. ScopeConfirmed'
  <2>1. confirmed = Free /\ SoughtAsConfirmed
    BY <1>3 DEF PrefsInv, ScopeConfirmed
  <2>2. confirmed' \subseteq {wizardScope} /\ SoughtAsConfirmed'
    BY <2>1 DEF FinishSolo, FinishGroup, SoughtAsConfirmed, Free
  <2> QED BY <1>3, <1>4, <1>6, <2>2 DEF ScopeConfirmed
<1> QED BY <1>1, <1>4, <1>6, <1>7, <1>8, AccountStill DEF PrefsInv

LEMMA PicksKeep ==
  ASSUME PrefsInv, NEW f \in FilterSets, f.scope = prefs.scope, Picks(f) PROVE PrefsInv'
<1>1. UNCHANGED <<storing, view, keptView, wizardScope, traitsOf, cookieOf, openSheet,
                  questions, patches, member, mislaid, confirmed, sought>>
  BY DEF Picks, browserVars, serverVars, wizardVars
<1>2. SetPrefs(f) /\ wanted' = f.wants /\ f.wants \in Values
  BY DEF Picks, FilterSets
<1>3. KeptAsShown' /\ prefs' \in FilterSets /\ kept' \in FilterSets /\ prefs' = f
  BY <1>1, <1>2, SettingKeeps
<1>4. PrefsTyped'
  BY <1>1, <1>2, <1>3 DEF PrefsInv, PrefsTyped
<1>5. ScopeConfirmed'
  BY <1>1, <1>3 DEF PrefsInv, ScopeConfirmed, SoughtAsConfirmed
<1>6. ~aside' => ~aside /\ prefs'.traits = prefs.traits
  BY <1>3 DEF Picks
<1>7. ~mislaid' => (OneUnderWay /\ QuestionsTrue /\ ShownTrue)'
  BY <1>1, <1>6 DEF PrefsInv, OneUnderWay, QuestionsTrue, ShownTrue
<1> QED BY <1>3, <1>4, <1>5, <1>7 DEF PrefsInv

LEMMA ChoosingKeeps ==
  ASSUME PrefsInv, NEW v \in Values, PickInDialog(v) \/ PickOnDeck(v) \/ PickInWizard(v)
  PROVE  PrefsInv'
<1>1. PICK f : f \in {WithTraits(v), WithWants(v)} /\ Picks(f)
  BY DEF PickInDialog, PickOnDeck, PickInWizard
<1>2. f \in FilterSets /\ f.scope = prefs.scope
  BY <1>1 DEF WithTraits, WithWants, PrefsInv, PrefsTyped, FilterSets
<1> QED BY <1>1, <1>2, PicksKeep

LEMMA AskedIs ==
  ASSUME NEW a \in Members \cup {Visitor}
  PROVE  /\ NotAsked \in [state : {"none", "sent", "read"}, who : Members \cup {Visitor}, traits : Values]
         /\ [NotAsked EXCEPT !.state = "sent", !.who = a]
              \in [state : {"none", "sent", "read"}, who : Members \cup {Visitor}, traits : Values]
         /\ [NotAsked EXCEPT !.state = "sent", !.who = a].state = "sent"
         /\ [NotAsked EXCEPT !.state = "sent", !.who = a].who = a
  BY PreferencesConstants DEF NotAsked

LEMMA ReturnKeeps == ASSUME PrefsInv, Return PROVE PrefsInv'
<1> DEFINE q == [NotAsked EXCEPT !.state = "sent", !.who = cookieOf]
<1>1. cookieOf \in Members \cup {Visitor} /\ member \in Members \cup {Visitor}
  BY DEF PrefsInv, PrefsTyped
<1>2. /\ q \in [state : {"none", "sent", "read"}, who : Members \cup {Visitor}, traits : Values]
      /\ q.state = "sent" /\ q.who = cookieOf
      /\ NotAsked \in [state : {"none", "sent", "read"}, who : Members \cup {Visitor}, traits : Values]
  BY <1>1, AskedIs
<1>3. UNCHANGED <<storing, keptView, kept, traitsOf, cookieOf, wizardScope, sought, wanted, aside, patches>>
  BY DEF Return, serverVars
<1>4. prefs' = kept /\ view' = keptView /\ member' \in {member, Visitor} /\ openSheet' = "none" /\ confirmed' = Free
  BY DEF Return
<1>5. questions' = [k \in Questions |-> IF k = "me" THEN q ELSE NotAsked]
  BY DEF Return
<1>6. ~mislaid' => patches = {}
  BY DEF Return
<1> HIDE DEF q
<1>7. questions' \in [Questions -> [state : {"none", "sent", "read"}, who : Members \cup {Visitor}, traits : Values]]
  BY <1>2, <1>5
<1>8. PrefsTyped'
  BY <1>1, <1>3, <1>4, <1>7 DEF PrefsInv, PrefsTyped
<1>9. KeptAsShown' /\ ScopeConfirmed'
  BY <1>3, <1>4 DEF PrefsInv, KeptAsShown, ScopeConfirmed, SoughtAsConfirmed, Free
<1>10. questions'["me"] = q /\ questions'["login"] = NotAsked /\ q # NotAsked
  BY <1>2, <1>5, MembersAre DEF Questions
<1>11. ASSUME ~mislaid' PROVE (OneUnderWay /\ QuestionsTrue /\ ShownTrue)'
  <2>1. patches' = {}
    BY <1>3, <1>6, <1>11
  <2>2. OneUnderWay'
    BY <1>10, <2>1 DEF OneUnderWay
  <2>3. QuestionsTrue'
    BY <1>2, <1>3, <1>5, <1>10 DEF QuestionsTrue, Questions
  <2>4. ShownTrue'
    BY <1>10 DEF ShownTrue, Questions
  <2> QED BY <2>2, <2>3, <2>4
<1> QED BY <1>8, <1>9, <1>11 DEF PrefsInv

LEMMA SignInKeeps == ASSUME PrefsInv, NEW a \in Members, SignIn(a) PROVE PrefsInv'
<1> DEFINE q == [NotAsked EXCEPT !.state = "sent", !.who = a]
<1>1. /\ q \in [state : {"none", "sent", "read"}, who : Members \cup {Visitor}, traits : Values]
      /\ q.state = "sent" /\ q.who = a
  BY AskedIs
<1>2. UNCHANGED <<storing, prefs, kept, view, keptView, wanted, wizardScope, openSheet, confirmed, sought,
                  traitsOf, cookieOf, patches, member, aside>>
  BY DEF SignIn, browserVars, filterVars, serverVars, wizardVars
<1>3. questions' = [questions EXCEPT !["login"] = q] /\ (~mislaid' => ~mislaid /\ AllQuiet)
  BY DEF SignIn
<1> HIDE DEF q
<1>4. questions' \in [Questions -> [state : {"none", "sent", "read"}, who : Members \cup {Visitor}, traits : Values]]
  BY <1>1, <1>3 DEF PrefsInv, PrefsTyped
<1>5. KeptAsShown' /\ prefs' \in FilterSets /\ kept' \in FilterSets /\ wanted' \in Values
  BY <1>2, FiltersStill
<1>6. PrefsTyped' /\ ScopeConfirmed'
  BY <1>2, <1>4, <1>5, ScopeStill DEF PrefsInv, PrefsTyped
<1>7. "login" \in DOMAIN questions /\ questions'["login"] = q
      /\ questions'["me"] = questions["me"] /\ q # NotAsked
  BY <1>1, <1>3, MembersAre DEF PrefsInv, PrefsTyped, Questions
<1>8. ASSUME ~mislaid' PROVE (OneUnderWay /\ QuestionsTrue /\ ShownTrue)'
  <2>1. patches' = {} /\ questions'["me"] = NotAsked
    BY <1>2, <1>3, <1>7, <1>8 DEF AllQuiet, Questions
  <2>2. OneUnderWay'
    BY <2>1 DEF OneUnderWay
  <2>3. QuestionsTrue'
    BY <1>1, <1>7, <2>1, MembersAre DEF QuestionsTrue, Questions
  <2>4. ShownTrue'
    BY <1>7 DEF ShownTrue, Questions
  <2> QED BY <2>2, <2>3, <2>4
<1> QED BY <1>5, <1>6, <1>8 DEF PrefsInv

LEMMA ReadsAccountKeeps == ASSUME PrefsInv, NEW k \in Questions, ReadsAccount(k) PROVE PrefsInv'
<1>1. UNCHANGED <<storing, prefs, kept, view, keptView, wanted, wizardScope, openSheet, confirmed, sought,
                  traitsOf, patches, member, aside, mislaid>>
  BY DEF ReadsAccount, browserVars, filterVars, wizardVars, historyVars
<1>2. KeptAsShown' /\ prefs' \in FilterSets /\ kept' \in FilterSets /\ wanted' \in Values
  BY <1>1, FiltersStill
<1>3. PICK who \in Members \cup {Visitor} : questions[k].who = who
  BY DEF PrefsInv, PrefsTyped
<1>4. PICK t \in Values : t = IF who = Visitor THEN 0 ELSE traitsOf[who]
  BY PreferencesConstants DEF PrefsInv, PrefsTyped
<1>5. PICK q : q = [questions[k] EXCEPT !.state = "read", !.traits = t]
  OBVIOUS
<1>6. questions[k] \in [state : {"none", "sent", "read"}, who : Members \cup {Visitor}, traits : Values]
  BY DEF PrefsInv, PrefsTyped
<1>7. /\ q \in [state : {"none", "sent", "read"}, who : Members \cup {Visitor}, traits : Values]
      /\ q.state = "read" /\ q.who = who /\ q.traits = t
  BY <1>3, <1>5, <1>6
<1>8. questions' = [questions EXCEPT ![k] = q]
  BY <1>3, <1>4, <1>5, <1>6 DEF ReadsAccount, PrefsInv, PrefsTyped
<1>9. questions' \in [Questions -> [state : {"none", "sent", "read"}, who : Members \cup {Visitor}, traits : Values]]
  BY <1>7, <1>8 DEF PrefsInv, PrefsTyped
<1>10. cookieOf' = IF k = "login" THEN who ELSE cookieOf
  BY <1>3 DEF ReadsAccount
<1>11. PrefsTyped' /\ ScopeConfirmed'
  BY <1>1, <1>2, <1>9, <1>10, ScopeStill DEF PrefsInv, PrefsTyped
<1>12. questions'[k] = q /\ q # NotAsked /\ questions[k] # NotAsked /\ questions[k].state = "sent"
       /\ \A j \in Questions : j # k => questions'[j] = questions[j]
  BY <1>7, <1>8, MembersAre DEF PrefsInv, PrefsTyped, ReadsAccount
<1>13. ASSUME ~mislaid' PROVE (OneUnderWay /\ QuestionsTrue /\ ShownTrue)'
  <2>1. OneUnderWay /\ QuestionsTrue
    BY <1>1, <1>13 DEF PrefsInv
  <2>2. patches' = {} /\ \A j \in Questions : j # k => questions'[j] = NotAsked
    BY <1>1, <1>12, <2>1 DEF OneUnderWay, Questions
  <2>3. OneUnderWay'
    BY <2>2 DEF OneUnderWay, Questions
  <2>4. k = "me" => cookieOf = who
    BY <1>3, <1>12, <2>1 DEF QuestionsTrue
  <2>5. k = "login" => who # Visitor
    BY <1>3, <1>12, <2>1 DEF QuestionsTrue
  <2>6. QuestionsTrue'
    BY <1>1, <1>4, <1>7, <1>10, <1>12, <2>2, <2>4, <2>5 DEF QuestionsTrue, Questions
  <2>7. ShownTrue'
    BY <1>12 DEF ShownTrue
  <2> QED BY <2>3, <2>6, <2>7
<1> QED BY <1>2, <1>11, <1>13 DEF PrefsInv

\* A question that is over.
LEMMA QuestionOver ==
  ASSUME PrefsInv, NEW k \in Questions, questions' = [questions EXCEPT ![k] = NotAsked]
  PROVE  /\ questions' \in [Questions -> [state : {"none", "sent", "read"}, who : Members \cup {Visitor}, traits : Values]]
         /\ questions'[k] = NotAsked
         /\ \A j \in Questions : j # k => questions'[j] = questions[j]
<1>1. NotAsked \in [state : {"none", "sent", "read"}, who : Members \cup {Visitor}, traits : Values]
  BY AskedIs
<1> QED BY <1>1 DEF PrefsInv, PrefsTyped

LEMMA AnswersKeep == ASSUME PrefsInv, NEW k \in Questions, AccountAnswers(k) PROVE PrefsInv'
<1>1. UNCHANGED <<storing, view, keptView, wizardScope, sought, traitsOf, cookieOf, patches, openSheet,
                  wanted, mislaid>>
  BY DEF AccountAnswers, browserVars, serverVars
<1>2. questions[k].state = "read" /\ questions' = [questions EXCEPT ![k] = NotAsked]
  BY DEF AccountAnswers
<1>3. /\ questions' \in [Questions -> [state : {"none", "sent", "read"}, who : Members \cup {Visitor}, traits : Values]]
      /\ questions'[k] = NotAsked /\ \A j \in Questions : j # k => questions'[j] = questions[j]
  BY <1>2, QuestionOver
<1>4. PICK who \in Members \cup {Visitor} : questions[k].who = who
  BY DEF PrefsInv, PrefsTyped
<1>5. PICK t \in Values : questions[k].traits = t
  BY DEF PrefsInv, PrefsTyped
<1>6. questions[k] # NotAsked
  BY <1>2, MembersAre
<1>7. ASSUME ~mislaid
      PROVE  /\ patches = {} /\ \A j \in Questions : questions'[j] = NotAsked
             /\ who # Visitor => t = traitsOf[who] /\ cookieOf = who
             /\ k = "login" => who # Visitor
  <2>1. OneUnderWay /\ QuestionsTrue
    BY <1>7 DEF PrefsInv
  <2>2. patches = {} /\ \A j \in Questions : questions'[j] = NotAsked
    BY <1>3, <1>6, <2>1 DEF OneUnderWay, Questions
  <2>3. who # Visitor => t = traitsOf[who] /\ cookieOf = who
    BY <1>2, <1>4, <1>5, <1>6, <2>1 DEF QuestionsTrue
  <2>4. k = "login" => who # Visitor
    BY <1>4, <1>6, <2>1 DEF QuestionsTrue
  <2> QED BY <2>2, <2>3, <2>4
<1>8. CASE who = Visitor
  <2>1. member' = Visitor /\ UNCHANGED <<prefs, kept, aside, confirmed>>
    BY <1>4, <1>8 DEF AccountAnswers
  <2>2. PrefsTyped' /\ KeptAsShown' /\ ScopeConfirmed'
    BY <1>1, <1>3, <2>1, FiltersStill, ScopeStill DEF PrefsInv, PrefsTyped
  <2>3. ASSUME ~mislaid' PROVE (OneUnderWay /\ QuestionsTrue /\ ShownTrue)'
    BY <1>1, <1>7, <2>1, <2>3 DEF OneUnderWay, QuestionsTrue, ShownTrue, Questions
  <2> QED BY <2>2, <2>3 DEF PrefsInv
<1>9. CASE who # Visitor
  <2>1. PICK f : f = [traits |-> t, wants |-> kept.wants, scope |-> 0]
    OBVIOUS
  <2>2. member' = who /\ aside' = FALSE /\ confirmed' = Free /\ SetPrefs(f)
    BY <1>4, <1>5, <1>9, <2>1 DEF AccountAnswers, ApplyTraits
  <2>3. f \in FilterSets /\ f.traits = t /\ f.wants = kept.wants
    BY <2>1, PreferencesConstants DEF PrefsInv, PrefsTyped, FilterSets
  <2>4. storing' => f.wants = wanted'
    BY <1>1, <2>3 DEF PrefsInv, KeptAsShown
  <2>5. KeptAsShown' /\ prefs' \in FilterSets /\ kept' \in FilterSets /\ prefs' = f
    BY <1>1, <2>2, <2>3, <2>4, SettingKeeps
  <2>6. PrefsTyped'
    BY <1>1, <1>3, <2>2, <2>5 DEF PrefsInv, PrefsTyped
  <2>7. ScopeConfirmed'
    BY <1>1, <2>2 DEF PrefsInv, ScopeConfirmed, SoughtAsConfirmed, Free
  <2>8. ASSUME ~mislaid' PROVE (OneUnderWay /\ QuestionsTrue /\ ShownTrue)'
    <3>1. patches' = {} /\ \A j \in Questions : questions'[j] = NotAsked
      BY <1>1, <1>7, <2>8
    <3>2. member' = cookieOf' /\ prefs'.traits = traitsOf'[member']
      BY <1>1, <1>7, <1>9, <2>2, <2>3, <2>5, <2>8
    <3> QED BY <3>1, <3>2 DEF OneUnderWay, QuestionsTrue, ShownTrue, Questions
  <2> QED BY <2>5, <2>6, <2>7, <2>8 DEF PrefsInv
<1> QED BY <1>8, <1>9

\* What is mislaid promises nothing of the account.
LEMMA MislaidKeeps ==
  ASSUME PrefsInv, mislaid', UNCHANGED <<storing, prefs, kept, view, keptView, wanted, wizardScope, openSheet,
                                          confirmed, sought>>, PrefsTyped'
  PROVE  PrefsInv'
  BY FiltersStill, ScopeStill DEF PrefsInv

LEMMA LossesKeep ==
  ASSUME PrefsInv, MeLost \/ \E p \in patches : PatchLost(p) PROVE PrefsInv'
<1>1. mislaid' /\ UNCHANGED <<storing, prefs, kept, view, keptView, wanted, wizardScope, openSheet,
                              confirmed, sought, traitsOf, cookieOf>>
  BY DEF MeLost, PatchLost, browserVars, filterVars, serverVars, wizardVars
<1>2. questions' \in [Questions -> [state : {"none", "sent", "read"}, who : Members \cup {Visitor}, traits : Values]]
  BY QuestionOver DEF MeLost, PatchLost, PrefsInv, PrefsTyped, Questions
<1>3. member' \in Members \cup {Visitor} /\ patches' \subseteq patches
  BY DEF MeLost, PatchLost, PrefsInv, PrefsTyped
<1>4. PrefsTyped'
  BY <1>1, <1>2, <1>3 DEF PrefsInv, PrefsTyped
<1> QED BY <1>1, <1>4, MislaidKeeps

LEMMA SignOutKeeps == ASSUME PrefsInv, SignOut PROVE PrefsInv'
<1>1. UNCHANGED <<storing, prefs, kept, view, keptView, wanted, wizardScope, openSheet,
                  confirmed, sought, traitsOf, questions, patches, aside>>
      /\ member' = Visitor /\ cookieOf' = Visitor
  BY DEF SignOut, browserVars, filterVars, wizardVars
<1>2. PrefsTyped' /\ KeptAsShown' /\ ScopeConfirmed'
  BY <1>1, FiltersStill, ScopeStill DEF PrefsInv, PrefsTyped
<1>3. ASSUME ~mislaid' PROVE (OneUnderWay /\ QuestionsTrue /\ ShownTrue)'
  <2>1. AllQuiet
    BY <1>3 DEF SignOut
  <2> QED BY <1>1, <2>1 DEF AllQuiet, OneUnderWay, QuestionsTrue, ShownTrue, Questions
<1> QED BY <1>2, <1>3 DEF PrefsInv

LEMMA ClosingKeeps == ASSUME PrefsInv, ClosePreferences PROVE PrefsInv'
<1>1. UNCHANGED <<storing, prefs, kept, view, keptView, wanted, wizardScope,
                  confirmed, sought, traitsOf, questions, member, cookieOf>> /\ openSheet' = "none"
  BY DEF ClosePreferences, browserVars, filterVars, serverVars, wizardVars
<1>2. KeptAsShown' /\ prefs' \in FilterSets /\ kept' \in FilterSets /\ wanted' \in Values
  BY <1>1, FiltersStill
<1>3. ScopeConfirmed'
  BY <1>1, ScopeStill
<1>4. CASE member = Visitor
  <2>1. UNCHANGED <<patches, aside, mislaid>>
    BY <1>4 DEF ClosePreferences
  <2>2. PrefsTyped'
    BY <1>1, <1>2, <2>1 DEF PrefsInv, PrefsTyped
  <2> QED BY <1>1, <1>2, <1>3, <2>1, <2>2, AccountStill DEF PrefsInv
<1>5. CASE member # Visitor
  <2>1. PICK p : p = [n |-> sent + 1, who |-> cookieOf, traits |-> prefs.traits]
    OBVIOUS
  <2>2. p.who = cookieOf /\ p.traits = prefs.traits /\ p.traits \in Values
    BY <2>1 DEF PrefsInv, PrefsTyped, FilterSets
  <2>3. patches' = patches \cup {p} /\ (~mislaid' => ~mislaid /\ AllQuiet)
    BY <1>5, <2>1 DEF ClosePreferences
  <2>4. PrefsTyped'
    BY <1>1, <1>2, <2>2, <2>3 DEF PrefsInv, PrefsTyped
  <2>5. ASSUME ~mislaid' PROVE (OneUnderWay /\ QuestionsTrue /\ ShownTrue)'
    <3>1. patches' = {p} /\ (\A k \in Questions : questions[k] = NotAsked) /\ ShownTrue
      BY <2>3, <2>5 DEF AllQuiet, PrefsInv
    <3> QED BY <1>1, <2>2, <3>1 DEF OneUnderWay, QuestionsTrue, ShownTrue, Questions
  <2> QED BY <1>2, <1>3, <2>4, <2>5 DEF PrefsInv
<1> QED BY <1>4, <1>5

LEMMA PatchServedKeeps == ASSUME PrefsInv, NEW p \in patches, PatchServed(p) PROVE PrefsInv'
<1>1. UNCHANGED <<storing, prefs, kept, view, keptView, wanted, wizardScope, openSheet,
                  confirmed, sought, questions, member, cookieOf, aside, mislaid>>
      /\ patches' = patches \ {p}
      /\ traitsOf' = [a \in Members |-> IF a = p.who THEN p.traits ELSE traitsOf[a]]
  BY DEF PatchServed, browserVars, filterVars, historyVars, wizardVars
<1>2. KeptAsShown' /\ prefs' \in FilterSets /\ kept' \in FilterSets /\ wanted' \in Values /\ ScopeConfirmed'
  BY <1>1, FiltersStill, ScopeStill
<1>3. PrefsTyped'
  BY <1>1, <1>2 DEF PrefsInv, PrefsTyped
<1>4. ASSUME ~mislaid' PROVE (OneUnderWay /\ QuestionsTrue /\ ShownTrue)'
  <2>1. OneUnderWay /\ ShownTrue
    BY <1>1, <1>4 DEF PrefsInv
  <2>2. patches' = {} /\ \A k \in Questions : questions[k] = NotAsked
    BY <1>1, <2>1 DEF OneUnderWay
  <2>3. member \in {Visitor, cookieOf} /\ p.who = cookieOf
    BY <2>1, <2>2 DEF ShownTrue
  <2>4. member # Visitor /\ ~aside => prefs.traits = traitsOf'[member]
    BY <1>1, <2>1, <2>2, <2>3 DEF ShownTrue, PrefsInv, PrefsTyped
  <2> QED BY <1>1, <2>2, <2>3, <2>4 DEF OneUnderWay, QuestionsTrue, ShownTrue, Questions
<1> QED BY <1>2, <1>3, <1>4 DEF PrefsInv

LEMMA PrefsStep == ASSUME PrefsInv, [PreferencesNext]_prefsVars PROVE PrefsInv'
<1>1. CASE UNCHANGED prefsVars
  <2>1. UNCHANGED <<storing, prefs, kept, view, keptView, wanted, wizardScope, openSheet, confirmed, sought,
                    traitsOf, cookieOf, questions, patches, member, aside, mislaid>>
    BY <1>1 DEF prefsVars, browserVars, filterVars, serverVars, wizardVars, historyVars
  <2>2. PrefsTyped' /\ KeptAsShown' /\ ScopeConfirmed'
    BY <2>1, FiltersStill, ScopeStill DEF PrefsInv, PrefsTyped
  <2> QED BY <2>1, <2>2, AccountStill DEF PrefsInv
<1> QED BY <1>1, ReturnKeeps, SignOutKeeps, LossesKeep, SignInKeeps, ReadsAccountKeeps, AnswersKeep,
           ChoosingKeeps, SheetsKeep, LooksKeep, ClosingKeeps, PatchServedKeeps, FinishKeeps
        DEF PreferencesNext, ChooseLayout, ChooseLocale

-----------------------------------------------------------------------------
(* The profile editor: what is saved, or will be said to be saved, is what *)
(* is on the page or behind it.                                            *)

Documents == [text : Int, photo : Nat]
PutsSent == [mount : Nat, name : Handles, doc : Documents, state : Outcome]
UploadsSent == [mount : Nat, name : Handles, text : Int, staged : Nat, photo : Nat]

EditorTyped ==
  /\ gate \in {"loading", "guest", "editor"} /\ mount \in Nat
  /\ handle \in Handles \cup {1} /\ (gate = "editor" => handle \in Handles)
  /\ doc \in Documents /\ savedDoc \in Documents /\ lastKey \in Documents
  /\ fetching \in [state : {"none", "sent", "ok", "lost"}, doc : Documents]
  /\ puts \subseteq PutsSent /\ uploads \subseteq UploadsSent
  /\ drafts \in [Handles -> Documents]
  /\ photoCount \in Nat /\ staged \in Nat

\* A photo of a document, or one that is to be deleted.
InUse(i) ==
  \/ i \in {doc.photo, savedDoc.photo, lastKey.photo, fetching.doc.photo, staged} \cup removals
  \/ \E h \in Handles : i = drafts[h].photo
  \/ \E p \in puts : i = p.doc.photo

\* An upload brings a photo of its own that nothing shows yet.
UploadsFresh ==
  /\ \A i : InUse(i) => i \in 0 .. photoCount
  /\ \A u \in uploads : u.photo \in 0 .. photoCount /\ (u.photo # 0 => ~InUse(u.photo))
  /\ \A u, v \in uploads : u.photo = v.photo /\ u.photo # 0 => u = v

\* Saves of editors that are gone may be under way, deletes are not.
Outlived == (\A p \in puts : p.mount <= mount) /\ (gate # "editor" => removals = {})

EditsShown ==
  gate = "editor" =>
    /\ typed # NoDoc => doc = typed /\ dirty
    /\ ready => fetching.state = "none"
    /\ debounce => ready
    /\ \A i \in removals : i \notin {0, doc.photo} /\ dirty

\* A save of this editor is the only one; the page shows what it sends, or another will follow.
\* Once it was served the server has it, unless its photo was taken away since.
SaveFollows(p) ==
  /\ p.name = handle /\ ready /\ puts = {p}
  /\ doc = p.doc \/ (debounce /\ doc # lastKey)
  /\ p.state = "ok" => savedDoc = p.doc \/ p.doc.photo \notin {0, doc.photo}

SavesFollow == gate = "editor" => \A p \in puts : p.mount = mount => SaveFollows(p)

\* The editor says "Saved".
SaysSaved ==
  gate = "editor" /\ saveState = "saved" =>
    /\ ready /\ \A p \in puts : p.mount = mount
    /\ puts = {} =>
         /\ debounce \/ doc = lastKey
         /\ drafts[handle] \in {doc, lastKey}
         /\ savedDoc = lastKey \/ lastKey.photo \notin {0, doc.photo}

EditorKept ==
  EditorTyped /\ UploadsFresh /\ Outlived /\ EditsShown /\ SavesFollow /\ SaysSaved

EditorInv == EditorTyped /\ (~crossed => EditorKept)

LEMMA EditorNumbers == \A n \in {MaxTexts, MaxPhotos, MaxMounts, MaxEdits, MaxFaults} : n \in Nat
<1>q. QED
  BY EditorConstants

LEMMA EditorStart ==
  ASSUME NEW d, d \in Documents, d.photo = 0, EditorInitOf(d)
  PROVE  EditorInv
<1>1. EditorTyped
  BY DEF EditorInitOf, EditorTyped, Documents, SampleLinks, NoDoc, NoFetch, PutsSent, UploadsSent
<1>2. UploadsFresh
  BY DEF EditorInitOf, UploadsFresh, InUse, SampleLinks, NoDoc, NoFetch
<1>3. Outlived /\ EditsShown /\ SavesFollow /\ SaysSaved
  BY DEF EditorInitOf, Outlived, EditsShown, SavesFollow, SaysSaved
<1>q. QED
  BY <1>1, <1>2, <1>3 DEF EditorInv, EditorKept

LEMMA EditorMeans ==
  ASSUME EditorInv
  PROVE  SavedIsTyped
<1>1. SUFFICES ASSUME gate = "editor", ~crossed
               PROVE  SavedIsTyped
  BY DEF SavedIsTyped
<1>2. EditsShown /\ SaysSaved
  BY <1>1 DEF EditorInv, EditorKept
<1>3. typed # NoDoc => doc = typed
  BY <1>1, <1>2 DEF EditsShown
<1>4. ASSUME saveState = "saved", ~debounce, puts = {}
      PROVE  savedDoc = doc /\ drafts[handle] = doc
  <2>1. doc = lastKey /\ drafts[handle] \in {doc, lastKey}
    BY <1>1, <1>2, <1>4 DEF SaysSaved
  <2>2. savedDoc = lastKey \/ lastKey.photo \notin {0, doc.photo}
    BY <1>1, <1>2, <1>4 DEF SaysSaved
  <2>q. QED
    BY <2>1, <2>2
<1>q. QED
  BY <1>3, <1>4 DEF SavedIsTyped

\* The text of a document is rewritten, or a document is read whole.
LEMMA DocumentsTyped ==
  /\ SampleLinks \in Documents /\ NoDoc \in Documents /\ NoFetch.doc = NoDoc
  /\ \A t \in Int, n \in Nat : [text |-> t, photo |-> n] \in Documents
  /\ \A d \in Documents, t \in Int : [d EXCEPT !.text = t] \in Documents
  /\ \A d \in Documents : [d EXCEPT !.photo = 0] \in Documents
<1>q. QED
  BY DEF Documents, SampleLinks, NoDoc, NoFetch

\* An editor that opens or closes keeps the photo it staged for the uploads that outlive it.
Kept(m, i) == {IF u.mount = m THEN [u EXCEPT !.staged = i] ELSE u : u \in uploads}

LEMMA KeptTyped ==
  ASSUME uploads \subseteq UploadsSent, staged \in Nat
  PROVE  Kept(mount, staged) \subseteq UploadsSent
<1>1. ASSUME NEW u \in uploads
      PROVE  [u EXCEPT !.staged = staged] \in UploadsSent
  BY <1>1 DEF UploadsSent
<1>q. QED
  BY <1>1 DEF Kept

LEMMA EditorTypedStep ==
  ASSUME EditorTyped, EditorNext
  PROVE  EditorTyped'
<1> USE DEF EditorTyped
<1>n. MaxMounts \in Nat /\ MaxTexts \in Nat /\ MaxPhotos \in Nat
  BY EditorNumbers
<1>1. CASE GateAnswers
  BY <1>1 DEF GateAnswers, RemoteVars, PhotoVars
<1>2. ASSUME NEW h \in Handles \cup {1}, Mounted(h)
      PROVE  EditorTyped'
  <2>1. h \in Handles
    BY <1>2, <1>n DEF Mounted, Handles
  <2>2. Local(h) \in Documents
    BY <2>1, DocumentsTyped DEF Local
  <2>3. uploads' \subseteq UploadsSent
    BY <1>2, KeptTyped DEF Mounted, Kept
  <2>q. QED
    BY <1>2, <2>1, <2>2, <2>3, DocumentsTyped DEF Mounted, RemoteVars
<1>3. CASE OpenEditor
  BY <1>2, <1>3 DEF OpenEditor
<1>4. CASE Rename
  <2>1. handle + 1 \in Handles
    BY <1>4, <1>n DEF Rename, Handles
  <2>q. QED
    BY <1>2, <1>4, <2>1 DEF Rename
<1>5. CASE LeaveEditor
  <2>1. uploads' \subseteq UploadsSent
    BY <1>5, KeptTyped DEF LeaveEditor, Kept
  <2>q. QED
    BY <1>5, <2>1, DocumentsTyped DEF LeaveEditor, RemoteVars, NoFetch
<1>6. CASE FetchServed
  BY <1>6, DocumentsTyped DEF FetchServed, RemoteVars, PhotoVars
<1>7. CASE DocLoaded
  <2>1. fetching.doc \in Documents
    OBVIOUS
  <2>2. doc' \in Documents /\ lastKey' \in Documents /\ drafts' \in [Handles -> Documents]
    BY <1>7, <2>1, DocumentsTyped DEF DocLoaded
  <2>q. QED
    BY <1>7, <2>2, DocumentsTyped DEF DocLoaded, NoFetch, RemoteVars, PhotoVars
<1>8. CASE DocFails
  <2>1. Local(handle) \in Documents
    BY <1>8, DocumentsTyped DEF DocFails, Local
  <2>q. QED
    BY <1>8, <2>1, DocumentsTyped DEF DocFails, NoFetch, RemoteVars, PhotoVars
<1>9. ASSUME NEW d \in Documents, Content(d), gate = "editor"
      PROVE  doc' \in Documents /\ drafts' \in [Handles -> Documents]
  BY <1>9 DEF Content
<1>10. ASSUME NEW t \in 1 .. MaxTexts, Edit(t)
       PROVE  EditorTyped'
  <2>1. [doc EXCEPT !.text = t] \in Documents
    BY <1>n, <1>10, DocumentsTyped
  <2>2. gate = "editor" /\ Content([doc EXCEPT !.text = t])
    BY <1>10 DEF Edit, Editable
  <2>3. doc' \in Documents /\ drafts' \in [Handles -> Documents]
    BY <2>1, <2>2, <1>9
  <2>q. QED
    BY <1>10, <2>3 DEF Edit, RemoteVars, PhotoVars
<1>11. CASE Select
  BY <1>11 DEF Select, RemoteVars, PhotoVars
<1>12. CASE SaveStarts
  <2>1. [mount |-> mount, name |-> handle, doc |-> doc, state |-> "sent"] \in PutsSent
    BY <1>12 DEF SaveStarts, PutsSent, Outcome
  <2>q. QED
    BY <1>12, <2>1 DEF SaveStarts, PhotoVars
<1>13. ASSUME NEW p \in puts, SaveServed(p)
       PROVE  EditorTyped'
  <2>1. \A s \in Outcome : [p EXCEPT !.state = s] \in PutsSent
    BY <1>13 DEF PutsSent
  <2>2. puts' \subseteq PutsSent
    BY <1>13, <2>1 DEF SaveServed, Outcome
  <2>3. p.doc \in Documents
    BY <1>13 DEF PutsSent
  <2>4. [savedDoc EXCEPT !.text = p.doc.text] \in Documents
    BY <2>3, DocumentsTyped DEF Documents
  <2>5. savedDoc' \in Documents
    BY <1>13, <2>3, <2>4 DEF SaveServed, PutMine
  <2>q. QED
    BY <1>13, <2>2, <2>5 DEF SaveServed, PhotoVars
<1>14. ASSUME NEW p \in puts, SaveAnswers(p)
       PROVE  EditorTyped'
  <2>1. p.doc \in Documents /\ p.name \in Handles
    BY <1>14 DEF PutsSent
  <2>q. QED
    BY <1>14, <2>1 DEF SaveAnswers, PhotoVars
<1>15. CASE UploadStarts
  <2>1. [mount |-> mount, name |-> handle, text |-> doc.text, staged |-> 0, photo |-> 0] \in UploadsSent
    BY <1>15 DEF UploadStarts, Editable, UploadsSent, Documents
  <2>q. QED
    BY <1>15, <2>1 DEF UploadStarts, RemoteVars
<1>16. ASSUME NEW u \in uploads, UploadServed(u)
       PROVE  EditorTyped'
  <2>1. [u EXCEPT !.photo = photoCount + 1] \in UploadsSent
    BY <1>16 DEF UploadsSent
  <2>2. uploads' \subseteq UploadsSent /\ photoCount' \in Nat
    BY <1>16, <2>1 DEF UploadServed
  <2>q. QED
    BY <1>16, <2>2 DEF UploadServed
<1>17. ASSUME NEW u \in uploads, Uploaded(u)
       PROVE  EditorTyped'
  <2>1. u.text \in Int /\ u.photo \in Nat
    BY <1>17 DEF UploadsSent
  <2>2. gate = "editor" /\ Content([text |-> u.text, photo |-> u.photo])
    BY <1>17 DEF Uploaded
  <2>3. doc' \in Documents /\ drafts' \in [Handles -> Documents]
    BY <2>1, <2>2, <1>9, DocumentsTyped
  <2>q. QED
    BY <1>17, <2>1, <2>3 DEF Uploaded
<1>18. ASSUME NEW u \in uploads, UploadedLate(u)
       PROVE  EditorTyped'
  <2>1. [text |-> u.text, photo |-> u.photo] \in Documents /\ u.name \in Handles
    BY <1>18 DEF UploadsSent, Documents
  <2>q. QED
    BY <1>18, <2>1 DEF UploadedLate
<1>19. CASE RemovePhoto
  <2>1. gate = "editor" /\ Content([doc EXCEPT !.photo = 0])
    BY <1>19 DEF RemovePhoto, Editable
  <2>2. doc' \in Documents /\ drafts' \in [Handles -> Documents]
    BY <2>1, <1>9, DocumentsTyped
  <2>q. QED
    BY <1>19, <2>2 DEF RemovePhoto
<1>20. ASSUME NEW i \in removals, RemovalServed(i)
       PROVE  EditorTyped'
  BY <1>20, DocumentsTyped DEF RemovalServed, PhotoVars
<1>q. QED
  BY <1>1, <1>3, <1>4, <1>5, <1>6, <1>7, <1>8, <1>10, <1>11, <1>12, <1>13, <1>14, <1>15, <1>16, <1>17,
     <1>18, <1>19, <1>20 DEF EditorNext

\* What decides that a photo is fresh: photos come into use or under way by uploads alone.
LEMMA FreshStays ==
  ASSUME UploadsFresh, photoCount \in Nat, photoCount' \in Nat, photoCount <= photoCount',
         \A i : InUse(i)' => InUse(i) \/ i = 0,
         \A u \in uploads' : u.photo = 0 \/ \E v \in uploads : v.photo = u.photo,
         \A u, v \in uploads' : u.photo = v.photo /\ u.photo # 0 => u = v
  PROVE  UploadsFresh'
<1>1. \A i : InUse(i)' => i \in 0 .. photoCount'
  BY DEF UploadsFresh
<1>2. \A u \in uploads' : u.photo \in 0 .. photoCount'
  BY DEF UploadsFresh
<1>3. \A u \in uploads' : u.photo # 0 => ~InUse(u.photo)'
  BY DEF UploadsFresh
<1>q. QED
  BY <1>1, <1>2, <1>3 DEF UploadsFresh

LEMMA KeptFresh ==
  ASSUME UploadsFresh, uploads \subseteq UploadsSent, uploads' = Kept(mount, staged)
  PROVE  /\ \A u \in uploads' : u.photo = 0 \/ \E v \in uploads : v.photo = u.photo
         /\ \A u, v \in uploads' : u.photo = v.photo /\ u.photo # 0 => u = v
<1>1. \A u \in uploads : [u EXCEPT !.staged = staged].photo = u.photo
  BY DEF UploadsSent
<1>2. \A u \in uploads' : \E v \in uploads :
        u.photo = v.photo /\ u = IF v.mount = mount THEN [v EXCEPT !.staged = staged] ELSE v
  BY <1>1 DEF Kept
<1>q. QED
  BY <1>2 DEF UploadsFresh

\* A document written to the page and its draft shows no photo but its own.
LEMMA ContentUses ==
  ASSUME EditorTyped, NEW d, Content(d), gate = "editor", NEW i, InUse(i)',
         UNCHANGED <<savedDoc, lastKey, fetching, puts>>, staged' \in {staged, d.photo, 0},
         removals' \subseteq removals \cup {staged}
  PROVE  InUse(i) \/ i = d.photo \/ i = 0
<1>1. \A h \in Handles : drafts'[h] \in {drafts[h], d}
  BY DEF EditorTyped, Content
<1>q. QED
  BY <1>1 DEF InUse, Content

LEMMA FreshStep ==
  ASSUME EditorTyped, EditorTyped', UploadsFresh, ~crossed', EditorNext
  PROVE  UploadsFresh'
<1>c. photoCount \in Nat /\ photoCount' \in Nat /\ uploads \subseteq UploadsSent
  BY DEF EditorTyped
<1>s. ASSUME UNCHANGED <<uploads, photoCount>>, \A i : InUse(i)' => InUse(i) \/ i = 0
      PROVE  UploadsFresh'
  <2>1. /\ \A u \in uploads' : u.photo = 0 \/ \E v \in uploads : v.photo = u.photo
        /\ \A u, v \in uploads' : u.photo = v.photo /\ u.photo # 0 => u = v
    BY <1>s DEF UploadsFresh
  <2>2. photoCount <= photoCount'
    BY <1>c, <1>s
  <2>q. QED
    BY <1>c, <1>s, <2>1, <2>2, FreshStays
<1>k. ASSUME uploads' = Kept(mount, staged), photoCount' = photoCount,
             \A i : InUse(i)' => InUse(i) \/ i = 0
      PROVE  UploadsFresh'
  <2>1. photoCount <= photoCount'
    BY <1>c, <1>k
  <2>q. QED
    BY <1>c, <1>k, <2>1, KeptFresh, FreshStays
<1>p. ASSUME NEW d, Content(d), gate = "editor", d.photo \in {0, doc.photo},
             UNCHANGED <<savedDoc, lastKey, fetching, puts, uploads, photoCount>>,
             staged' \in {staged, 0}, removals' \subseteq removals \cup {staged}
      PROVE  UploadsFresh'
  <2>1. \A i : InUse(i)' => InUse(i) \/ i = d.photo \/ i = 0
    BY <1>p, ContentUses
  <2>2. InUse(d.photo) \/ d.photo = 0
    BY <1>p DEF InUse
  <2>q. QED
    BY <1>p, <1>s, <2>1, <2>2
<1>1. CASE GateAnswers
  BY <1>1, <1>s DEF GateAnswers, RemoteVars, PhotoVars, InUse
<1>2. ASSUME NEW h \in Handles \cup {1}, Mounted(h), gate' = "editor"
      PROVE  UploadsFresh'
  <2>1. h \in Handles
    BY <1>2 DEF Mounted, EditorTyped
  <2>2. doc'.photo = 0 \/ doc'.photo = drafts[h].photo
    BY <1>2 DEF Mounted, Local, SampleLinks
  <2>3. lastKey'.photo = 0 /\ fetching'.doc.photo = 0 /\ staged' = 0
    BY <1>2 DEF Mounted, NoDoc
  <2>4. UNCHANGED <<drafts, photoCount, savedDoc, removals, puts>> /\ uploads' = Kept(mount, staged)
    BY <1>2 DEF Mounted, RemoteVars, Kept
  <2>5. ASSUME NEW i, InUse(i)'
        PROVE  InUse(i) \/ i = 0
    BY <2>1, <2>2, <2>3, <2>4, <2>5 DEF InUse
  <2>q. QED
    BY <1>k, <2>4, <2>5
<1>3. CASE OpenEditor
  BY <1>2, <1>3 DEF OpenEditor, Mounted, EditorTyped
<1>4. CASE Rename
  <2>1. handle + 1 \in Handles
    BY <1>4, EditorNumbers DEF Rename, Handles, EditorTyped
  <2>q. QED
    BY <1>2, <1>4, <2>1 DEF Rename, Mounted
<1>5. CASE LeaveEditor
  <2>1. fetching'.doc.photo = 0 /\ staged' = 0 /\ uploads' = Kept(mount, staged)
    BY <1>5 DEF LeaveEditor, NoFetch, NoDoc, Kept
  <2>2. UNCHANGED <<doc, lastKey, drafts, photoCount, savedDoc, removals, puts>>
    BY <1>5 DEF LeaveEditor, RemoteVars
  <2>3. ASSUME NEW i, InUse(i)'
        PROVE  InUse(i) \/ i = 0
    BY <2>1, <2>2, <2>3 DEF InUse
  <2>q. QED
    BY <1>k, <2>1, <2>2, <2>3
<1>6. CASE FetchServed
  <2>1. fetching'.doc.photo \in {savedDoc.photo, 0}
    BY <1>6 DEF FetchServed, NoDoc
  <2>2. UNCHANGED <<doc, lastKey, drafts, photoCount, savedDoc, removals, puts, staged, uploads>>
    BY <1>6 DEF FetchServed, RemoteVars, PhotoVars
  <2>3. ASSUME NEW i, InUse(i)'
        PROVE  InUse(i) \/ i = 0
    BY <2>1, <2>2, <2>3 DEF InUse
  <2>q. QED
    BY <1>s, <2>2, <2>3
<1>7. CASE DocLoaded
  <2>1. fetching'.doc.photo = 0 /\ UNCHANGED <<photoCount, savedDoc, removals, puts, staged, uploads>>
    BY <1>7 DEF DocLoaded, NoFetch, NoDoc, RemoteVars, PhotoVars
  <2>2. /\ lastKey'.photo \in {0, fetching.doc.photo} /\ doc'.photo \in {doc.photo, fetching.doc.photo}
        /\ \A h \in Handles : drafts'[h] \in {drafts[h], fetching.doc}
    BY <1>7 DEF DocLoaded, NoDoc, EditorTyped
  <2>3. ASSUME NEW i, InUse(i)'
        PROVE  InUse(i) \/ i = 0
    BY <2>1, <2>2, <2>3 DEF InUse
  <2>q. QED
    BY <1>s, <2>1, <2>3
<1>8. CASE DocFails
  <2>1. /\ fetching'.doc.photo = 0
        /\ UNCHANGED <<doc, drafts, photoCount, savedDoc, removals, puts, staged, uploads>>
    BY <1>8 DEF DocFails, NoFetch, NoDoc, RemoteVars, PhotoVars
  <2>2. handle \in Handles /\ (lastKey'.photo = 0 \/ lastKey' = drafts[handle])
    BY <1>8 DEF DocFails, Local, SampleLinks, EditorTyped
  <2>3. ASSUME NEW i, InUse(i)'
        PROVE  InUse(i) \/ i = 0
    BY <2>1, <2>2, <2>3 DEF InUse
  <2>q. QED
    BY <1>s, <2>1, <2>3
<1>9. ASSUME NEW t \in 1 .. MaxTexts, Edit(t)
      PROVE  UploadsFresh'
  <2>1. PICK d : d = [doc EXCEPT !.text = t]
    OBVIOUS
  <2>2. d.photo = doc.photo
    BY <2>1 DEF EditorTyped, Documents
  <2>3. Content(d) /\ gate = "editor"
    BY <1>9, <2>1 DEF Edit, Editable
  <2>4. UNCHANGED <<savedDoc, lastKey, fetching, puts, uploads, photoCount, staged, removals>>
    BY <1>9 DEF Edit, RemoteVars, PhotoVars
  <2>q. QED
    BY <1>p, <2>2, <2>3, <2>4
<1>10. CASE Select
  BY <1>10, <1>s DEF Select, RemoteVars, PhotoVars, InUse
<1>11. CASE SaveStarts
  <2>1. UNCHANGED <<doc, lastKey, fetching, drafts, photoCount, savedDoc, removals, staged, uploads>>
    BY <1>11 DEF SaveStarts, PhotoVars
  <2>2. \A p \in puts' : p \in puts \/ p.doc = doc
    BY <1>11 DEF SaveStarts
  <2>3. ASSUME NEW i, InUse(i)'
        PROVE  InUse(i) \/ i = 0
    BY <2>1, <2>2, <2>3 DEF InUse
  <2>q. QED
    BY <1>s, <2>1, <2>3
<1>12. ASSUME NEW p \in puts, SaveServed(p)
       PROVE  UploadsFresh'
  <2>1. UNCHANGED <<doc, lastKey, fetching, drafts, photoCount, removals, staged, uploads>>
    BY <1>12 DEF SaveServed, PhotoVars
  <2>2. savedDoc'.photo \in {savedDoc.photo, p.doc.photo}
    BY <1>12 DEF SaveServed, PutMine, EditorTyped, Documents
  <2>3. p \in PutsSent
    BY DEF EditorTyped
  <2>4. \A s : [p EXCEPT !.state = s].doc = p.doc
    BY <2>3 DEF PutsSent
  <2>5. \A q \in puts' : q \in puts \/ q.doc = p.doc
    <3>1. \E s \in Outcome : puts' = (puts \ {p}) \cup {[p EXCEPT !.state = s]}
      BY <1>12 DEF SaveServed, Outcome
    <3>q. QED
      BY <2>4, <3>1
  <2>6. ASSUME NEW i, InUse(i)'
        PROVE  InUse(i) \/ i = 0
    BY <2>1, <2>2, <2>5, <2>6 DEF InUse
  <2>q. QED
    BY <1>s, <2>1, <2>6
<1>13. ASSUME NEW p \in puts, SaveAnswers(p)
       PROVE  UploadsFresh'
  <2>1. UNCHANGED <<doc, fetching, savedDoc, photoCount, removals, staged, uploads>> /\ puts' \subseteq puts
    BY <1>13 DEF SaveAnswers, PhotoVars
  <2>2. lastKey' \in {lastKey, p.doc} /\ \A h \in Handles : drafts'[h] \in {drafts[h], p.doc}
    BY <1>13 DEF SaveAnswers, EditorTyped
  <2>3. ASSUME NEW i, InUse(i)'
        PROVE  InUse(i) \/ i = 0
    BY <2>1, <2>2, <2>3 DEF InUse
  <2>q. QED
    BY <1>s, <2>1, <2>3
<1>14. CASE UploadStarts
  <2>1. PICK w : w = [mount |-> mount, name |-> handle, text |-> doc.text, staged |-> 0, photo |-> 0]
    OBVIOUS
  <2>2. w.photo = 0 /\ uploads' = uploads \cup {w}
    BY <1>14, <2>1 DEF UploadStarts
  <2>3. UNCHANGED <<doc, lastKey, fetching, drafts, photoCount, savedDoc, removals, puts, staged>>
    BY <1>14 DEF UploadStarts, RemoteVars
  <2>4. ASSUME NEW i, InUse(i)'
        PROVE  InUse(i) \/ i = 0
    BY <2>3, <2>4 DEF InUse
  <2>5. /\ \A u \in uploads' : u.photo = 0 \/ \E v \in uploads : v.photo = u.photo
        /\ \A u, v \in uploads' : u.photo = v.photo /\ u.photo # 0 => u = v
    BY <2>2 DEF UploadsFresh
  <2>6. photoCount <= photoCount'
    BY <1>c, <2>3
  <2>q. QED
    BY <1>c, <2>4, <2>5, <2>6, FreshStays
<1>15. ASSUME NEW u \in uploads, UploadServed(u)
       PROVE  UploadsFresh'
  <2>1. UNCHANGED <<doc, lastKey, fetching, drafts, savedDoc, removals, puts, staged>>
    BY <1>15 DEF UploadServed
  <2>2. \A i : InUse(i)' => InUse(i)
    BY <2>1 DEF InUse
  <2>3. CASE uploads' = uploads \ {u} /\ photoCount' = photoCount
    <3>1. /\ \A v \in uploads' : v.photo = 0 \/ \E w \in uploads : w.photo = v.photo
          /\ \A v, w \in uploads' : v.photo = w.photo /\ v.photo # 0 => v = w
      BY <2>3 DEF UploadsFresh
    <3>2. photoCount <= photoCount'
      BY <1>c, <2>3
    <3>q. QED
      BY <1>c, <2>2, <3>1, <3>2, FreshStays
  <2>4. CASE photoCount' = photoCount + 1 /\ uploads' = (uploads \ {u}) \cup {[u EXCEPT !.photo = photoCount']}
    <3>1. PICK w : w = [u EXCEPT !.photo = photoCount']
      OBVIOUS
    <3>2. w.photo = photoCount + 1 /\ uploads' = (uploads \ {u}) \cup {w}
      BY <1>c, <2>4, <3>1 DEF UploadsSent
    <3>3. \A v \in uploads : v.photo \in 0 .. photoCount
      BY DEF UploadsFresh
    <3>4. \A i : InUse(i)' => i \in 0 .. photoCount
      BY <2>2 DEF UploadsFresh
    <3>5. \A i : InUse(i)' => i \in 0 .. photoCount'
      BY <1>c, <2>4, <3>4
    <3>6. \A v \in uploads' : v.photo \in 0 .. photoCount'
      BY <1>c, <2>4, <3>2, <3>3
    <3>7. \A v \in uploads' : v.photo # 0 => ~InUse(v.photo)'
      <4>1. ~InUse(w.photo)'
        BY <1>c, <3>2, <3>4
      <4>q. QED
        BY <2>2, <3>2, <4>1 DEF UploadsFresh
    <3>8. \A v, x \in uploads' : v.photo = x.photo /\ v.photo # 0 => v = x
      <4>1. \A v \in uploads : v.photo # w.photo
        BY <1>c, <3>2, <3>3
      <4>q. QED
        BY <3>2, <4>1 DEF UploadsFresh
    <3>q. QED
      BY <3>5, <3>6, <3>7, <3>8 DEF UploadsFresh
  <2>q. QED
    BY <1>15, <2>3, <2>4 DEF UploadServed
<1>16. ASSUME NEW u \in uploads, Uploaded(u)
       PROVE  UploadsFresh'
  <2>1. PICK d : d = [text |-> u.text, photo |-> u.photo]
    OBVIOUS
  <2>2. d.photo = u.photo /\ Content(d) /\ gate = "editor" /\ u.photo # 0
    BY <1>16, <2>1 DEF Uploaded
  <2>3. /\ UNCHANGED <<savedDoc, lastKey, fetching, puts, photoCount>> /\ uploads' = uploads \ {u}
        /\ staged' = d.photo /\ removals' \subseteq removals \cup {staged}
    BY <1>16, <2>2 DEF Uploaded, Forgets
  <2>4. \A i : InUse(i)' => InUse(i) \/ i = u.photo \/ i = 0
    BY <2>2, <2>3, ContentUses
  <2>5. \A i : InUse(i)' => i \in 0 .. photoCount'
    BY <1>c, <2>3, <2>4 DEF UploadsFresh
  <2>6. \A v \in uploads' : v.photo # u.photo
    BY <2>2, <2>3 DEF UploadsFresh
  <2>7. \A v \in uploads' : v.photo \in 0 .. photoCount' /\ (v.photo # 0 => ~InUse(v.photo)')
    BY <2>3, <2>4, <2>6 DEF UploadsFresh
  <2>8. \A v, w \in uploads' : v.photo = w.photo /\ v.photo # 0 => v = w
    BY <2>3 DEF UploadsFresh
  <2>q. QED
    BY <2>5, <2>7, <2>8 DEF UploadsFresh
<1>17. ASSUME NEW u \in uploads, UploadedLate(u)
       PROVE  UploadsFresh'
  BY <1>17 DEF UploadedLate
<1>18. CASE RemovePhoto
  <2>1. PICK d : d = [doc EXCEPT !.photo = 0]
    OBVIOUS
  <2>2. d.photo = 0
    BY <2>1 DEF EditorTyped, Documents
  <2>3. Content(d) /\ gate = "editor"
    BY <1>18, <2>1 DEF RemovePhoto, Editable
  <2>4. /\ UNCHANGED <<savedDoc, lastKey, fetching, puts, uploads, photoCount>>
        /\ staged' = 0 /\ removals' \subseteq removals \cup {staged}
    BY <1>18 DEF RemovePhoto, Forgets
  <2>q. QED
    BY <1>p, <2>2, <2>3, <2>4
<1>19. ASSUME NEW i \in removals, RemovalServed(i)
       PROVE  UploadsFresh'
  <2>1. UNCHANGED <<doc, lastKey, fetching, drafts, photoCount, puts, staged, uploads>> /\ removals' \subseteq removals
    BY <1>19 DEF RemovalServed, PhotoVars
  <2>2. savedDoc'.photo \in {savedDoc.photo, 0}
    BY <1>19 DEF RemovalServed, EditorTyped, Documents
  <2>3. ASSUME NEW j, InUse(j)'
        PROVE  InUse(j) \/ j = 0
    BY <2>1, <2>2, <2>3 DEF InUse
  <2>q. QED
    BY <1>s, <2>1, <2>3
<1>q. QED
  BY <1>1, <1>3, <1>4, <1>5, <1>6, <1>7, <1>8, <1>9, <1>10, <1>11, <1>12, <1>13, <1>14, <1>15, <1>16, <1>17,
     <1>18, <1>19 DEF EditorNext

\* A save that was served left its outcome and nothing else.
LEMMA ServedIs ==
  ASSUME EditorTyped, NEW p \in puts, SaveServed(p)
  PROVE  \E q \in PutsSent : /\ puts' = (puts \ {p}) \cup {q}
                             /\ q.mount = p.mount /\ q.name = p.name /\ q.doc = p.doc
                             /\ q.state = "ok" => savedDoc' = p.doc
<1>1. \A s \in Outcome : LET q == [p EXCEPT !.state = s]
                         IN  q \in PutsSent /\ q.mount = p.mount /\ q.name = p.name /\ q.doc = p.doc /\ q.state = s
  BY DEF EditorTyped, PutsSent
<1>2. PICK s \in Outcome : /\ puts' = (puts \ {p}) \cup {[p EXCEPT !.state = s]}
                           /\ s = "ok" => savedDoc' = p.doc
  BY DEF SaveServed, PutMine, Outcome
<1>q. QED
  BY <1>1, <1>2

LEMMA OutlivedStep ==
  ASSUME EditorTyped, Outlived, ~crossed', EditorNext
  PROVE  Outlived'
<1>m. mount \in Nat /\ \A p \in puts : p.mount \in Nat /\ p.mount <= mount
  BY DEF EditorTyped, PutsSent, Outlived
<1>1. CASE GateAnswers
  BY <1>1 DEF GateAnswers, RemoteVars, Outlived
<1>2. CASE OpenEditor \/ Rename
  <2>1. mount' = mount + 1 /\ puts' = puts /\ gate' = "editor"
    BY <1>2 DEF OpenEditor, Rename, Mounted, RemoteVars
  <2>2. \A p \in puts' : p.mount <= mount'
    BY <1>m, <2>1
  <2>q. QED
    BY <2>1, <2>2 DEF Outlived
<1>3. CASE LeaveEditor
  BY <1>3 DEF LeaveEditor, RemoteVars, Outlived
<1>4. CASE FetchServed \/ DocLoaded \/ DocFails \/ Select \/ \E t \in 1 .. MaxTexts : Edit(t)
  BY <1>4 DEF FetchServed, DocLoaded, DocFails, Select, Edit, RemoteVars, Outlived
<1>5. CASE SaveStarts
  <2>1. PICK p : p = [mount |-> mount, name |-> handle, doc |-> doc, state |-> "sent"]
    OBVIOUS
  <2>2. p.mount = mount /\ puts' = puts \cup {p} /\ UNCHANGED <<gate, mount, removals>>
    BY <1>5, <2>1 DEF SaveStarts
  <2>3. \A q \in puts' : q.mount <= mount'
    BY <1>m, <2>2
  <2>q. QED
    BY <2>2, <2>3 DEF Outlived
<1>6. ASSUME NEW p \in puts, SaveServed(p)
      PROVE  Outlived'
  <2>1. PICK q : puts' = (puts \ {p}) \cup {q} /\ q.mount = p.mount
    BY <1>6, ServedIs
  <2>2. UNCHANGED <<gate, mount, removals>>
    BY <1>6 DEF SaveServed
  <2>q. QED
    BY <2>1, <2>2 DEF Outlived
<1>7. ASSUME NEW p \in puts, SaveAnswers(p)
      PROVE  Outlived'
  BY <1>7 DEF SaveAnswers, Outlived
<1>8. CASE UploadStarts
  BY <1>8 DEF UploadStarts, RemoteVars, Outlived
<1>9. ASSUME NEW u \in uploads, UploadServed(u) \/ Uploaded(u)
      PROVE  Outlived'
  BY <1>9 DEF UploadServed, Uploaded, Outlived
<1>10. ASSUME NEW u \in uploads, UploadedLate(u)
       PROVE  Outlived'
  BY <1>10 DEF UploadedLate
<1>11. CASE RemovePhoto
  BY <1>11 DEF RemovePhoto, Editable, Outlived
<1>12. ASSUME NEW i \in removals, RemovalServed(i)
       PROVE  Outlived'
  BY <1>12 DEF RemovalServed, Outlived
<1>q. QED
  BY <1>1, <1>2, <1>3, <1>4, <1>5, <1>6, <1>7, <1>8, <1>9, <1>10, <1>11, <1>12 DEF EditorNext

\* What the page promises, for a step of an open editor that stays open.
PagePromises == EditsShown /\ SavesFollow /\ SaysSaved

LEMMA PromisesStay ==
  ASSUME PagePromises,
         UNCHANGED <<gate, mount, handle, doc, ready, saveState, lastKey, dirty, debounce, fetching, puts,
                     savedDoc, drafts, typed>>, removals' \subseteq removals
  PROVE  PagePromises'
<1>1. EditsShown'
  BY DEF PagePromises, EditsShown
<1>2. SavesFollow'
  BY DEF PagePromises, SavesFollow, SaveFollows
<1>3. SaysSaved'
  BY DEF PagePromises, SaysSaved
<1>q. QED
  BY <1>1, <1>2, <1>3 DEF PagePromises

LEMMA PromisesStart ==
  ASSUME EditorTyped, Outlived, ~crossed', NEW h, Mounted(h)
  PROVE  PagePromises'
<1>1. /\ removals' = {} /\ puts' = puts /\ mount' = mount + 1 /\ typed' = NoDoc
      /\ ready' = FALSE /\ debounce' = FALSE /\ saveState' = "idle"
  BY DEF Mounted, RemoteVars
<1>2. EditsShown'
  BY <1>1 DEF EditsShown
<1>3. \A p \in puts' : p.mount # mount'
  BY <1>1 DEF Outlived, EditorTyped, PutsSent
<1>4. SavesFollow' /\ SaysSaved'
  BY <1>1, <1>3 DEF SavesFollow, SaysSaved
<1>q. QED
  BY <1>2, <1>4 DEF PagePromises

\* The document that was read may come into the page: no save of this editor is under way yet.
LEMMA PromisesLoad ==
  ASSUME EditorTyped, PagePromises, DocLoaded \/ DocFails
  PROVE  PagePromises'
<1>1. gate = "editor" /\ fetching.state # "none" /\ ready' = TRUE /\ fetching'.state = "none"
  <2>1. CASE DocLoaded
    BY <2>1 DEF DocLoaded, NoFetch
  <2>2. CASE DocFails
    BY <2>2 DEF DocFails, NoFetch
  <2>q. QED
    BY <2>1, <2>2
<1>2. ~ready
  BY <1>1 DEF PagePromises, EditsShown
<1>3. UNCHANGED <<gate, mount, handle, dirty, typed, removals, puts>> /\ (dirty => doc' = doc)
  BY DEF DocLoaded, DocFails, RemoteVars
<1>4. EditsShown'
  BY <1>1, <1>3 DEF PagePromises, EditsShown
<1>5. \A p \in puts : p.mount # mount
  BY <1>1, <1>2 DEF PagePromises, SavesFollow, SaveFollows
<1>6. saveState # "saved"
  BY <1>1, <1>2 DEF PagePromises, SaysSaved
<1>7. saveState' # "saved"
  BY <1>6 DEF DocLoaded, DocFails, Autosave
<1>8. SavesFollow' /\ SaysSaved'
  BY <1>3, <1>5, <1>7 DEF SavesFollow, SaysSaved
<1>q. QED
  BY <1>4, <1>8 DEF PagePromises

\* Content the page writes itself: what is typed is shown, a save under way is followed by
\* another unless that undoes it, and "Saved" stays for content that is stored already only.
LEMMA PromisesWrite ==
  ASSUME EditorTyped, PagePromises, gate = "editor",
         NEW d, Content(d), typed' = d, d = lastKey => puts = {},
         UNCHANGED <<gate, mount, handle, ready, lastKey, fetching, savedDoc, puts>>,
         \A i \in removals' : i \notin {0, d.photo},
         \/ d.photo \in {0, doc.photo}
         \/ d # lastKey /\ \A p \in puts : p.doc.photo # d.photo
  PROVE  PagePromises'
<1>1. /\ dirty' = TRUE /\ doc' = d /\ drafts' = [drafts EXCEPT ![handle] = d]
      /\ ready /\ d # lastKey => debounce' /\ saveState' = "saving"
      /\ debounce' => ready
      /\ saveState' \in {"saving", saveState}
  BY DEF Content, Autosave
<1>2. EditsShown'
  BY <1>1 DEF PagePromises, EditsShown
<1>3. SavesFollow'
  <2>1. SUFFICES ASSUME NEW p \in puts, p.mount = mount
                 PROVE  SaveFollows(p)'
    BY DEF SavesFollow
  <2>2. SaveFollows(p)
    BY <2>1 DEF PagePromises, SavesFollow
  <2>3. debounce' /\ doc' # lastKey'
    BY <1>1, <2>1, <2>2 DEF SaveFollows
  <2>4. p.doc.photo \notin {0, doc.photo} => p.doc.photo \notin {0, d.photo}
    BY <2>1
  <2>q. QED
    BY <1>1, <2>2, <2>3, <2>4 DEF SaveFollows
<1>4. SaysSaved'
  <2>1. SUFFICES ASSUME saveState' = "saved"
                 PROVE  SaysSaved'
    BY DEF SaysSaved
  <2>2. saveState = "saved"
    BY <1>1, <2>1
  <2>3. ready
    BY <2>2 DEF PagePromises, SaysSaved
  <2>4. d = lastKey
    BY <1>1, <2>1, <2>3
  <2>5. puts = {} /\ drafts'[handle] = d
    BY <1>1, <2>4 DEF EditorTyped
  <2>6. savedDoc = lastKey
    BY <2>2, <2>4, <2>5 DEF PagePromises, SaysSaved
  <2>q. QED
    BY <1>1, <2>3, <2>4, <2>5, <2>6 DEF SaysSaved
<1>q. QED
  BY <1>2, <1>3, <1>4 DEF PagePromises

LEMMA PromisesAnswered ==
  ASSUME EditorTyped, PagePromises, NEW p \in puts, SaveAnswers(p)
  PROVE  PagePromises'
<1>1. /\ UNCHANGED <<gate, mount, handle, doc, ready, dirty, debounce, fetching, savedDoc, removals, typed>>
      /\ puts' = puts \ {p} /\ drafts' = [drafts EXCEPT ![p.name] = p.doc]
  BY DEF SaveAnswers
<1>2. EditsShown'
  BY <1>1 DEF PagePromises, EditsShown
<1>3. CASE gate # "editor"
  BY <1>1, <1>2, <1>3 DEF PagePromises, SavesFollow, SaysSaved
<1>4. CASE gate = "editor" /\ p.mount = mount
  <2>1. SaveFollows(p)
    BY <1>4 DEF PagePromises, SavesFollow
  <2>2. puts' = {}
    BY <1>1, <2>1 DEF SaveFollows
  <2>3. SavesFollow'
    BY <2>2 DEF SavesFollow
  <2>4. SaysSaved'
    <3>1. SUFFICES ASSUME saveState' = "saved"
                   PROVE  SaysSaved'
      BY DEF SaysSaved
    <3>2. p.state = "ok" /\ lastKey' = p.doc
      BY <1>4, <3>1 DEF SaveAnswers
    <3>3. drafts'[handle] = p.doc
      BY <1>1, <1>4, <2>1 DEF SaveFollows, EditorTyped
    <3>q. QED
      BY <1>1, <2>1, <2>2, <3>2, <3>3 DEF SaveFollows, SaysSaved
  <2>q. QED
    BY <1>2, <2>3, <2>4 DEF PagePromises
<1>5. CASE gate = "editor" /\ p.mount # mount
  <2>1. UNCHANGED <<lastKey, saveState>>
    BY <1>5 DEF SaveAnswers
  <2>2. \A q \in puts : q.mount # mount
    BY <1>5 DEF PagePromises, SavesFollow, SaveFollows
  <2>3. saveState # "saved"
    BY <1>5 DEF PagePromises, SaysSaved
  <2>4. SavesFollow' /\ SaysSaved'
    BY <1>1, <2>1, <2>2, <2>3 DEF SavesFollow, SaysSaved
  <2>q. QED
    BY <1>2, <2>4 DEF PagePromises
<1>q. QED
  BY <1>3, <1>4, <1>5

LEMMA PromisesServed ==
  ASSUME EditorTyped, PagePromises, NEW p \in puts, SaveServed(p)
  PROVE  PagePromises'
<1>1. UNCHANGED <<gate, mount, handle, doc, ready, saveState, lastKey, dirty, debounce, fetching, removals,
                  drafts, typed>>
  BY DEF SaveServed
<1>2. PICK q \in PutsSent : /\ puts' = (puts \ {p}) \cup {q}
                            /\ q.mount = p.mount /\ q.name = p.name /\ q.doc = p.doc
                            /\ q.state = "ok" => savedDoc' = p.doc
  BY ServedIs
<1>3. EditsShown'
  BY <1>1 DEF PagePromises, EditsShown
<1>4. SavesFollow'
  <2>1. SUFFICES ASSUME gate = "editor", NEW r \in puts', r.mount = mount
                 PROVE  SaveFollows(r)'
    BY <1>1 DEF SavesFollow
  <2>2. p.mount = mount
    BY <1>2, <2>1 DEF PagePromises, SavesFollow, SaveFollows
  <2>3. SaveFollows(p)
    BY <2>1, <2>2 DEF PagePromises, SavesFollow
  <2>4. puts' = {q} /\ r = q
    BY <1>2, <2>1, <2>3 DEF SaveFollows
  <2>q. QED
    BY <1>1, <1>2, <2>3, <2>4 DEF SaveFollows
<1>5. SaysSaved'
  BY <1>1, <1>2 DEF PagePromises, SaysSaved
<1>q. QED
  BY <1>3, <1>4, <1>5 DEF PagePromises

LEMMA PromisesSave ==
  ASSUME EditorTyped, PagePromises, ~crossed', SaveStarts
  PROVE  PagePromises'
<1>1. PICK p : p = [mount |-> mount, name |-> handle, doc |-> doc, state |-> "sent"]
  OBVIOUS
<1>2. p.mount = mount /\ p.name = handle /\ p.doc = doc /\ p.state = "sent"
  BY <1>1
<1>3. /\ UNCHANGED <<gate, mount, handle, doc, ready, saveState, lastKey, dirty, fetching, savedDoc, removals,
                     drafts, typed>>
      /\ puts' = {p} /\ debounce /\ debounce' = FALSE /\ gate = "editor"
  BY <1>1 DEF SaveStarts
<1>4. ready
  BY <1>3 DEF PagePromises, EditsShown
<1>5. EditsShown'
  BY <1>3 DEF PagePromises, EditsShown
<1>6. SaveFollows(p)'
  BY <1>2, <1>3, <1>4 DEF SaveFollows
<1>7. SavesFollow' /\ SaysSaved'
  BY <1>2, <1>3, <1>4, <1>6 DEF SavesFollow, SaysSaved
<1>q. QED
  BY <1>5, <1>7 DEF PagePromises

LEMMA PromisesRemoval ==
  ASSUME EditorTyped, UploadsFresh, Outlived, PagePromises, NEW i \in removals, RemovalServed(i)
  PROVE  PagePromises'
<1>1. /\ UNCHANGED <<gate, mount, handle, doc, ready, saveState, lastKey, dirty, debounce, fetching, puts, drafts,
                     typed>>
      /\ removals' \subseteq removals /\ (savedDoc' = savedDoc \/ savedDoc.photo = i)
  BY DEF RemovalServed, PhotoVars
<1>2. gate = "editor" /\ i \notin {0, doc.photo}
  BY DEF Outlived, PagePromises, EditsShown
<1>3. EditsShown'
  BY <1>1 DEF PagePromises, EditsShown
<1>4. SavesFollow'
  BY <1>1, <1>2 DEF PagePromises, SavesFollow, SaveFollows
<1>5. SaysSaved'
  BY <1>1, <1>2 DEF PagePromises, SaysSaved
<1>q. QED
  BY <1>3, <1>4, <1>5 DEF PagePromises

LEMMA PromisesSelect ==
  ASSUME EditorTyped, PagePromises, Select
  PROVE  PagePromises'
<1>1. /\ UNCHANGED <<gate, mount, handle, doc, ready, lastKey, dirty, fetching, puts, savedDoc, removals, drafts,
                     typed>>
      /\ ready /\ doc # lastKey => debounce' /\ saveState' = "saving"
      /\ debounce' => ready
      /\ saveState' \in {"saving", saveState}
  BY DEF Select, Autosave, RemoteVars
<1>2. EditsShown'
  BY <1>1 DEF PagePromises, EditsShown
<1>3. SavesFollow'
  BY <1>1 DEF PagePromises, SavesFollow, SaveFollows
<1>4. SaysSaved'
  BY <1>1 DEF PagePromises, SaysSaved
<1>q. QED
  BY <1>2, <1>3, <1>4 DEF PagePromises

LEMMA PromisesStep ==
  ASSUME EditorTyped, UploadsFresh, Outlived, PagePromises, ~crossed', EditorNext
  PROVE  PagePromises'
<1>1. CASE GateAnswers \/ LeaveEditor
  <2>1. gate' # "editor"
    BY <1>1 DEF GateAnswers, LeaveEditor
  <2>q. QED
    BY <2>1 DEF PagePromises, EditsShown, SavesFollow, SaysSaved
<1>2. CASE OpenEditor \/ Rename
  BY <1>2, PromisesStart DEF OpenEditor, Rename
<1>3. CASE FetchServed
  <2>1. /\ UNCHANGED <<gate, mount, handle, doc, ready, saveState, lastKey, dirty, debounce, puts, savedDoc, drafts,
                       typed, removals>>
        /\ fetching.state = "sent"
    BY <1>3 DEF FetchServed, RemoteVars
  <2>2. EditsShown'
    BY <2>1 DEF PagePromises, EditsShown
  <2>3. SavesFollow' /\ SaysSaved'
    BY <2>1 DEF PagePromises, SavesFollow, SaveFollows, SaysSaved
  <2>q. QED
    BY <2>2, <2>3 DEF PagePromises
<1>4. CASE DocLoaded \/ DocFails
  BY <1>4, PromisesLoad
<1>5. ASSUME NEW t \in 1 .. MaxTexts, Edit(t)
      PROVE  PagePromises'
  <2>1. PICK d : d = [doc EXCEPT !.text = t]
    OBVIOUS
  <2>2. d.photo = doc.photo
    BY <2>1 DEF EditorTyped, Documents
  <2>3. gate = "editor" /\ Content(d) /\ typed' = d /\ (d = lastKey => puts = {})
    BY <1>5, <2>1 DEF Edit, Editable
  <2>4. UNCHANGED <<gate, mount, handle, ready, lastKey, fetching, savedDoc, puts, removals>>
    BY <1>5 DEF Edit, RemoteVars
  <2>5. \A i \in removals' : i \notin {0, d.photo}
    BY <2>2, <2>3, <2>4 DEF PagePromises, EditsShown
  <2>q. QED
    BY <2>2, <2>3, <2>4, <2>5, PromisesWrite
<1>6. CASE Select
  BY <1>6, PromisesSelect
<1>7. CASE SaveStarts
  BY <1>7, PromisesSave
<1>8. ASSUME NEW p \in puts, SaveServed(p) \/ SaveAnswers(p)
      PROVE  PagePromises'
  BY <1>8, PromisesServed, PromisesAnswered
<1>9. CASE UploadStarts
  <2>1. UNCHANGED <<gate, mount, handle, doc, ready, saveState, lastKey, dirty, debounce, fetching, puts,
                    savedDoc, drafts, typed, removals>>
    BY <1>9 DEF UploadStarts, RemoteVars
  <2>q. QED
    BY <2>1, PromisesStay
<1>10. ASSUME NEW u \in uploads, UploadServed(u)
       PROVE  PagePromises'
  <2>1. UNCHANGED <<gate, mount, handle, doc, ready, saveState, lastKey, dirty, debounce, fetching, puts,
                    savedDoc, drafts, typed, removals>>
    BY <1>10 DEF UploadServed
  <2>q. QED
    BY <2>1, PromisesStay
<1>11. ASSUME NEW u \in uploads, Uploaded(u)
       PROVE  PagePromises'
  <2>1. PICK d : d = [text |-> u.text, photo |-> u.photo]
    OBVIOUS
  <2>2. d.photo = u.photo /\ u.photo # 0 /\ u.text = doc.text
    BY <1>11, <2>1 DEF Uploaded
  <2>3. gate = "editor" /\ Content(d) /\ typed' = d
    BY <1>11, <2>1, <2>2 DEF Uploaded
  <2>4. /\ UNCHANGED <<gate, mount, handle, ready, lastKey, fetching, savedDoc, puts>>
        /\ removals' = IF staged \in {0, u.photo} THEN removals ELSE removals \cup {staged}
    BY <1>11 DEF Uploaded, Forgets
  <2>5. ~InUse(u.photo)
    BY <2>2 DEF UploadsFresh
  <2>6. \A i \in removals' : i \notin {0, d.photo}
    <3>1. \A i \in removals : i \notin {0, d.photo}
      BY <2>2, <2>3, <2>5 DEF PagePromises, EditsShown, InUse
    <3>q. QED
      BY <2>2, <2>4, <3>1
  <2>7. d # lastKey /\ \A p \in puts : p.doc.photo # d.photo
    BY <2>2, <2>5 DEF InUse
  <2>q. QED
    BY <2>3, <2>4, <2>6, <2>7, PromisesWrite
<1>12. ASSUME NEW u \in uploads, UploadedLate(u)
       PROVE  PagePromises'
  BY <1>12 DEF UploadedLate
<1>13. CASE RemovePhoto
  <2>1. PICK d : d = [doc EXCEPT !.photo = 0]
    OBVIOUS
  <2>2. d.photo = 0
    BY <2>1 DEF EditorTyped, Documents
  <2>3. gate = "editor" /\ Content(d) /\ typed' = d /\ (d = lastKey => puts = {})
    BY <1>13, <2>1 DEF RemovePhoto, Editable
  <2>4. /\ UNCHANGED <<gate, mount, handle, ready, lastKey, fetching, savedDoc, puts>>
        /\ removals' = IF staged = 0 THEN removals ELSE removals \cup {staged}
    BY <1>13 DEF RemovePhoto, Forgets
  <2>5. \A i \in removals' : i \notin {0, d.photo}
    BY <2>2, <2>3, <2>4 DEF PagePromises, EditsShown
  <2>q. QED
    BY <2>2, <2>3, <2>4, <2>5, PromisesWrite
<1>14. ASSUME NEW i \in removals, RemovalServed(i)
       PROVE  PagePromises'
  BY <1>14, PromisesRemoval
<1>q. QED
  BY <1>1, <1>2, <1>3, <1>4, <1>5, <1>6, <1>7, <1>8, <1>9, <1>10, <1>11, <1>12, <1>13, <1>14 DEF EditorNext

LEMMA CrossedStays ==
  ASSUME EditorNext, crossed
  PROVE  crossed'
<1>q. QED
  BY DEF EditorNext, GateAnswers, OpenEditor, LeaveEditor, Rename, Mounted, FetchServed, DocLoaded, DocFails,
     Edit, Select, SaveStarts, SaveServed, SaveAnswers, UploadStarts, RemovePhoto, UploadServed, Uploaded,
     UploadedLate, RemovalServed

LEMMA EditorStep ==
  ASSUME EditorInv, [EditorNext]_editorVars
  PROVE  EditorInv'
<1>1. CASE UNCHANGED editorVars
  <2>1. EditorTyped' = EditorTyped
    BY <1>1 DEF editorVars, EditorTyped
  <2>2. UploadsFresh' = UploadsFresh
    BY <1>1 DEF editorVars, UploadsFresh, InUse
  <2>3. (Outlived /\ EditsShown /\ SavesFollow /\ SaysSaved)' = (Outlived /\ EditsShown /\ SavesFollow /\ SaysSaved)
    BY <1>1 DEF editorVars, Outlived, EditsShown, SavesFollow, SaveFollows, SaysSaved
  <2>4. crossed' = crossed
    BY <1>1 DEF editorVars
  <2>q. QED
    BY <2>1, <2>2, <2>3, <2>4 DEF EditorInv, EditorKept
<1>2. CASE EditorNext
  <2>1. EditorTyped'
    BY <1>2, EditorTypedStep DEF EditorInv
  <2>2. ASSUME ~crossed'
        PROVE  EditorKept'
    <3>1. EditorTyped /\ UploadsFresh /\ Outlived /\ PagePromises
      BY <1>2, <2>2, CrossedStays DEF EditorInv, EditorKept, PagePromises
    <3>2. UploadsFresh' /\ Outlived' /\ PagePromises'
      BY <1>2, <2>1, <2>2, <3>1, FreshStep, OutlivedStep, PromisesStep
    <3>q. QED
      BY <2>1, <3>2 DEF EditorKept, PagePromises
  <2>q. QED
    BY <2>1, <2>2 DEF EditorInv
<1>q. QED
  BY <1>1, <1>2

-----------------------------------------------------------------------------
(* The social page: the conversation.                                      *)

ChatInv == UnreadIsWhatCame /\ ThreadIsOfItsChat

LEMMA ChatStart ==
  ASSUME ChatInit
  PROVE  ChatInv
<1>q. QED
  BY DEF ChatInit, ChatInv, UnreadIsWhatCame, ThreadIsOfItsChat

\* The badges: both counts move together.
LEMMA BadgesStep ==
  ASSUME UnreadIsWhatCame, ChatNext
  PROVE  UnreadIsWhatCame'
<1> USE DEF UnreadIsWhatCame
<1>1. ASSUME NEW c \in MaybeChat, OpenChat(c)
      PROVE  UnreadIsWhatCame'
  BY <1>1 DEF OpenChat, counted
<1>2. ASSUME NEW c \in Chats, OpenCreated(c) \/ Dropped(c)
      PROVE  UnreadIsWhatCame'
  BY <1>2 DEF OpenCreated, Dropped, counted
<1>3. ASSUME NEW m, Pushed(m), capped' = capped
      PROVE  UnreadIsWhatCame'
  BY <1>3 DEF Pushed, Counts, counted
<1>4. ASSUME NEW c \in Chats, GroupMessage(c)
      PROVE  UnreadIsWhatCame'
  BY <1>3, <1>4 DEF GroupMessage
<1>5. ASSUME NEW c \in Chats, DirectMessage(c)
      PROVE  UnreadIsWhatCame'
  <2>1. SUFFICES ASSUME ~capped'
                 PROVE  unread' = came'
    OBVIOUS
  <2>2. ~capped /\ notes # KeptNotes
    BY <1>5, <2>1 DEF DirectMessage, Noted
  <2>3. UNCHANGED counted \/ Counts(c)
    BY <1>5, <2>2 DEF DirectMessage
  <2>q. QED
    BY <2>2, <2>3 DEF Counts, counted
<1>6. ASSUME NEW l \in loads, ServerReads(l) \/ MessagesLoaded(l) \/ MembersLoaded(l) \/ LoadFailed(l)
      PROVE  UnreadIsWhatCame'
  BY <1>6 DEF ServerReads, MessagesLoaded, MembersLoaded, LoadFailed, counted
<1>7. ASSUME NEW m \in sends, Sent(m)
      PROVE  UnreadIsWhatCame'
  BY <1>7 DEF Sent, counted
<1>8. ASSUME NEW m \in echoes, GroupEcho(m)
      PROVE  UnreadIsWhatCame'
  BY <1>3, <1>8 DEF GroupEcho
<1>9. CASE ReloadMessages \/ Types \/ Submits \/ ServerStores \/ SendFails
  BY <1>9 DEF ReloadMessages, Types, Submits, ServerStores, SendFails, counted
<1>q. QED
  BY <1>1, <1>2, <1>4, <1>5, <1>6, <1>7, <1>8, <1>9 DEF ChatNext

LEMMA ThreadStep ==
  ASSUME ThreadIsOfItsChat, ChatNext
  PROVE  ThreadIsOfItsChat'
<1> USE DEF ThreadIsOfItsChat
<1>1. ASSUME NEW c \in MaybeChat, OpenChat(c)
      PROVE  ThreadIsOfItsChat'
  BY <1>1 DEF OpenChat
<1>2. ASSUME NEW c \in Chats, OpenCreated(c)
      PROVE  ThreadIsOfItsChat'
  BY <1>2 DEF OpenCreated
<1>3. ASSUME NEW c \in Chats, Dropped(c)
      PROVE  ThreadIsOfItsChat'
  BY <1>3 DEF Dropped
<1>4. ASSUME NEW m, Pushed(m), UNCHANGED <<active, roster, astray>>
      PROVE  ThreadIsOfItsChat'
  BY <1>4 DEF Pushed
<1>5. ASSUME NEW c \in Chats, GroupMessage(c) \/ DirectMessage(c)
      PROVE  ThreadIsOfItsChat'
  <2>1. CASE GroupMessage(c)
    BY <1>4, <2>1 DEF GroupMessage
  <2>2. CASE DirectMessage(c)
    BY <2>2 DEF DirectMessage
  <2>q. QED
    BY <1>5, <2>1, <2>2
<1>6. ASSUME NEW l \in loads, ServerReads(l) \/ LoadFailed(l)
      PROVE  ThreadIsOfItsChat'
  BY <1>6 DEF ServerReads, LoadFailed
<1>7. ASSUME NEW l \in loads, MessagesLoaded(l)
      PROVE  ThreadIsOfItsChat'
  <2>1. \A m \in thread' : m[1] = l.chat
    BY <1>7 DEF MessagesLoaded, Messages
  <2>q. QED
    BY <1>7, <2>1 DEF MessagesLoaded
<1>8. ASSUME NEW l \in loads, MembersLoaded(l)
      PROVE  ThreadIsOfItsChat'
  BY <1>8 DEF MembersLoaded
<1>9. ASSUME NEW m \in sends, Sent(m)
      PROVE  ThreadIsOfItsChat'
  BY <1>9 DEF Sent
<1>10. ASSUME NEW m \in echoes, GroupEcho(m)
       PROVE  ThreadIsOfItsChat'
  BY <1>4, <1>10 DEF GroupEcho
<1>11. CASE ReloadMessages \/ Types \/ Submits \/ ServerStores \/ SendFails
  BY <1>11 DEF ReloadMessages, Types, Submits, ServerStores, SendFails, screen
<1>q. QED
  BY <1>1, <1>2, <1>3, <1>5, <1>6, <1>7, <1>8, <1>9, <1>10, <1>11 DEF ChatNext

LEMMA ChatStep ==
  ASSUME ChatInv, [ChatNext]_chatVars
  PROVE  ChatInv'
<1>1. CASE UNCHANGED chatVars
  BY <1>1 DEF chatVars, ChatInv, UnreadIsWhatCame, ThreadIsOfItsChat
<1>2. CASE ChatNext
  BY <1>2, BadgesStep, ThreadStep DEF ChatInv
<1>q. QED
  BY <1>1, <1>2

-----------------------------------------------------------------------------
(* The social page: friends and requests.                                  *)

Friendships == [People -> Bonds]

RosterTyped ==
  /\ place \in Places /\ bond \in Friendships /\ shown \in Friendships
  /\ reads \subseteq [saw : SUBSET Friendships, n : Nat] /\ readCount \in Nat
  /\ acts \subseteq [by : Places \cup {"left"}, act : {"request", "accept", "decline", "remove"},
                     who : People, done : BOOLEAN]
  /\ news \in Nat

\* The list is read once at a time, what is under way was asked for here, once per account.
OneRead == \A r, s \in reads : r = s
ActsOfThePage == \A a \in acts : a.by = "page" /\ \A b \in acts : a.who = b.who => a = b

\* Nobody is a friend, or asked to be one, whom the server has just taken off the friends.
RemovesMeant ==
  \A a \in acts : a.act = "remove" => bond[a.who] # "outgoing" /\ (a.done => bond[a.who] # "friend")

\* A request of ours is still to be answered, or is older than the list.
OutgoingKnown ==
  \A p \in People : bond[p] = "outgoing" =>
    \/ \E a \in acts : a.who = p /\ a.done /\ a.act = "request"
    \/ shown[p] # "friend" /\ \A r \in reads : \A b \in r.saw : b[p] = "outgoing"

\* A list agrees with the server but for friends the page is about to take off.
Agrees(list) ==
  \A p \in People :
    \/ list[p] = bond[p]
    \/ list[p] = "friend" /\ bond[p] = "none" /\ \E a \in acts : a.who = p /\ a.done /\ a.act = "remove"

\* The list will be read again, or the one on the screen or on its way agrees.
Told == news > 0 \/ \E a \in acts : a.done /\ a.act # "remove"
ListAsked == \E r \in reads : r.saw = {}
Settling ==
  \/ Told \/ ListAsked
  \/ reads = {} /\ Agrees(shown)
  \/ \E r \in reads, b \in Friendships : r.saw = {b} /\ Agrees(b)

PageInv == OneRead /\ ActsOfThePage /\ RemovesMeant /\ OutgoingKnown /\ Settling
RosterInv == RosterTyped /\ (place = "page" /\ ~raced => PageInv)

LEMMA RosterStart ==
  ASSUME RosterInit
  PROVE  RosterInv
<1>1. place = "manager"
  BY DEF RosterInit
<1>2. RosterTyped
  BY DEF RosterInit, RosterTyped, Places, Friendships, Bonds
<1>q. QED
  BY <1>1, <1>2 DEF RosterInv

LEMMA RosterMeans ==
  ASSUME RosterInv
  PROVE  RosterSettles
<1>1. SUFFICES ASSUME place = "page", ~raced, reads = {}, acts = {}, news = 0
               PROVE  shown = bond
  BY DEF RosterSettles
<1>2. Agrees(shown)
  BY <1>1 DEF RosterInv, PageInv, Settling, Told, ListAsked
<1>3. \A p \in People : shown[p] = bond[p]
  BY <1>1, <1>2 DEF Agrees
<1>q. QED
  BY <1>3 DEF RosterInv, RosterTyped, Friendships

LEMMA RosterTypedStep ==
  ASSUME RosterTyped, RosterNext
  PROVE  RosterTyped'
<1> USE DEF RosterTyped
<1>0. Nothing \in Friendships
  BY DEF Nothing, Friendships, Bonds
<1>1. ASSUME Reads
      PROVE  reads' \subseteq [saw : SUBSET Friendships, n : Nat] /\ readCount' \in Nat
  BY <1>1 DEF Reads
<1>2. ASSUME NEW r \in reads, ServerLists(r)
      PROVE  RosterTyped'
  <2>1. [r EXCEPT !.saw = {bond}] \in [saw : SUBSET Friendships, n : Nat]
    OBVIOUS
  <2>q. QED
    BY <1>2, <2>1 DEF ServerLists
<1>3. ASSUME NEW r \in reads, Listed(r) \/ ListFails(r)
      PROVE  RosterTyped'
  BY <1>3 DEF Listed, ListFails
<1>4. CASE RetryRoster \/ NewsComes
  BY <1>1, <1>4 DEF RetryRoster, NewsComes
<1>5. ASSUME NEW v \in Places, Mounts(v)
      PROVE  RosterTyped'
  <2>1. \A a \in acts : [a EXCEPT !.by = "left"] \in [by : Places \cup {"left"},
          act : {"request", "accept", "decline", "remove"}, who : People, done : BOOLEAN]
    OBVIOUS
  <2>q. QED
    BY <1>0, <1>5, <2>1 DEF Mounts
<1>6. ASSUME NEW act \in {"request", "accept", "decline", "remove"}, NEW p \in People, Acts(act, p)
      PROVE  RosterTyped'
  <2>1. PICK a : a = [by |-> place, act |-> act, who |-> p, done |-> FALSE]
    OBVIOUS
  <2>2. a \in [by : Places \cup {"left"}, act : {"request", "accept", "decline", "remove"},
               who : People, done : BOOLEAN]
    BY <2>1
  <2>3. acts' = acts \cup {a}
    BY <1>6, <2>1 DEF Acts
  <2>q. QED
    BY <1>6, <2>2, <2>3 DEF Acts
<1>7. ASSUME NEW a \in acts, ServerActs(a)
      PROVE  RosterTyped'
  <2>1. [a EXCEPT !.done = TRUE] \in [by : Places \cup {"left"},
          act : {"request", "accept", "decline", "remove"}, who : People, done : BOOLEAN]
    OBVIOUS
  <2>2. \A b \in Bonds : After(a.act, b) \in Bonds
    BY DEF After, Bonds
  <2>3. bond' \in Friendships
    BY <1>7, <2>2 DEF ServerActs, Friendships
  <2>q. QED
    BY <1>7, <2>1, <2>3 DEF ServerActs
<1>8. ASSUME NEW a \in acts, Acted(a)
      PROVE  RosterTyped'
  <2>1. shown' \in Friendships
    BY <1>8 DEF Acted, Friendships, Bonds
  <2>q. QED
    BY <1>1, <1>8, <2>1 DEF Acted
<1>9. ASSUME NEW a \in acts, ActFails(a)
      PROVE  RosterTyped'
  BY <1>9 DEF ActFails
<1>10. ASSUME NEW p \in People, NEW b \in Bonds, OtherActs(p, b)
       PROVE  RosterTyped'
  BY <1>10 DEF OtherActs, Friendships
<1>11. ASSUME friends' = friends
       PROVE  RosterTyped'
  BY <1>11 DEF friends
<1>q. QED
  BY <1>2, <1>3, <1>4, <1>5, <1>6, <1>7, <1>8, <1>9, <1>10, <1>11
     DEF RosterNext, SheetStarts, SheetServed, SheetDone, SheetFails

\* The list is asked for again and will be read afresh.
LEMMA AskedAgain ==
  ASSUME ~raced', Reads
  PROVE  reads = {} /\ OneRead' /\ Settling' /\ \A r \in reads' : r.saw = {}
<1>1. PICK n : n = [saw |-> {}, n |-> readCount]
  OBVIOUS
<1>2. reads = {} /\ reads' = {n} /\ n.saw = {}
  BY <1>1 DEF Reads
<1>q. QED
  BY <1>2 DEF OneRead, Settling, ListAsked

LEMMA PageOpens ==
  ASSUME RosterTyped, NEW v \in Places, Mounts(v), ~raced'
  PROVE  PageInv'
<1>1. PICK n : n = [saw |-> {}, n |-> readCount]
  OBVIOUS
<1>2. /\ acts' = {} /\ reads' = {n} /\ n.saw = {}
      /\ \A p \in People : shown'[p] = "none"
  BY <1>1 DEF Mounts, Nothing
<1>q. QED
  BY <1>2 DEF PageInv, OneRead, ActsOfThePage, RemovesMeant, OutgoingKnown, Settling, ListAsked

\* While bonds, lists and acts stay, or acts only begin, everything does but for what is told.
LEMMA PageStays ==
  ASSUME PageInv, UNCHANGED <<bond, shown, reads, news>>,
         acts \subseteq acts', ActsOfThePage', RemovesMeant'
  PROVE  PageInv'
<1>1. OneRead'
  BY DEF PageInv, OneRead
<1>2. OutgoingKnown'
  BY DEF PageInv, OutgoingKnown
<1>3. Agrees(shown) => Agrees(shown)'
  BY DEF Agrees
<1>4. \A b \in Friendships : Agrees(b) => Agrees(b)'
  BY DEF Agrees
<1>5. Told => Told'
  BY DEF Told
<1>6. Settling'
  BY <1>3, <1>4, <1>5 DEF PageInv, Settling, ListAsked
<1>q. QED
  BY <1>1, <1>2, <1>6 DEF PageInv

LEMMA PageLists ==
  ASSUME RosterTyped, PageInv, ~raced', NEW r \in reads, ServerLists(r) \/ Listed(r) \/ ListFails(r)
  PROVE  PageInv'
<1>1. UNCHANGED <<bond, acts, news>>
  BY DEF ServerLists, Listed, ListFails
<1>2. reads = {r} /\ r.saw \subseteq Friendships
  BY DEF PageInv, OneRead, RosterTyped
<1>3. ActsOfThePage' /\ RemovesMeant'
  BY <1>1 DEF PageInv, ActsOfThePage, RemovesMeant
<1>4. \A b \in Friendships : Agrees(b)' = Agrees(b)
  BY <1>1 DEF Agrees
<1>5. Told' = Told
  BY <1>1 DEF Told
<1>6. CASE ServerLists(r)
  <2>1. PICK q : q = [r EXCEPT !.saw = {bond}]
    OBVIOUS
  <2>2. q.saw = {bond} /\ reads' = {q} /\ shown' = shown
    BY <1>2, <1>6, <2>1 DEF ServerLists, RosterTyped
  <2>3. OutgoingKnown'
    BY <1>1, <2>2 DEF PageInv, OutgoingKnown
  <2>4. bond \in Friendships /\ Agrees(bond)
    BY DEF RosterTyped, Agrees
  <2>5. Settling'
    BY <1>4, <2>2, <2>4 DEF Settling
  <2>q. QED
    BY <1>3, <2>2, <2>3, <2>5 DEF PageInv, OneRead
<1>7. CASE Listed(r)
  <2>1. reads' = {} /\ shown' \in r.saw
    BY <1>2, <1>7 DEF Listed
  <2>2. OutgoingKnown'
    BY <1>1, <2>1 DEF PageInv, OutgoingKnown
  <2>3. Told \/ \E b \in Friendships : r.saw = {b} /\ Agrees(b)
    BY <1>2, <2>1 DEF PageInv, Settling, ListAsked
  <2>4. Told' \/ Agrees(shown)'
    <3>1. CASE Told
      BY <1>5, <3>1
    <3>2. ASSUME NEW b \in Friendships, r.saw = {b}, Agrees(b)
          PROVE  Agrees(shown)'
      BY <1>1, <2>1, <3>2 DEF Agrees
    <3>q. QED
      BY <2>3, <3>1, <3>2
  <2>5. Settling'
    BY <2>1, <2>4 DEF Settling
  <2>q. QED
    BY <1>3, <2>1, <2>2, <2>5 DEF PageInv, OneRead
<1>8. CASE ListFails(r)
  BY <1>8 DEF ListFails
<1>q. QED
  BY <1>6, <1>7, <1>8

LEMMA CardReads ==
  ASSUME PageInv, ~raced', Reads, UNCHANGED <<bond, shown>>, acts' \subseteq acts,
         \A a \in acts \ acts' : a.act # "request"
  PROVE  PageInv'
<1>1. reads = {} /\ OneRead' /\ Settling' /\ \A r \in reads' : r.saw = {}
  BY AskedAgain
<1>2. ActsOfThePage' /\ RemovesMeant'
  BY DEF PageInv, ActsOfThePage, RemovesMeant
<1>3. OutgoingKnown'
  BY <1>1 DEF PageInv, OutgoingKnown
<1>q. QED
  BY <1>1, <1>2, <1>3 DEF PageInv

LEMMA PageActs ==
  ASSUME RosterTyped, PageInv, place = "page",
         NEW act \in {"request", "accept", "decline", "remove"}, NEW p \in People, Acts(act, p)
  PROVE  PageInv'
<1>1. PICK a : a = [by |-> "page", act |-> act, who |-> p, done |-> FALSE]
  OBVIOUS
<1>2. /\ a.by = "page" /\ a.act = act /\ a.who = p /\ ~a.done /\ acts' = acts \cup {a}
      /\ UNCHANGED <<bond, shown, reads, news>> /\ Allowed(act, shown[p])
      /\ \A b \in acts : ~(b.by = "page" /\ b.who = p)
  BY <1>1 DEF Acts
<1>3. \A b \in acts : b.who # p
  BY <1>2 DEF PageInv, ActsOfThePage
<1>4. ActsOfThePage'
  BY <1>2, <1>3 DEF PageInv, ActsOfThePage
<1>5. act = "remove" => bond[p] # "outgoing"
  BY <1>2, <1>3 DEF Allowed, PageInv, OutgoingKnown
<1>6. RemovesMeant'
  BY <1>2, <1>5 DEF PageInv, RemovesMeant
<1>q. QED
  BY <1>2, <1>4, <1>6, PageStays

LEMMA CardServed ==
  ASSUME RosterTyped, PageInv, NEW a \in acts, ServerActs(a)
  PROVE  PageInv'
<1>1. PICK b : b = [a EXCEPT !.done = TRUE]
  OBVIOUS
<1>2. a.by = "page" /\ ~a.done /\ a.who \in People
  BY DEF PageInv, ActsOfThePage, ServerActs, RosterTyped
<1>3. b.done /\ b.by = "page" /\ b.act = a.act /\ b.who = a.who
  BY <1>1, <1>2 DEF RosterTyped
<1>4. /\ acts' = (acts \ {a}) \cup {b} /\ UNCHANGED <<shown, reads, news>>
      /\ bond' = [bond EXCEPT ![a.who] = After(a.act, bond[a.who])]
  BY <1>1, <1>2 DEF ServerActs
<1>5. /\ bond'[a.who] = After(a.act, bond[a.who])
      /\ \A p \in People : p # a.who => bond'[p] = bond[p]
  BY <1>2, <1>4 DEF RosterTyped, Friendships
<1>6. \A c \in acts : c.who = a.who => c = a
  BY DEF PageInv, ActsOfThePage
<1>7. ActsOfThePage'
  BY <1>3, <1>4 DEF PageInv, ActsOfThePage
<1>8. a.act = "remove" => bond'[a.who] \notin {"outgoing", "friend"}
  BY <1>5 DEF After, Allowed, PageInv, RemovesMeant
<1>9. \A c \in acts : c.who \in People
  BY DEF RosterTyped
<1>10. RemovesMeant'
  BY <1>3, <1>4, <1>5, <1>6, <1>8, <1>9 DEF PageInv, RemovesMeant
<1>11. OneRead'
  BY <1>4 DEF PageInv, OneRead
<1>12. OutgoingKnown'
  <2>1. SUFFICES ASSUME NEW p \in People, bond'[p] = "outgoing"
                 PROVE  \/ \E c \in acts' : c.who = p /\ c.done /\ c.act = "request"
                        \/ shown[p] # "friend" /\ \A r \in reads : \A s \in r.saw : s[p] = "outgoing"
    BY <1>4 DEF OutgoingKnown
  <2>2. CASE p = a.who
    <3>1. a.act = "request" \/ bond[p] = "outgoing"
      BY <1>5, <2>1, <2>2 DEF After
    <3>2. CASE a.act = "request"
      BY <1>3, <1>4, <2>2, <3>2
    <3>3. CASE bond[p] = "outgoing"
      BY <1>2, <1>6, <2>2, <3>3 DEF PageInv, OutgoingKnown
    <3>q. QED
      BY <3>1, <3>2, <3>3
  <2>3. CASE p # a.who
    BY <1>2, <1>4, <1>5, <2>1, <2>3 DEF PageInv, OutgoingKnown
  <2>q. QED
    BY <2>2, <2>3
<1>13. Settling'
  <2>1. CASE a.act # "remove"
    BY <1>3, <1>4, <2>1 DEF Settling, Told
  <2>2. ASSUME Told
        PROVE  Told'
    BY <1>2, <1>4, <2>2 DEF Told
  <2>3. ASSUME a.act = "remove", NEW list, Agrees(list)
        PROVE  Agrees(list)'
    <3>1. SUFFICES ASSUME NEW p \in People
                   PROVE  \/ list[p] = bond'[p]
                          \/ /\ list[p] = "friend" /\ bond'[p] = "none"
                             /\ \E c \in acts' : c.who = p /\ c.done /\ c.act = "remove"
      BY DEF Agrees
    <3>2. CASE p = a.who
      <4>1. list[p] = bond[p]
        BY <1>2, <1>6, <2>3, <3>2 DEF Agrees
      <4>2. bond'[p] = bond[p] \/ (bond[p] = "friend" /\ bond'[p] = "none")
        BY <1>5, <2>3, <3>2 DEF After, Allowed
      <4>q. QED
        BY <1>3, <1>4, <2>3, <3>2, <4>1, <4>2
    <3>3. CASE p # a.who
      BY <1>2, <1>4, <1>5, <2>3, <3>3 DEF Agrees
    <3>q. QED
      BY <3>2, <3>3
  <2>q. QED
    BY <1>4, <2>1, <2>2, <2>3 DEF PageInv, Settling, ListAsked
<1>q. QED
  BY <1>7, <1>10, <1>11, <1>12, <1>13 DEF PageInv

LEMMA PageActed ==
  ASSUME RosterTyped, PageInv, place = "page", ~raced', NEW a \in acts, Acted(a)
  PROVE  PageInv'
<1>1. a.done /\ acts' = acts \ {a} /\ UNCHANGED <<bond, news>> /\ a.act # "request" /\ a.who \in People
  BY DEF Acted, RosterTyped
<1>2. CASE a.act # "remove"
  BY <1>1, <1>2, CardReads DEF Acted
<1>3. CASE a.act = "remove"
  <2>1. /\ shown' = [shown EXCEPT ![a.who] = IF shown[a.who] = "friend" THEN "none" ELSE shown[a.who]]
        /\ reads = {} /\ reads' = {}
    BY <1>3 DEF Acted
  <2>2. /\ shown'[a.who] = IF shown[a.who] = "friend" THEN "none" ELSE shown[a.who]
        /\ \A p \in People : p # a.who => shown'[p] = shown[p]
    BY <1>1, <2>1 DEF RosterTyped, Friendships
  <2>3. ActsOfThePage' /\ RemovesMeant' /\ OneRead'
    BY <1>1, <2>1 DEF PageInv, ActsOfThePage, RemovesMeant, OneRead
  <2>4. OutgoingKnown'
    BY <1>1, <2>1, <2>2 DEF PageInv, OutgoingKnown
  <2>5. bond[a.who] # "friend"
    BY <1>1, <1>3 DEF PageInv, RemovesMeant
  <2>6. ASSUME Told
        PROVE  Told'
    BY <1>1, <1>3, <2>6 DEF Told
  <2>7. ASSUME Agrees(shown)
        PROVE  Agrees(shown)'
    <3>1. SUFFICES ASSUME NEW p \in People
                   PROVE  \/ shown'[p] = bond[p]
                          \/ /\ shown'[p] = "friend" /\ bond[p] = "none"
                             /\ \E c \in acts' : c.who = p /\ c.done /\ c.act = "remove"
      BY <1>1 DEF Agrees
    <3>2. CASE p = a.who
      BY <2>2, <2>5, <2>7, <3>2 DEF Agrees
    <3>3. CASE p # a.who
      BY <1>1, <2>2, <2>7, <3>3 DEF Agrees
    <3>q. QED
      BY <3>2, <3>3
  <2>8. Settling'
    BY <2>1, <2>6, <2>7 DEF PageInv, Settling, ListAsked
  <2>q. QED
    BY <2>3, <2>4, <2>8 DEF PageInv
<1>q. QED
  BY <1>2, <1>3

LEMMA CardFails ==
  ASSUME PageInv, ~raced', NEW a \in acts, ActFails(a)
  PROVE  PageInv'
<1>1. ~a.done /\ acts' = acts \ {a} /\ UNCHANGED <<bond, shown, reads, news>>
  BY DEF ActFails
<1>2. ActsOfThePage' /\ RemovesMeant' /\ OneRead'
  BY <1>1 DEF PageInv, ActsOfThePage, RemovesMeant, OneRead
<1>3. OutgoingKnown'
  BY <1>1 DEF PageInv, OutgoingKnown
<1>4. Told => Told'
  BY <1>1 DEF Told
<1>5. Agrees(shown) => Agrees(shown)'
  BY <1>1 DEF Agrees
<1>6. \A b \in Friendships : Agrees(b) => Agrees(b)'
  BY <1>1 DEF Agrees
<1>7. Settling'
  BY <1>1, <1>4, <1>5, <1>6 DEF PageInv, Settling, ListAsked
<1>q. QED
  BY <1>2, <1>3, <1>7 DEF PageInv

LEMMA PageOthers ==
  ASSUME RosterTyped, PageInv, ~raced', NEW p \in People, NEW b \in Bonds, OtherActs(p, b)
  PROVE  PageInv'
<1>1. /\ bond' = [bond EXCEPT ![p] = b] /\ news' = news + 1 /\ UNCHANGED <<shown, reads, acts>>
      /\ <<bond[p], b>> \in {<<"none", "incoming">>, <<"outgoing", "friend">>}
  BY DEF OtherActs
<1>2. /\ bond'[p] = b /\ \A q \in People : q # p => bond'[q] = bond[q]
      /\ (bond[p] = "none" /\ b = "incoming") \/ (bond[p] = "outgoing" /\ b = "friend")
  BY <1>1 DEF RosterTyped, Friendships
<1>3. Settling'
  BY <1>1 DEF Settling, Told, RosterTyped
<1>4. ActsOfThePage' /\ OneRead'
  BY <1>1 DEF PageInv, ActsOfThePage, OneRead
<1>5. \A a \in acts : a.who \in People
  BY DEF RosterTyped
<1>6. RemovesMeant'
  BY <1>1, <1>2, <1>5 DEF PageInv, RemovesMeant
<1>7. OutgoingKnown'
  BY <1>1, <1>2 DEF PageInv, OutgoingKnown
<1>q. QED
  BY <1>3, <1>4, <1>6, <1>7 DEF PageInv

LEMMA PageStep ==
  ASSUME RosterTyped, PageInv, place = "page", ~raced', RosterNext
  PROVE  PageInv'
<1>1. ASSUME NEW r \in reads, ServerLists(r) \/ Listed(r) \/ ListFails(r)
      PROVE  PageInv'
  BY <1>1, PageLists
<1>2. CASE RetryRoster
  BY <1>2, CardReads DEF RetryRoster
<1>3. CASE NewsComes
  BY <1>3, CardReads DEF NewsComes
<1>4. ASSUME NEW v \in Places, Mounts(v)
      PROVE  PageInv'
  BY <1>4, PageOpens
<1>5. ASSUME NEW act \in {"request", "accept", "decline", "remove"}, NEW p \in People, Acts(act, p)
      PROVE  PageInv'
  BY <1>5, PageActs
<1>6. ASSUME NEW a \in acts, ServerActs(a) \/ Acted(a) \/ ActFails(a)
      PROVE  PageInv'
  BY <1>6, CardServed, PageActed, CardFails
<1>7. ASSUME NEW p \in People, NEW b \in Bonds, OtherActs(p, b)
      PROVE  PageInv'
  BY <1>7, PageOthers
<1>8. ASSUME friends' = friends
      PROVE  PageInv'
  <2>1. ActsOfThePage' /\ RemovesMeant'
    BY <1>8 DEF friends, PageInv, ActsOfThePage, RemovesMeant
  <2>2. UNCHANGED <<bond, shown, reads, news, acts>>
    BY <1>8 DEF friends
  <2>q. QED
    BY <2>1, <2>2, PageStays
<1>q. QED
  BY <1>1, <1>2, <1>3, <1>4, <1>5, <1>6, <1>7, <1>8
     DEF RosterNext, SheetStarts, SheetServed, SheetDone, SheetFails

\* Only a list that is mounted anew forgets that answers overlapped.
LEMMA RacesStay ==
  ASSUME RosterNext, ~raced', ~(place = "page" /\ ~raced), place' = "page"
  PROVE  \E v \in Places : Mounts(v)
<1>1. (\E v \in Places : Mounts(v)) \/ (place' = place /\ (raced => raced'))
  BY DEF RosterNext, ServerLists, Listed, ListFails, RetryRoster, NewsComes, Reads, Acts, ServerActs, Acted,
     ActFails, OtherActs, SheetStarts, SheetServed, SheetDone, SheetFails, friends
<1>q. QED
  BY <1>1

LEMMA RosterStep ==
  ASSUME RosterInv, [RosterNext]_rosterVars
  PROVE  RosterInv'
<1>1. CASE UNCHANGED rosterVars
  <2>1. RosterTyped' = RosterTyped
    BY <1>1 DEF rosterVars, RosterTyped
  <2>2. (OneRead /\ ActsOfThePage /\ RemovesMeant /\ OutgoingKnown)' = (OneRead /\ ActsOfThePage /\ RemovesMeant /\ OutgoingKnown)
    BY <1>1 DEF rosterVars, OneRead, ActsOfThePage, RemovesMeant, OutgoingKnown
  <2>3. Settling' = Settling
    BY <1>1 DEF rosterVars, Settling, Told, ListAsked, Agrees
  <2>4. place' = place /\ raced' = raced
    BY <1>1 DEF rosterVars
  <2>q. QED
    BY <2>1, <2>2, <2>3, <2>4 DEF RosterInv, PageInv
<1>2. CASE RosterNext
  <2>1. RosterTyped'
    BY <1>2, RosterTypedStep DEF RosterInv
  <2>2. ASSUME place' = "page", ~raced'
        PROVE  PageInv'
    <3>1. CASE place = "page" /\ ~raced
      BY <1>2, <2>2, <3>1, PageStep DEF RosterInv
    <3>2. CASE ~(place = "page" /\ ~raced)
      BY <1>2, <2>2, <3>2, RacesStay, PageOpens DEF RosterInv
    <3>q. QED
      BY <3>1, <3>2
  <2>q. QED
    BY <2>1, <2>2 DEF RosterInv
<1>q. QED
  BY <1>1, <1>2

-----------------------------------------------------------------------------
(* Games inside a call: the party is the call's, what is opened is its own. *)

Groups == 1 .. Len(groupRoom)
Made == 1 .. Len(games)
GameRows == [group : Nat, mine : BOOLEAN, on : BOOLEAN]

PartyTyped ==
  /\ groupRoom \in Seq(Nat) /\ games \in Seq(GameRows)
  /\ sentTo = [g \in 1 .. MaxGames |-> sentTo[g]] /\ Len(games) <= MaxGames
  /\ \A g \in Made : games[g].group \in Groups
  /\ party \in Groups \cup {0} /\ session \in Made \cup {NoGame} /\ invite \in Made \cup {NoGame}
  /\ gameList \subseteq Made /\ joinGame \in Made \cup {NoGame}

\* The party was made for the call on the screen, and so was what we are invited to.
PartyIsOurs ==
  /\ party # 0 => groupRoom[party] = room
  /\ invite # NoGame => groupRoom[games[invite].group] = room

\* What is being opened is a game of its group.
OpeningRow(o) ==
  /\ o \in [at : {"launch", "join"}, game : Nat, group : Nat] /\ o.group \in Groups
  /\ o.at = "join" => o.game \in Made /\ games[o.game].group = o.group
OpeningIs == \A o \in opening : OpeningRow(o)

\* Games are open in their own party and announced in the call it was made for.
OpenHere == session = NoGame \/ session \in strayed \/ games[session].group = party
SentHome ==
  \A g \in 1 .. MaxGames : g \notin strayed =>
    sentTo[g] \subseteq IF g \in Made THEN {groupRoom[games[g].group]} ELSE {}

PartyInv == PartyTyped /\ PartyIsOurs /\ OpeningIs /\ OpenHere /\ SentHome

LEMMA PartyStart ==
  ASSUME PartyInit
  PROVE  PartyInv
<1>1. PartyTyped
  BY PartyBounds DEF PartyInit, PartyTyped, Groups, Made, NoGame
<1>2. PartyIsOurs /\ OpeningIs /\ OpenHere /\ SentHome
  BY DEF PartyInit, PartyIsOurs, OpeningIs, OpenHere, SentHome, NoGame, Made
<1>q. QED
  BY <1>1, <1>2 DEF PartyInv

LEMMA PartyMeans ==
  ASSUME PartyInv
  PROVE  PartyOfThisCall
<1>1. \A g \in Made : g \in 1 .. MaxGames
  BY PartyBounds DEF PartyInv, PartyTyped, Made
<1>2. \A g \in 1 .. Len(games) : g \notin strayed => sentTo[g] \subseteq {groupRoom[games[g].group]}
  BY <1>1 DEF PartyInv, SentHome, Made
<1>q. QED
  BY <1>2 DEF PartyInv, PartyIsOurs, OpenHere, PartyOfThisCall

\* Steps that make no group and no game.
LEMMA NothingMade ==
  ASSUME PartyInv, UNCHANGED <<groupRoom, games>>
  PROVE  Groups' = Groups /\ Made' = Made
<1>q. QED
  BY DEF Groups, Made

\* A change of party closes what was open.
LEMMA PartyMoves ==
  ASSUME PartyInv, NEW g \in Groups \cup {0}, GroupBecomes(g)
  PROVE  /\ party' = g /\ session' \in Made \cup {NoGame} /\ gameList' \subseteq Made
         /\ session' = NoGame \/ session' \in strayed \/ games[session'].group = g
<1>q. QED
  BY DEF GroupBecomes, PartyInv, PartyTyped, OpenHere

\* The steps of the page that leave groups, games and announcements alone.
LEMMA PageMoves ==
  ASSUME PartyInv, UNCHANGED <<groupRoom, games, sentTo, room>>, strayed \subseteq strayed',
         party' \in Groups \cup {0}, session' \in Made \cup {NoGame}, gameList' \subseteq Made,
         invite' \in Made \cup {NoGame}, joinGame' \in Made \cup {NoGame},
         party' # 0 => groupRoom[party'] = room,
         invite' # NoGame => groupRoom[games[invite'].group] = room,
         session' = NoGame \/ session' \in strayed' \/ games[session'].group = party',
         OpeningIs'
  PROVE  PartyInv'
<1>1. PartyTyped'
  BY NothingMade DEF PartyInv, PartyTyped
<1>2. PartyIsOurs'
  BY DEF PartyIsOurs
<1>3. OpenHere' /\ SentHome'
  BY NothingMade DEF OpenHere, SentHome, PartyInv
<1>q. QED
  BY <1>1, <1>2, <1>3 DEF PartyInv

\* A game that is being opened stays what it is.
LEMMA OpeningStays ==
  ASSUME PartyInv, UNCHANGED <<groupRoom, games>>, opening' \subseteq opening
  PROVE  OpeningIs'
<1>1. OpeningIs /\ Groups' = Groups /\ Made' = Made
  BY NothingMade DEF PartyInv
<1>q. QED
  BY <1>1 DEF OpeningIs, OpeningRow

\* A game whose seat is asked for is one of its group.
LEMMA OpeningMore ==
  ASSUME PartyInv, UNCHANGED <<groupRoom, games>>, NEW g \in Made,
         opening' = opening \cup {[at |-> "join", game |-> g, group |-> games[g].group]}
  PROVE  OpeningIs'
<1>1. OpeningIs /\ Groups' = Groups /\ Made' = Made
  BY NothingMade DEF PartyInv
<1>2. games[g].group \in Groups
  BY DEF PartyInv, PartyTyped
<1>3. g \in Nat /\ games[g].group \in Nat
  BY <1>2 DEF Made, Groups
<1>4. OpeningRow([at |-> "join", game |-> g, group |-> games[g].group])
  BY <1>2, <1>3 DEF OpeningRow
<1>5. \A o : OpeningRow(o) <=> OpeningRow(o)'
  BY <1>1 DEF OpeningRow
<1>q. QED
  BY <1>1, <1>4, <1>5 DEF OpeningIs

\* Groups and games are only added, and a game only ends.
LEMMA RowsGrow ==
  ASSUME PartyInv, groupRoom' \in Seq(Nat), games' \in Seq(GameRows),
         Len(groupRoom') >= Len(groupRoom), Len(games') >= Len(games), Len(games') <= MaxGames,
         \A g \in Groups : groupRoom'[g] = groupRoom[g],
         \A i \in Made : games'[i].group = games[i].group,
         \A i \in Made' \ Made : games'[i].group \in Groups',
         UNCHANGED <<room, sentTo, opening>>, strayed \subseteq strayed',
         party' \in Groups \cup {0} \/ (party' \in Groups' /\ groupRoom'[party'] = room),
         party' \in Groups => groupRoom[party'] = room,
         session' \in Made \cup {NoGame}, gameList' \subseteq Made',
         invite' \in Made \cup {NoGame} \/ (invite' \in Made' /\ groupRoom'[games'[invite'].group] = room),
         invite' \in Made => groupRoom[games[invite'].group] = room,
         joinGame' \in Made \cup {NoGame},
         session' = NoGame \/ session' \in strayed' \/ games[session'].group = party'
  PROVE  PartyInv'
<1>1. Len(groupRoom) \in Nat /\ Len(groupRoom') \in Nat /\ Len(games) \in Nat /\ Len(games') \in Nat
  BY DEF PartyInv, PartyTyped
<1>2. Groups \subseteq Groups' /\ Made \subseteq Made' /\ 0 \notin Groups' /\ NoGame \notin Made'
  BY <1>1 DEF Groups, Made, NoGame
<1>3. \A i \in Made : games[i].group \in Groups
  BY DEF PartyInv, PartyTyped
<1>4. \A i \in Made' : games'[i].group \in Groups'
  BY <1>2, <1>3
<1>5. PartyTyped'
  BY <1>2, <1>4 DEF PartyInv, PartyTyped
<1>6. PartyIsOurs'
  BY <1>2, <1>3 DEF PartyIsOurs
<1>7. OpeningIs'
  BY <1>2 DEF PartyInv, OpeningIs, OpeningRow
<1>8. OpenHere' /\ SentHome'
  <2>2. OpenHere'
    BY <1>2 DEF OpenHere
  <2>3. SentHome
    BY DEF PartyInv
  <2>4. \A i \in Made : {groupRoom'[games'[i].group]} = {groupRoom[games[i].group]}
    BY <1>3
  <2>5. SentHome'
    BY <1>2, <2>3, <2>4 DEF SentHome
  <2>q. QED
    BY <2>2, <2>5
<1>q. QED
  BY <1>5, <1>6, <1>7, <1>8 DEF PartyInv

LEMMA LoadingMoves ==
  ASSUME PartyInv, NEW g \in 1 .. MaxGroups, Loaded(g) \/ LoadFails(g)
  PROVE  PartyInv'
<1>1. UNCHANGED <<groupRoom, games, sentTo, room, party, session, invite, strayed>>
  <2>1. CASE Loaded(g)
    BY <2>1 DEF Loaded
  <2>2. CASE LoadFails(g)
    BY <2>2 DEF LoadFails
  <2>q. QED
    BY <2>1, <2>2
<1>2. OpenHere
  BY DEF PartyInv
<1>3. CASE LoadFails(g)
  <2>1. UNCHANGED <<gameList, joinGame, opening>>
    BY <1>3 DEF LoadFails
  <2>q. QED
    BY <1>1, <1>2, <2>1, PageMoves, OpeningStays DEF PartyInv, PartyTyped, PartyIsOurs, OpenHere
<1>4. CASE Loaded(g)
  <2>1. PICK list \in SUBSET Made : gameList' = list /\ AutoJoin(list)
    BY <1>4 DEF Loaded, Made
  <2>2. joinGame' \in Made \cup {NoGame}
    BY <2>1 DEF AutoJoin, PartyInv, PartyTyped
  <2>3. OpeningIs'
    <3>1. CASE opening' = opening
      BY <1>1, <3>1, OpeningStays
    <3>2. CASE /\ joinGame \in list
               /\ opening' = opening \cup {[at |-> "join", game |-> joinGame, group |-> games[joinGame].group]}
      BY <1>1, <2>1, <3>2, OpeningMore
    <3>q. QED
      BY <2>1, <3>1, <3>2 DEF AutoJoin
  <2>q. QED
    BY <1>1, <1>2, <2>1, <2>2, <2>3, PageMoves DEF PartyInv, PartyTyped, PartyIsOurs, OpenHere
<1>q. QED
  BY <1>3, <1>4

\* The room changes: whatever was ours is put away.
LEMMA RoomMoves ==
  ASSUME PartyInv, NEW r, RoomChanges(r)
  PROVE  PartyInv'
<1>1. /\ UNCHANGED <<groupRoom, games, opening>> /\ room' = r /\ invite' = NoGame /\ joinGame' = NoGame
      /\ party' = 0 /\ session' = NoGame /\ gameList' \in {gameList, {}}
  BY DEF RoomChanges
<1>2. \/ UNCHANGED <<sentTo, strayed>>
      \/ /\ session \in Own /\ sentTo' = [sentTo EXCEPT ![session] = @ \cup {r}]
         /\ strayed' = strayed \cup {session}
  BY DEF RoomChanges
<1>3. sentTo' = [g \in 1 .. MaxGames |-> sentTo'[g]]
  BY <1>2 DEF PartyInv, PartyTyped
<1>4. PartyTyped'
  BY <1>1, <1>3, NothingMade DEF PartyInv, PartyTyped
<1>5. PartyIsOurs' /\ OpeningIs' /\ OpenHere'
  BY <1>1, OpeningStays DEF PartyIsOurs, OpenHere
<1>6. \A g \in 1 .. MaxGames : g \notin strayed' => g \notin strayed /\ sentTo'[g] = sentTo[g]
  BY <1>2 DEF PartyInv, PartyTyped
<1>7. SentHome'
  BY <1>1, <1>6, NothingMade DEF PartyInv, SentHome
<1>q. QED
  BY <1>4, <1>5, <1>7 DEF PartyInv

LEMMA ProvisioningMoves ==
  ASSUME PartyInv, NEW r \in 1 .. MaxCalls, Provisioned(r)
  PROVE  PartyInv'
<1>1. /\ groupRoom' = Append(groupRoom, r)
      /\ UNCHANGED <<room, invite, joinGame, sentTo, games, opening, strayed>>
  BY DEF Provisioned
<1>2. groupRoom \in Seq(Nat) /\ games \in Seq(GameRows) /\ r \in Nat
  BY PartyBounds DEF PartyInv, PartyTyped
<1>3. /\ groupRoom' \in Seq(Nat) /\ Len(groupRoom') = Len(groupRoom) + 1
      /\ \A g \in Groups : groupRoom'[g] = groupRoom[g]
      /\ groupRoom'[Len(groupRoom) + 1] = r
  BY <1>1, <1>2 DEF Groups
<1>4. Len(groupRoom) \in Nat /\ Len(games) \in Nat /\ Len(groupRoom) + 1 \in Groups'
      /\ Len(groupRoom) + 1 \notin Groups \cup {0}
  BY <1>2, <1>3 DEF Groups
<1>7. /\ games' \in Seq(GameRows) /\ Len(games') <= MaxGames /\ Len(games') >= Len(games)
      /\ Len(groupRoom') >= Len(groupRoom) /\ Made' = Made
      /\ \A i \in Made : games'[i].group = games[i].group
      /\ gameList' \subseteq Made' /\ joinGame' \in Made \cup {NoGame}
  <2>1. gameList' \in {gameList, {}}
    BY DEF Provisioned, GroupBecomes
  <2>q. QED
    BY <1>1, <1>3, <1>4, <2>1 DEF PartyInv, PartyTyped, Made
<1>5. CASE UNCHANGED <<party, session, gameList>>
  <2>1. Made' = Made /\ invite \in Made \cup {NoGame} /\ party \in Groups \cup {0}
    BY <1>1 DEF PartyInv, PartyTyped, Made
  <2>2. NoGame \notin Made /\ 0 \notin Groups
    BY DEF Made, Groups, NoGame
  <2>3. party \in Groups => groupRoom[party] = room
    BY <2>2 DEF PartyInv, PartyIsOurs
  <2>4. invite \in Made => groupRoom[games[invite].group] = room
    BY <2>2 DEF PartyInv, PartyIsOurs
  <2>5. session = NoGame \/ session \in strayed' \/ games[session].group = party
    BY <1>1 DEF PartyInv, OpenHere
  <2>q. QED
    <3>1. /\ party' \in Groups \cup {0} /\ (party' \in Groups => groupRoom[party'] = room)
          /\ invite' \in Made \cup {NoGame} /\ (invite' \in Made => groupRoom[games[invite'].group] = room)
          /\ session' = NoGame \/ session' \in strayed' \/ games[session'].group = party'
      BY <1>1, <1>5, <2>1, <2>3, <2>4, <2>5
    <3>2. session' \in Made \cup {NoGame}
      BY <1>5 DEF PartyInv, PartyTyped
    <3>q. QED
      BY <1>1, <1>3, <1>7, <2>1, <3>1, <3>2, RowsGrow
<1>6. CASE r = room /\ GroupBecomes(Len(groupRoom) + 1)
  <2>1. party' = Len(groupRoom) + 1 /\ session' = NoGame /\ gameList' = {}
    BY <1>4, <1>6 DEF GroupBecomes, PartyInv, PartyTyped
  <2>2. Made' = Made /\ invite \in Made \cup {NoGame} /\ NoGame \notin Made
    BY <1>1 DEF PartyInv, PartyTyped, Made, NoGame
  <2>3. invite \in Made => groupRoom[games[invite].group] = room
    BY <2>2 DEF PartyInv, PartyIsOurs
  <2>q. QED
    <3>1. /\ party' \in Groups' /\ groupRoom'[party'] = room /\ party' \notin Groups
          /\ invite' \in Made \cup {NoGame} /\ (invite' \in Made => groupRoom[games[invite'].group] = room)
      BY <1>1, <1>3, <1>4, <1>6, <2>1, <2>2, <2>3
    <3>2. session' = NoGame /\ session' \in Made \cup {NoGame}
      BY <2>1
    <3>q. QED
      BY <1>1, <1>3, <1>7, <2>2, <3>1, <3>2, RowsGrow
<1>q. QED
  BY <1>5, <1>6 DEF Provisioned

LEMMA InvitingMoves ==
  ASSUME PartyInv, NEW r \in 1 .. MaxCalls, OnActivityInvited(r)
  PROVE  PartyInv'
<1>1. PICK row : row = [group |-> Len(groupRoom) + 1, mine |-> FALSE, on |-> TRUE]
  OBVIOUS
<1>2. /\ groupRoom' = Append(groupRoom, r) /\ games' = Append(games, row) /\ Len(games) < MaxGames
      /\ invite' = (IF r = room THEN Len(games) + 1 ELSE invite)
      /\ UNCHANGED <<room, party, session, gameList, joinGame, sentTo, opening, strayed>>
  BY <1>1 DEF OnActivityInvited
<1>3. groupRoom \in Seq(Nat) /\ games \in Seq(GameRows) /\ r \in Nat
  BY PartyBounds DEF PartyInv, PartyTyped
<1>4. row \in GameRows /\ row.group = Len(groupRoom) + 1
  BY <1>1, <1>3 DEF GameRows
<1>5. /\ groupRoom' \in Seq(Nat) /\ Len(groupRoom') = Len(groupRoom) + 1
      /\ \A g \in Groups : groupRoom'[g] = groupRoom[g]
      /\ groupRoom'[Len(groupRoom) + 1] = r
  BY <1>2, <1>3 DEF Groups
<1>6. /\ games' \in Seq(GameRows) /\ Len(games') = Len(games) + 1
      /\ \A i \in Made : games'[i] = games[i]
      /\ games'[Len(games) + 1] = row
  BY <1>2, <1>3, <1>4 DEF Made
<1>7. /\ Len(groupRoom) \in Nat /\ Len(games) \in Nat /\ MaxGames \in Nat
      /\ Len(groupRoom) + 1 \in Groups' /\ Made' = Made \cup {Len(games) + 1}
      /\ NoGame \notin Made /\ 0 \notin Groups /\ Len(games) + 1 \notin Made
  BY <1>3, <1>5, <1>6, PartyBounds DEF Groups, Made, NoGame
<1>8. \A i \in Made' \ Made : games'[i].group \in Groups'
  BY <1>4, <1>6, <1>7
<1>9. Len(games') <= MaxGames
  BY <1>2, <1>6, <1>7
<1>10. party \in Groups \cup {0} /\ (party \in Groups => groupRoom[party] = room)
  BY <1>7 DEF PartyInv, PartyTyped, PartyIsOurs
<1>11. invite \in Made \cup {NoGame} /\ (invite \in Made => groupRoom[games[invite].group] = room)
  BY <1>7 DEF PartyInv, PartyTyped, PartyIsOurs
<1>12. session = NoGame \/ session \in strayed' \/ games[session].group = party
  BY <1>2 DEF PartyInv, OpenHere
<1>13. session \in Made \cup {NoGame}
  BY DEF PartyInv, PartyTyped
<1>14. session' = session /\ (session' = NoGame \/ session' \in strayed' \/ games[session'].group = party')
  BY <1>2, <1>12
<1>15. /\ invite' \in Made \cup {NoGame} \/ (invite' \in Made' /\ groupRoom'[games'[invite'].group] = room)
       /\ invite' \in Made => groupRoom[games[invite'].group] = room
  <2>1. CASE r = room
    BY <1>2, <1>4, <1>5, <1>6, <1>7, <2>1
  <2>2. CASE r # room
    BY <1>2, <1>11, <2>2
  <2>q. QED
    BY <2>1, <2>2
<1>16. /\ Len(groupRoom') >= Len(groupRoom) /\ Len(games') >= Len(games)
       /\ \A i \in Made : games'[i].group = games[i].group
  BY <1>5, <1>6, <1>7
<1>17. gameList' \subseteq Made' /\ joinGame' \in Made \cup {NoGame}
  BY <1>2, <1>7 DEF PartyInv, PartyTyped
<1>q. QED
  BY <1>2, <1>5, <1>6, <1>8, <1>9, <1>10, <1>13, <1>14, <1>15, <1>16, <1>17, RowsGrow

\* A game ends and its session may close.
LEMMA EndingMoves ==
  ASSUME PartyInv, games' = games \/ \E g \in Made : games' = [games EXCEPT ![g].on = FALSE],
         UNCHANGED <<groupRoom, room, party, sentTo, invite, joinGame, gameList, opening, strayed>>,
         session' \in {session, NoGame}
  PROVE  PartyInv'
<1>1. games \in Seq(GameRows)
  BY DEF PartyInv, PartyTyped
<1>2. /\ games' \in Seq(GameRows) /\ Len(games') = Len(games)
      /\ \A i \in Made : games'[i].group = games[i].group
  <2>1. CASE games' = games
    BY <1>1, <2>1
  <2>2. ASSUME NEW g \in Made, games' = [games EXCEPT ![g].on = FALSE]
        PROVE  /\ games' \in Seq(GameRows) /\ Len(games') = Len(games)
               /\ \A i \in Made : games'[i].group = games[i].group
    <3>1. \A i \in Made : games[i] \in GameRows
      BY <1>1 DEF Made
    <3>2. PICK row : row = [games[g] EXCEPT !.on = FALSE]
      OBVIOUS
    <3>3. row \in GameRows /\ row.group = games[g].group
      BY <3>1, <3>2 DEF GameRows
    <3>4. games' = [games EXCEPT ![g] = row]
      BY <2>2, <3>2
    <3>q. QED
      BY <1>1, <3>3, <3>4 DEF Made
  <2>q. QED
    BY <2>1, <2>2
<1>3. Made' = Made /\ Groups' = Groups /\ Len(games) <= MaxGames /\ Len(games) \in Nat /\ Len(groupRoom) \in Nat
  BY <1>1, <1>2 DEF Made, Groups, PartyInv, PartyTyped
<1>4. NoGame \notin Made /\ 0 \notin Groups
  BY DEF Made, Groups, NoGame
<1>5. party \in Groups \cup {0} /\ (party \in Groups => groupRoom[party] = room)
  BY <1>4 DEF PartyInv, PartyTyped, PartyIsOurs
<1>6. invite \in Made \cup {NoGame} /\ (invite \in Made => groupRoom[games[invite].group] = room)
  BY <1>4 DEF PartyInv, PartyTyped, PartyIsOurs
<1>7. session' = NoGame \/ session' \in strayed' \/ games[session'].group = party'
  BY DEF PartyInv, OpenHere
<1>8. session' \in Made \cup {NoGame}
  BY DEF PartyInv, PartyTyped
<1>9. groupRoom' \in Seq(Nat) /\ gameList' \subseteq Made' /\ joinGame' \in Made \cup {NoGame}
  BY <1>3 DEF PartyInv, PartyTyped
<1>q. QED
  BY <1>2, <1>3, <1>5, <1>6, <1>7, <1>8, <1>9, RowsGrow

LEMMA OpensMoves ==
  ASSUME PartyInv, NEW o \in opening, SessionOpens(o)
  PROVE  PartyInv'
<1>1. PICK g : g = o.game
  OBVIOUS
<1>2. /\ g \in Made /\ games[g].group = o.group /\ o.group \in Groups
  BY <1>1 DEF SessionOpens, PartyInv, OpeningIs, OpeningRow
<1>3. /\ UNCHANGED <<groupRoom, games, room, party, invite, joinGame, gameList>>
      /\ session' = g /\ opening' \subseteq opening /\ Announces(g)
      /\ strayed' = IF o.group = party THEN strayed ELSE strayed \cup {g}
  BY <1>1 DEF SessionOpens
<1>4. OpeningIs'
  BY <1>3, OpeningStays
<1>5. sentTo' = sentTo \/ sentTo' = [sentTo EXCEPT ![g] = sentTo[g] \cup {room}]
  BY <1>3 DEF Announces
<1>6. g \in 1 .. MaxGames
  BY <1>2, PartyBounds DEF PartyInv, PartyTyped, Made
<1>7. sentTo' = [i \in 1 .. MaxGames |-> sentTo'[i]]
  BY <1>5, <1>6 DEF PartyInv, PartyTyped
<1>8. PartyTyped'
  BY <1>2, <1>3, <1>7, NothingMade DEF PartyInv, PartyTyped
<1>9. PartyIsOurs'
  BY <1>3 DEF PartyInv, PartyIsOurs
<1>10. OpenHere'
  BY <1>2, <1>3 DEF OpenHere
<1>11. SentHome'
  <2>1. 0 \notin Groups
    BY DEF Groups
  <2>2. o.group = party => groupRoom[games[g].group] = room
    BY <1>2, <2>1 DEF PartyInv, PartyIsOurs
  <2>3. \A i \in 1 .. MaxGames : sentTo'[i] = sentTo[i] \/ (i = g /\ sentTo'[i] = sentTo[i] \cup {room})
    BY <1>5, <1>6 DEF PartyInv, PartyTyped
  <2>4. ASSUME NEW i \in 1 .. MaxGames, i \notin strayed'
        PROVE  sentTo'[i] \subseteq IF i \in Made THEN {groupRoom[games[i].group]} ELSE {}
    <3>1. i \notin strayed
      BY <1>3, <2>4
    <3>2. sentTo[i] \subseteq IF i \in Made THEN {groupRoom[games[i].group]} ELSE {}
      BY <3>1 DEF PartyInv, SentHome
    <3>3. i = g => o.group = party
      BY <1>3, <2>4
    <3>q. QED
      BY <1>2, <2>2, <2>3, <3>2, <3>3
  <2>q. QED
    BY <1>3, <2>4, NothingMade DEF SentHome
<1>q. QED
  BY <1>4, <1>8, <1>9, <1>10, <1>11 DEF PartyInv

LEMMA LaunchedMoves ==
  ASSUME PartyInv, NEW o \in opening, Launched(o)
  PROVE  PartyInv'
<1>1. PICK row : row = [group |-> o.group, mine |-> TRUE, on |-> TRUE]
  OBVIOUS
<1>2. PICK g : g = Len(games) + 1
  OBVIOUS
<1>3. PICK q : q = [at |-> "join", game |-> g, group |-> o.group]
  OBVIOUS
<1>4. /\ games' = Append(games, row) /\ Len(games) < MaxGames
      /\ gameList' = gameList \cup {g} /\ opening' = (opening \ {o}) \cup {q}
      /\ UNCHANGED <<groupRoom, room, party, session, invite, joinGame, sentTo, strayed>>
  BY <1>1, <1>2, <1>3 DEF Launched
<1>5. games \in Seq(GameRows) /\ groupRoom \in Seq(Nat) /\ o.group \in Groups /\ o.group \in Nat
  BY DEF PartyInv, PartyTyped, OpeningIs, OpeningRow, Groups
<1>6. row \in GameRows /\ row.group = o.group
  BY <1>1, <1>5 DEF GameRows
<1>7. /\ games' \in Seq(GameRows) /\ Len(games') = Len(games) + 1
      /\ \A i \in Made : games'[i] = games[i]
      /\ games'[g] = row
  BY <1>2, <1>4, <1>5, <1>6 DEF Made
<1>8. /\ Made' = Made \cup {g} /\ g \notin Made /\ Groups' = Groups /\ g \in Nat /\ Len(games') <= MaxGames
      /\ g # NoGame
  BY <1>2, <1>4, <1>5, <1>7, PartyBounds DEF Made, Groups, NoGame
<1>9. /\ q \in [at : {"launch", "join"}, game : Nat, group : Nat]
      /\ q.at = "join" /\ q.game = g /\ q.group = o.group
  BY <1>3, <1>5, <1>8
<1>10. OpeningIs'
  <2>1. OpeningRow(q)'
    BY <1>5, <1>6, <1>7, <1>8, <1>9 DEF OpeningRow
  <2>2. ASSUME NEW d \in opening PROVE OpeningRow(d)'
    <3>1. OpeningRow(d)
      BY DEF PartyInv, OpeningIs
    <3>q. QED
      BY <1>7, <1>8, <3>1 DEF OpeningRow
  <2>q. QED
    BY <1>4, <2>1, <2>2 DEF OpeningIs
<1>11. \A i \in Made : games[i].group \in Groups
  BY DEF PartyInv, PartyTyped
<1>12. PartyTyped'
  BY <1>4, <1>5, <1>6, <1>7, <1>8, <1>11 DEF PartyInv, PartyTyped
<1>13. PartyIsOurs'
  BY <1>4, <1>7, <1>8 DEF PartyInv, PartyTyped, PartyIsOurs
<1>14. OpenHere'
  BY <1>4, <1>7 DEF PartyInv, PartyTyped, OpenHere
<1>15. SentHome'
  <2>1. \A i \in Made : {groupRoom'[games'[i].group]} = {groupRoom[games[i].group]}
    BY <1>4, <1>7
  <2>q. QED
    BY <1>4, <1>8, <2>1 DEF PartyInv, SentHome
<1>q. QED
  BY <1>10, <1>12, <1>13, <1>14, <1>15 DEF PartyInv

LEMMA PartyStep ==
  ASSUME PartyInv, [PartyNext]_partyVars
  PROVE  PartyInv'
<1>p. /\ party \in Groups \cup {0} /\ session \in Made \cup {NoGame} /\ gameList \subseteq Made
      /\ invite \in Made \cup {NoGame} /\ joinGame \in Made \cup {NoGame}
      /\ party # 0 => groupRoom[party] = room
      /\ invite # NoGame => groupRoom[games[invite].group] = room
      /\ session = NoGame \/ session \in strayed \/ games[session].group = party
  BY DEF PartyInv, PartyTyped, PartyIsOurs, OpenHere
<1>0. CASE UNCHANGED <<room, party, invite, joinGame, sentTo, groupRoom, games, gameList, session, opening, strayed>>
  BY <1>0, <1>p, PageMoves, OpeningStays
<1>1. CASE CallStarts
  <2>1. PICK r : r = calls + 1
    OBVIOUS
  <2>2. RoomChanges(r)
    BY <1>1, <2>1 DEF CallStarts
  <2>q. QED
    BY <2>2, RoomMoves
<1>2. CASE CallEnds
  BY <1>2, RoomMoves DEF CallEnds
<1>3. CASE OpenLauncher \/ CloseLauncher \/ RetryList \/ \E r \in 1 .. MaxCalls : ProvisionFails(r)
  BY <1>0, <1>3 DEF OpenLauncher, CloseLauncher, RetryList, ProvisionFails
<1>4. ASSUME NEW r \in 1 .. MaxCalls, Provisioned(r) \/ OnActivityInvited(r)
      PROVE  PartyInv'
  BY <1>4, ProvisioningMoves, InvitingMoves
<1>5. ASSUME NEW g \in 1 .. MaxGroups, Loaded(g) \/ LoadFails(g)
      PROVE  PartyInv'
  BY <1>5, LoadingMoves
<1>6. CASE Launch
  <2>1. /\ UNCHANGED <<room, party, invite, joinGame, sentTo, groupRoom, games, gameList, session, strayed>>
        /\ party # 0 /\ opening' = opening \cup {[at |-> "launch", game |-> NoGame, group |-> party]}
    BY <1>6 DEF Launch
  <2>2. party \in Nat /\ party \in Groups
    BY <1>p, <2>1 DEF Groups
  <2>3. PICK q : q = [at |-> "launch", game |-> NoGame, group |-> party]
    OBVIOUS
  <2>4. OpeningRow(q)' /\ \A o : OpeningRow(o) => OpeningRow(o)'
    BY <2>1, <2>2, <2>3, NothingMade DEF OpeningRow, NoGame
  <2>5. OpeningIs'
    BY <2>1, <2>3, <2>4 DEF PartyInv, OpeningIs
  <2>q. QED
    BY <1>p, <2>1, <2>5, PageMoves
<1>7. ASSUME NEW g \in 1 .. MaxGames, JoinListed(g)
      PROVE  PartyInv'
  <2>1. /\ UNCHANGED <<room, party, invite, joinGame, sentTo, groupRoom, games, gameList, session, strayed>>
        /\ g \in gameList
        /\ opening' = opening \cup {[at |-> "join", game |-> g, group |-> games[g].group]}
    BY <1>7 DEF JoinListed
  <2>2. g \in Made
    BY <1>p, <2>1
  <2>3. OpeningIs'
    BY <2>1, <2>2, OpeningMore
  <2>q. QED
    BY <1>p, <2>1, <2>3, PageMoves
<1>8. ASSUME NEW o \in opening, Launched(o) \/ SessionOpens(o)
      PROVE  PartyInv'
  BY <1>8, LaunchedMoves, OpensMoves
<1>9. ASSUME NEW o \in opening, OpeningFails(o)
      PROVE  PartyInv'
  <2>1. /\ UNCHANGED <<room, party, invite, joinGame, sentTo, groupRoom, games, gameList, session, strayed>>
        /\ opening' = opening \ {o}
    BY <1>9 DEF OpeningFails
  <2>q. QED
    BY <1>p, <2>1, PageMoves, OpeningStays
<1>10. CASE EndSession
  BY <1>0, <1>10 DEF EndSession
<1>11. CASE CloseSession \/ LeaveSession
  <2>1. /\ UNCHANGED <<room, party, invite, joinGame, sentTo, groupRoom, games, gameList, opening, strayed>>
        /\ session' = NoGame
    BY <1>11 DEF CloseSession, LeaveSession
  <2>q. QED
    BY <1>p, <2>1, PageMoves, OpeningStays
<1>12. ASSUME NEW p \in parting, Parted(p)
       PROVE  PartyInv'
  <2>1. games' = games \/ \E g \in Made : games' = [games EXCEPT ![g].on = FALSE]
    BY <1>12 DEF Parted, Own, Made
  <2>2. /\ UNCHANGED <<groupRoom, room, party, sentTo, invite, joinGame, gameList, opening, strayed>>
        /\ session' \in {session, NoGame}
    BY <1>12 DEF Parted
  <2>q. QED
    BY <2>1, <2>2, EndingMoves
<1>13. ASSUME NEW g \in 1 .. MaxGames, OnActivityEnded(g)
       PROVE  PartyInv'
  BY <1>13, EndingMoves DEF OnActivityEnded, Made
<1>14. CASE AcceptInvite
  <2>1. PICK g : g = games[invite].group
    OBVIOUS
  <2>2. /\ UNCHANGED <<room, sentTo, groupRoom, games, opening, strayed>> /\ invite # NoGame
        /\ invite' = NoGame /\ joinGame' = invite /\ GroupBecomes(g)
    BY <1>14, <2>1 DEF AcceptInvite
  <2>3. g \in Groups /\ groupRoom[g] = room
    BY <1>p, <2>1, <2>2 DEF PartyInv, PartyTyped
  <2>4. /\ party' = g /\ session' \in Made \cup {NoGame} /\ gameList' \subseteq Made
        /\ session' = NoGame \/ session' \in strayed \/ games[session'].group = g
    BY <2>2, <2>3, PartyMoves DEF PartyInv
  <2>q. QED
    BY <1>p, <2>2, <2>3, <2>4, PageMoves, OpeningStays
<1>15. CASE DeclineInvite
  <2>1. /\ UNCHANGED <<room, party, joinGame, sentTo, groupRoom, games, gameList, session, opening, strayed>>
        /\ invite' = NoGame
    BY <1>15 DEF DeclineInvite
  <2>q. QED
    BY <1>p, <2>1, PageMoves, OpeningStays
<1>16. CASE UNCHANGED partyVars
  BY <1>0, <1>16 DEF partyVars
<1>q. QED
  BY <1>1, <1>2, <1>3, <1>4, <1>5, <1>6, <1>7, <1>8, <1>9, <1>10, <1>11, <1>12, <1>13, <1>14, <1>15, <1>16 DEF PartyNext

-----------------------------------------------------------------------------
(* The game of two boards.  Either they are the same, or one player is a   *)
(* move behind, or one still has the end of the last game before it while  *)
(* the other has begun the next; everything else under way is void.        *)

Updates == [by : Player, what : Cells \cup {9}]
Boards == [Cells -> {"-", "X", "O"}]
GameTyped == board \in [Player -> Boards] /\ relayed \in [Player -> Seq(Updates)]

Rival(p) == IF p = "ann" THEN "bob" ELSE "ann"
Marks(b, m) == Cardinality({c \in Cells : b[c] = m})

\* X begins, then they take turns.
Balanced(b) == Marks(b, "X") = Marks(b, "O") \/ Marks(b, "X") = Marks(b, "O") + 1

\* The game has hardly begun: the marks p has seen of the other.
Young(p, b) == IF p = "ann" THEN Marks(b, "O") = 0 ELSE Marks(b, "X") <= 1

\* A move of the other one; own moves are on the board already.
Foreign(p, u) == u.by # p /\ u.what # 9
Moved(p, b, u) == ApplyMove(b, u.what, MarkOf(Rival(p)))

\* A reset under way to p comes to a game that has hardly begun, and is void.
Calm(p, b, s) ==
  \A j \in DOMAIN s : s[j].what = 9 =>
    Young(p, b) /\ \A i \in 1 .. j - 1 : Foreign(p, s[i]) => Young(p, Moved(p, b, s[i]))

\* The only move under way to p, among those at the indices in js.
Only(p, s, i, js) == i \in js /\ Foreign(p, s[i]) /\ \A j \in js : Foreign(p, s[j]) => j = i
NoMove(p, s, js) == \A j \in js : ~Foreign(p, s[j])
Due(p, b, u) == Legal(b, u.what) /\ TurnOf(b) = MarkOf(Rival(p))

\* With board b and updates s under way p has all that counts, ...
Fine(p, b, s) == NoMove(p, s, DOMAIN s) /\ Calm(p, b, s)

\* ... or one move is missing to the board o of the other one, ...
Behind(p, b, s, o) ==
  /\ Calm(p, b, s)
  /\ \E i \in DOMAIN s : Only(p, s, i, DOMAIN s) /\ Due(p, b, s[i]) /\ o = Moved(p, b, s[i])

\* ... or the last game ends before the reset at k, and o has the begin of the next.
LastEnds(p, b, s, k) ==
  \/ WinnerOf(b) # "none" /\ NoMove(p, s, 1 .. k - 1)
  \/ \E i \in 1 .. k - 1 :
       Only(p, s, i, 1 .. k - 1) /\ Due(p, b, s[i]) /\ WinnerOf(Moved(p, b, s[i])) # "none"
NextBegins(p, s, k, o) ==
  \/ o = Empty /\ NoMove(p, s, k + 1 .. Len(s))
  \/ /\ p = "bob"
     /\ \E i \in k + 1 .. Len(s) : Only(p, s, i, k + 1 .. Len(s)) /\ o = Moved(p, Empty, s[i])
Outdated(p, b, s, o) ==
  \E k \in DOMAIN s : /\ s[k].what = 9 /\ \A j \in DOMAIN s : s[j].what = 9 => j = k
                      /\ LastEnds(p, b, s, k) /\ NextBegins(p, s, k, o)

FineHere(p) == Fine(p, board[p], relayed[p])
GameOn ==
  \/ board["ann"] = board["bob"] /\ FineHere("ann") /\ FineHere("bob")
  \/ \E p \in Player : /\ FineHere(Rival(p))
                       /\ \/ Behind(p, board[p], relayed[p], board[Rival(p)])
                          \/ Outdated(p, board[p], relayed[p], board[Rival(p)])
\* Until the second player comes, nothing has been done that it will not see.
Awaited == seated # Player => board["bob"] = Empty /\ relayed["bob"] = << >>
GameInv ==
  GameTyped /\ (~missed => GameOn /\ Awaited /\ \A p \in Player : Balanced(board[p]))

LEMMA GameMeans ==
  ASSUME GameInv
  PROVE  BoardsConverge
<1>1. SUFFICES ASSUME ~missed, \A p \in Player : relayed[p] = <<>>
               PROVE  board["ann"] = board["bob"]
  BY DEF BoardsConverge, Player
<1>2. \A p \in Player : DOMAIN relayed[p] = {}
  BY <1>1
<1>3. \A p \in Player : \A b, o : ~Behind(p, b, relayed[p], o) /\ ~Outdated(p, b, relayed[p], o)
  BY <1>2 DEF Behind, Outdated
<1>q. QED
  BY <1>1, <1>3 DEF GameInv, GameOn

\* Boards.
LEMMA NineCells == IsFiniteSet(Cells) /\ Cardinality(Cells) = 9
<1>1. PICK a \in Int, z \in Int : a = 0 /\ z = 8
  OBVIOUS
<1>2. IsFiniteSet(a .. z) /\ Cardinality(a .. z) = IF a > z THEN 0 ELSE z - a + 1
  BY FS_Interval
<1>3. a .. z = Cells
  BY <1>1 DEF Cells
<1>q. QED
  BY <1>1, <1>2, <1>3

LEMMA MarksCount == \A b \in Boards, m \in {"X", "O"} :
  IsFiniteSet({c \in Cells : b[c] = m}) /\ Marks(b, m) \in Nat
<1>2. \A b \in Boards, m \in {"X", "O"} : IsFiniteSet({c \in Cells : b[c] = m})
  BY NineCells, FS_Subset
<1>q. QED
  BY <1>2, FS_CardinalityType DEF Marks

LEMMA EmptyBoard ==
  /\ Empty \in Boards /\ Marks(Empty, "X") = 0 /\ Marks(Empty, "O") = 0 /\ Balanced(Empty)
  /\ TurnOf(Empty) = "X" /\ \A p \in Player : Young(p, Empty)
<1>1. Empty \in Boards /\ {c \in Cells : Empty[c] = "X"} = {} /\ {c \in Cells : Empty[c] = "O"} = {}
  BY DEF Empty, Boards
<1>2. Marks(Empty, "X") = 0 /\ Marks(Empty, "O") = 0
  BY <1>1, FS_EmptySet DEF Marks
<1>3. TurnOf(Empty) = "X"
  BY <1>2 DEF TurnOf, Marks
<1>q. QED
  BY <1>1, <1>2, <1>3 DEF Balanced, Young

LEMMA MoveMarks ==
  ASSUME NEW b \in Boards, NEW c \in Cells, b[c] = "-", NEW m \in {"X", "O"}
  PROVE  LET d == ApplyMove(b, c, m) IN
         /\ d \in Boards /\ d[c] = m /\ \A e \in Cells \ {c} : d[e] = b[e]
         /\ Marks(d, m) = Marks(b, m) + 1
         /\ \A n \in {"X", "O"} \ {m} : Marks(d, n) = Marks(b, n)
<1>1. PICK d : d = ApplyMove(b, c, m)
  OBVIOUS
<1>2. d \in Boards /\ d[c] = m /\ \A e \in Cells \ {c} : d[e] = b[e]
  BY <1>1 DEF ApplyMove, Boards
<1>3. {e \in Cells : d[e] = m} = {e \in Cells : b[e] = m} \cup {c}
  BY <1>2
<1>4. c \notin {e \in Cells : b[e] = m}
  OBVIOUS
<1>5. Marks(d, m) = Marks(b, m) + 1
  <2>1. PICK S : S = {e \in Cells : b[e] = m}
    OBVIOUS
  <2>2. IsFiniteSet(S) /\ c \notin S /\ Cardinality(S) = Marks(b, m) /\ Cardinality(S \cup {c}) = Marks(d, m)
    BY <1>3, <1>4, <2>1, MarksCount DEF Marks
  <2>3. Cardinality(S \cup {c}) = Cardinality(S) + 1
    BY <2>2, FS_AddElement
  <2>q. QED
    BY <2>2, <2>3
<1>6. ASSUME NEW n \in {"X", "O"} \ {m}
      PROVE  Marks(d, n) = Marks(b, n)
  <2>1. {e \in Cells : d[e] = n} = {e \in Cells : b[e] = n}
    BY <1>2, <1>6
  <2>q. QED
    BY <2>1 DEF Marks
<1>q. QED
  BY <1>1, <1>2, <1>5, <1>6

LEMMA TurnIs ==
  ASSUME NEW b \in Boards, Balanced(b)
  PROVE  TurnOf(b) = IF Marks(b, "X") = Marks(b, "O") THEN "X" ELSE "O"
<1>1. TurnOf(b) = IF Marks(b, "X") <= Marks(b, "O") THEN "X" ELSE "O"
  BY DEF TurnOf, Marks
<1>2. Marks(b, "X") \in Nat /\ Marks(b, "O") \in Nat
  BY MarksCount
<1>q. QED
  BY <1>1, <1>2 DEF Balanced

LEMMA TurnPasses ==
  ASSUME NEW p \in Player, NEW b \in Boards, Balanced(b), NEW c \in Cells, b[c] = "-", TurnOf(b) = MarkOf(p)
  PROVE  LET d == ApplyMove(b, c, MarkOf(p)) IN
         d \in Boards /\ Balanced(d) /\ TurnOf(d) = MarkOf(Rival(p))
<1>1. PICK d : d = ApplyMove(b, c, MarkOf(p))
  OBVIOUS
<1>2. PICK x, o : x = Marks(b, "X") /\ o = Marks(b, "O")
  OBVIOUS
<1>3. x \in Nat /\ o \in Nat /\ TurnOf(b) = (IF x = o THEN "X" ELSE "O") /\ (x = o \/ x = o + 1)
  BY <1>2, TurnIs, MarksCount DEF Balanced
<1>4. CASE p = "ann"
  <2>1. d \in Boards /\ Marks(d, "X") = x + 1 /\ Marks(d, "O") = o /\ x = o
    BY <1>1, <1>2, <1>3, <1>4, MoveMarks DEF MarkOf
  <2>2. Balanced(d) /\ Marks(d, "X") # Marks(d, "O")
    BY <1>3, <2>1 DEF Balanced
  <2>q. QED
    BY <1>1, <1>4, <2>1, <2>2, TurnIs DEF MarkOf, Rival
<1>5. CASE p = "bob"
  <2>1. d \in Boards /\ Marks(d, "O") = o + 1 /\ Marks(d, "X") = x /\ x = o + 1
    BY <1>1, <1>2, <1>3, <1>5, MoveMarks DEF MarkOf
  <2>2. Balanced(d) /\ Marks(d, "X") = Marks(d, "O")
    BY <1>3, <2>1 DEF Balanced
  <2>q. QED
    BY <1>1, <1>5, <2>1, <2>2, TurnIs DEF MarkOf, Rival
<1>q. QED
  BY <1>4, <1>5 DEF Player

\* A game with two marks of each at most is not over.
LEMMA Triples ==
  ASSUME NEW x, NEW y, NEW z, x # y, y # z, x # z
  PROVE  IsFiniteSet({x, y, z}) /\ Cardinality({x, y, z}) = 3
<1>1. IsFiniteSet({x}) /\ Cardinality({x}) = 1
  BY FS_Singleton
<1>2. IsFiniteSet({x} \cup {y}) /\ Cardinality({x} \cup {y}) = 2
  BY <1>1, FS_AddElement
<1>3. IsFiniteSet({x} \cup {y} \cup {z}) /\ Cardinality({x} \cup {y} \cup {z}) = 3
  BY <1>2, FS_AddElement
<1>4. {x, y, z} = {x} \cup {y} \cup {z}
  OBVIOUS
<1>q. QED
  BY <1>3, <1>4

LEMMA LinesOfThree == \A l \in Lines : l \subseteq Cells /\ Cardinality(l) = 3
<1>1. \A l \in Lines : \E x, y, z \in Cells : x # y /\ y # z /\ x # z /\ l = {x, y, z}
  BY DEF Lines, Cells
<1>2. SUFFICES ASSUME NEW l \in Lines
               PROVE  l \subseteq Cells /\ Cardinality(l) = 3
  OBVIOUS
<1>3. PICK x \in Cells, y \in Cells, z \in Cells : x # y /\ y # z /\ x # z /\ l = {x, y, z}
  BY <1>1
<1>4. Cardinality({x, y, z}) = 3
  BY <1>3, Triples
<1>q. QED
  BY <1>3, <1>4

LEMMA YoungGameOpen ==
  ASSUME NEW b \in Boards, Marks(b, "X") <= 2, Marks(b, "O") <= 2
  PROVE  WinnerOf(b) = "none"
<1>1. ASSUME NEW m \in {"X", "O"}, NEW l \in Lines, \A c \in l : b[c] = m
      PROVE  FALSE
  <2>1. l \subseteq {c \in Cells : b[c] = m}
    BY <1>1, LinesOfThree
  <2>2. Cardinality(l) <= Marks(b, m)
    BY <1>1, <2>1, MarksCount, FS_Subset DEF Marks
  <2>3. Marks(b, m) \in Nat /\ Marks(b, m) <= 2 /\ Cardinality(l) = 3
    BY <1>1, MarksCount, LinesOfThree
  <2>q. QED
    BY <2>2, <2>3
<1>2. ASSUME \A c \in Cells : b[c] # "-"
      PROVE  FALSE
  <2>1. PICK X, O : X = {c \in Cells : b[c] = "X"} /\ O = {c \in Cells : b[c] = "O"}
    OBVIOUS
  <2>2. Cells = X \cup O
    BY <1>2, <2>1 DEF Boards
  <2>3. X \cap O = {} /\ IsFiniteSet(X) /\ IsFiniteSet(O)
    BY <2>1, MarksCount
  <2>4. Cardinality(X \cup O) = Cardinality(X) + Cardinality(O) - Cardinality(X \cap O)
    BY <2>3, FS_Union
  <2>5. Cardinality(X \cap O) = 0 /\ Cardinality(Cells) = 9
    BY <2>3, FS_EmptySet, NineCells
  <2>6. Cardinality(X) = Marks(b, "X") /\ Cardinality(O) = Marks(b, "O")
    BY <2>1 DEF Marks
  <2>7. Marks(b, "X") \in Nat /\ Marks(b, "O") \in Nat
    BY MarksCount
  <2>q. QED
    BY <2>2, <2>4, <2>5, <2>6, <2>7
<1>q. QED
  BY <1>1, <1>2 DEF WinnerOf

LEMMA YoungIsOpen ==
  ASSUME NEW p \in Player, NEW b \in Boards, Balanced(b), Young(p, b)
  PROVE  /\ WinnerOf(b) = "none"
         /\ \A c \in Cells : b[c] = "-" => WinnerOf(ApplyMove(b, c, MarkOf(Rival(p)))) = "none"
<1>1. PICK x, o : x = Marks(b, "X") /\ o = Marks(b, "O")
  OBVIOUS
<1>2. x \in Nat /\ o \in Nat /\ (x = o \/ x = o + 1)
  BY <1>1, MarksCount DEF Balanced
<1>3. x <= 1 /\ o <= 1
  BY <1>1, <1>2 DEF Young, Player
<1>4. WinnerOf(b) = "none"
  BY <1>1, <1>2, <1>3, YoungGameOpen
<1>5. ASSUME NEW c \in Cells, b[c] = "-"
      PROVE  WinnerOf(ApplyMove(b, c, MarkOf(Rival(p)))) = "none"
  <2>1. PICK m \in {"X", "O"} : m = MarkOf(Rival(p))
    BY DEF MarkOf
  <2>2. PICK d : d = ApplyMove(b, c, m)
    OBVIOUS
  <2>3. /\ d \in Boards /\ Marks(d, m) = Marks(b, m) + 1
        /\ \A n \in {"X", "O"} \ {m} : Marks(d, n) = Marks(b, n)
    BY <1>5, <2>2, MoveMarks
  <2>4. Marks(d, "X") <= 2 /\ Marks(d, "O") <= 2
    BY <1>1, <1>2, <1>3, <2>1, <2>3
  <2>q. QED
    BY <2>1, <2>2, <2>3, <2>4, YoungGameOpen
<1>q. QED
  BY <1>4, <1>5

\* A first move on an empty board.
LEMMA FirstMove ==
  ASSUME NEW c \in Cells
  PROVE  LET d == ApplyMove(Empty, c, "X") IN
         /\ d \in Boards /\ Balanced(d) /\ TurnOf(d) = "O" /\ Young("ann", d) /\ Young("bob", d)
         /\ WinnerOf(d) = "none" /\ WinnerOf(Empty) = "none" /\ Legal(Empty, c)
<1>1. Empty[c] = "-"
  BY DEF Empty
<1>2. PICK d : d = ApplyMove(Empty, c, "X")
  OBVIOUS
<1>3. d \in Boards /\ Marks(d, "X") = 1 /\ Marks(d, "O") = 0
  BY <1>1, <1>2, EmptyBoard, MoveMarks
<1>4. Balanced(d) /\ Young("ann", d) /\ Young("bob", d) /\ TurnOf(d) = "O"
  BY <1>3, TurnIs DEF Balanced, Young
<1>5. WinnerOf(d) = "none" /\ WinnerOf(Empty) = "none"
  BY <1>3, <1>4, EmptyBoard, YoungIsOpen DEF Player
<1>q. QED
  BY <1>1, <1>2, <1>3, <1>4, <1>5 DEF Legal

\* What is on its way.
LEMMA Shifted ==
  ASSUME NEW s \in Seq(Updates), s # <<>>
  PROVE  /\ Tail(s) \in Seq(Updates) /\ Len(s) \in Nat /\ Len(Tail(s)) = Len(s) - 1 /\ DOMAIN s = 1 .. Len(s)
         /\ DOMAIN Tail(s) = 1 .. Len(s) - 1 /\ 1 \in DOMAIN s /\ s[1] \in Updates /\ Head(s) = s[1]
         /\ \A i \in DOMAIN Tail(s) : i + 1 \in DOMAIN s /\ Tail(s)[i] = s[i + 1]
<1>q. QED
  OBVIOUS

LEMMA Appended ==
  ASSUME NEW s \in Seq(Updates), NEW u \in Updates
  PROVE  /\ Append(s, u) \in Seq(Updates) /\ Len(s) \in Nat /\ Len(Append(s, u)) = Len(s) + 1
         /\ DOMAIN s = 1 .. Len(s) /\ DOMAIN Append(s, u) = 1 .. Len(s) + 1
         /\ Append(s, u)[Len(s) + 1] = u /\ \A i \in DOMAIN s : Append(s, u)[i] = s[i]
<1>q. QED
  OBVIOUS

\* What p makes of an update (Receive).
Read(p, b, u) ==
  IF u.what = 9 THEN IF WinnerOf(b) # "none" THEN Empty ELSE b
  ELSE IF u.by # p /\ Legal(b, u.what) THEN ApplyMove(b, u.what, MarkOf(u.by)) ELSE b

LEMMA ReadIs ==
  ASSUME NEW p \in Player, NEW b, NEW u \in Updates
  PROVE  /\ u.what = 9 /\ WinnerOf(b) # "none" => Read(p, b, u) = Empty
         /\ u.what = 9 /\ WinnerOf(b) = "none" => Read(p, b, u) = b
         /\ ~Foreign(p, u) /\ u.what # 9 => Read(p, b, u) = b
         /\ Foreign(p, u) /\ Due(p, b, u) => Read(p, b, u) = Moved(p, b, u)
<1>1. u.by # p => u.by = Rival(p)
  BY DEF Updates, Player, Rival
<1>q. QED
  BY <1>1 DEF Read, Foreign, Due, Moved

LEMMA CalmReads ==
  ASSUME NEW p, NEW b, NEW s \in Seq(Updates), s # <<>>, Calm(p, b, s)
  PROVE  Calm(p, b, Tail(s))
<1>1. SUFFICES ASSUME NEW j \in DOMAIN Tail(s), Tail(s)[j].what = 9
               PROVE  /\ Young(p, b)
                      /\ \A i \in 1 .. j - 1 : Foreign(p, Tail(s)[i]) => Young(p, Moved(p, b, Tail(s)[i]))
  BY DEF Calm
<1>2. j + 1 \in DOMAIN s /\ s[j + 1].what = 9 /\ j \in Nat
  BY <1>1, Shifted
<1>3. \A i \in 1 .. j - 1 : i + 1 \in 1 .. j /\ Tail(s)[i] = s[i + 1]
  BY <1>1, Shifted
<1>4. Young(p, b) /\ \A i \in 1 .. (j + 1) - 1 : Foreign(p, s[i]) => Young(p, Moved(p, b, s[i]))
  BY <1>2 DEF Calm
<1>q. QED
  BY <1>2, <1>3, <1>4

LEMMA NoneReads ==
  ASSUME NEW p, NEW s \in Seq(Updates), s # <<>>, NoMove(p, s, DOMAIN s)
  PROVE  NoMove(p, Tail(s), DOMAIN Tail(s))
<1>q. QED
  BY Shifted DEF NoMove

LEMMA FineReads ==
  ASSUME NEW p \in Player, NEW b \in Boards, Balanced(b), NEW s \in Seq(Updates), s # <<>>, Fine(p, b, s)
  PROVE  Read(p, b, Head(s)) = b /\ Fine(p, b, Tail(s))
<1>1. Fine(p, b, Tail(s))
  BY CalmReads, NoneReads DEF Fine
<1>2. 1 \in DOMAIN s /\ s[1] \in Updates /\ Head(s) = s[1] /\ ~Foreign(p, s[1])
  BY Shifted DEF Fine, NoMove
<1>3. s[1].what = 9 => WinnerOf(b) = "none"
  BY <1>2, YoungIsOpen DEF Fine, Calm
<1>q. QED
  BY <1>1, <1>2, <1>3, ReadIs

\* A quiet queue with a reset in it is calm if the board is young.
LEMMA QuietIsCalm ==
  ASSUME NEW p, NEW b, NEW s \in Seq(Updates), NoMove(p, s, DOMAIN s),
         \A j \in DOMAIN s : s[j].what = 9 => Young(p, b)
  PROVE  Fine(p, b, s)
<1>1. \A j \in DOMAIN s : \A i \in 1 .. j - 1 : i \in DOMAIN s
  OBVIOUS
<1>q. QED
  BY <1>1 DEF Fine, Calm, NoMove

\* The one move that is missing comes, or something void before it.
LEMMA BehindReads ==
  ASSUME NEW p \in Player, NEW b \in Boards, Balanced(b), NEW o, NEW s \in Seq(Updates), s # <<>>,
         Behind(p, b, s, o)
  PROVE  \/ Read(p, b, Head(s)) = o /\ Fine(p, o, Tail(s))
         \/ Read(p, b, Head(s)) = b /\ Behind(p, b, Tail(s), o)
<1>1. PICK i \in DOMAIN s : Only(p, s, i, DOMAIN s) /\ Due(p, b, s[i]) /\ o = Moved(p, b, s[i])
  BY DEF Behind
<1>2. 1 \in DOMAIN s /\ s[1] \in Updates /\ Head(s) = s[1] /\ i \in 1 .. Len(s)
  BY Shifted
<1>3. CASE i = 1
  <2>1. Read(p, b, s[1]) = o
    BY <1>1, <1>2, <1>3, ReadIs DEF Only
  <2>2. NoMove(p, Tail(s), DOMAIN Tail(s))
    BY <1>1, <1>3, Shifted DEF Only, NoMove
  <2>3. Calm(p, o, Tail(s))
    <3>1. ASSUME NEW j \in DOMAIN Tail(s), Tail(s)[j].what = 9
          PROVE  Young(p, o)
      <4>1. j + 1 \in DOMAIN s /\ s[j + 1].what = 9 /\ 1 \in 1 .. (j + 1) - 1
        BY <3>1, Shifted
      <4>q. QED
        BY <1>1, <1>3, <4>1 DEF Behind, Calm, Only
    <3>2. Tail(s) \in Seq(Updates)
      BY Shifted
    <3>q. QED
      BY <2>2, <3>1, <3>2, QuietIsCalm DEF Fine
  <2>q. QED
    BY <1>2, <2>1, <2>2, <2>3 DEF Fine
<1>4. CASE i # 1
  <2>1. ~Foreign(p, s[1])
    BY <1>1, <1>2, <1>4 DEF Only
  <2>2. s[1].what = 9 => WinnerOf(b) = "none"
    BY <1>2, YoungIsOpen DEF Behind, Calm
  <2>3. Read(p, b, s[1]) = b
    BY <1>2, <2>1, <2>2, ReadIs
  <2>4. PICK k : k = i - 1
    OBVIOUS
  <2>5. k \in DOMAIN Tail(s) /\ Tail(s)[k] = s[i]
    BY <1>2, <1>4, <2>4, Shifted
  <2>6. Only(p, Tail(s), k, DOMAIN Tail(s))
    <3>1. \A j \in DOMAIN Tail(s) : Foreign(p, Tail(s)[j]) => j + 1 = i
      BY <1>1, Shifted DEF Only
    <3>2. \A j \in DOMAIN Tail(s) : j + 1 = i => j = k
      BY <2>4, Shifted
    <3>q. QED
      BY <1>1, <2>5, <3>1, <3>2 DEF Only
  <2>7. Behind(p, b, Tail(s), o)
    BY <1>1, <2>5, <2>6, CalmReads DEF Behind
  <2>q. QED
    BY <1>2, <2>3, <2>7
<1>q. QED
  BY <1>3, <1>4

LEMMA OutdatedReads ==
  ASSUME NEW p \in Player, NEW b \in Boards, NEW o, NEW s \in Seq(Updates), s # <<>>,
         Outdated(p, b, s, o)
  PROVE  LET d == Read(p, b, Head(s)) IN
         \/ d \in {b, Moved(p, b, Head(s))} /\ (d = b \/ Due(p, b, Head(s))) /\ Outdated(p, d, Tail(s), o)
         \/ d = Empty /\ o = Empty /\ Fine(p, Empty, Tail(s))
         \/ d = Empty /\ p = "bob" /\ Behind(p, Empty, Tail(s), o)
<1>1. PICK k \in DOMAIN s : /\ s[k].what = 9 /\ \A j \in DOMAIN s : s[j].what = 9 => j = k
                            /\ LastEnds(p, b, s, k) /\ NextBegins(p, s, k, o)
  BY DEF Outdated
<1>2. /\ 1 \in DOMAIN s /\ s[1] \in Updates /\ Head(s) = s[1] /\ k \in 1 .. Len(s) /\ Len(s) \in Nat
      /\ DOMAIN s = 1 .. Len(s) /\ DOMAIN Tail(s) = 1 .. Len(s) - 1
      /\ \A i \in DOMAIN Tail(s) : i + 1 \in DOMAIN s /\ Tail(s)[i] = s[i + 1]
  BY Shifted
<1>3. PICK d : d = Read(p, b, s[1])
  OBVIOUS
<1>4. CASE k = 1
  <2>1. WinnerOf(b) # "none"
    BY <1>1, <1>4 DEF LastEnds
  <2>2. d = Empty
    BY <1>1, <1>2, <1>3, <1>4, <2>1, ReadIs
  <2>3. \A j \in DOMAIN Tail(s) : Tail(s)[j].what # 9
    BY <1>1, <1>2, <1>4
  <2>4. Calm(p, Empty, Tail(s))
    BY <2>3 DEF Calm
  <2>5. CASE o = Empty /\ NoMove(p, s, k + 1 .. Len(s))
    <3>1. NoMove(p, Tail(s), DOMAIN Tail(s))
      BY <1>2, <1>4, <2>5 DEF NoMove
    <3>q. QED
      BY <1>2, <1>3, <2>2, <2>4, <2>5, <3>1 DEF Fine
  <2>6. ASSUME p = "bob", NEW i \in k + 1 .. Len(s), Only(p, s, i, k + 1 .. Len(s)), o = Moved(p, Empty, s[i])
        PROVE  p = "bob" /\ Behind(p, Empty, Tail(s), o)
    <3>1. PICK n : n = i - 1
      OBVIOUS
    <3>2. n \in DOMAIN Tail(s) /\ Tail(s)[n] = s[i]
      BY <1>2, <1>4, <2>6, <3>1
    <3>3. Only(p, Tail(s), n, DOMAIN Tail(s))
      <4>1. \A j \in DOMAIN Tail(s) : Foreign(p, Tail(s)[j]) => j + 1 = i
        BY <1>2, <1>4, <2>6 DEF Only
      <4>q. QED
        BY <1>2, <2>6, <3>1, <3>2, <4>1 DEF Only
    <3>4. s[i] \in Updates /\ s[i].what # 9
      BY <1>2, <1>4, <2>6 DEF Only, Foreign
    <3>5. s[i].what \in Cells
      BY <3>4 DEF Updates
    <3>6. Due(p, Empty, s[i])
      BY <2>6, <3>5, FirstMove, EmptyBoard DEF Due, MarkOf, Rival
    <3>q. QED
      BY <2>4, <2>6, <3>2, <3>3, <3>6 DEF Behind
  <2>q. QED
    BY <1>1, <1>2, <1>3, <2>2, <2>5, <2>6 DEF NextBegins
<1>5. CASE k # 1
  <2>1. PICK n : n = k - 1
    OBVIOUS
  <2>2. n \in DOMAIN Tail(s) /\ Tail(s)[n] = s[k] /\ n + 1 = k /\ n \in Nat
    BY <1>2, <1>5, <2>1
  <2>3. \A j \in DOMAIN Tail(s) : Tail(s)[j].what = 9 => j = n
    BY <1>1, <1>2, <2>1
  <2>4. s[1].what # 9
    BY <1>1, <1>2, <1>5
  <2>5. NextBegins(p, Tail(s), n, o)
    <3>1. CASE o = Empty /\ NoMove(p, s, k + 1 .. Len(s))
      <4>1. NoMove(p, Tail(s), n + 1 .. Len(Tail(s)))
        BY <1>2, <2>2, <3>1, Shifted DEF NoMove
      <4>q. QED
        BY <3>1, <4>1 DEF NextBegins
    <3>2. ASSUME p = "bob", NEW i \in k + 1 .. Len(s), Only(p, s, i, k + 1 .. Len(s)), o = Moved(p, Empty, s[i])
          PROVE  NextBegins(p, Tail(s), n, o)
      <4>1. PICK h : h = i - 1
        OBVIOUS
      <4>2. h \in n + 1 .. Len(Tail(s)) /\ Tail(s)[h] = s[i] /\ Len(Tail(s)) = Len(s) - 1
        BY <1>2, <2>2, <3>2, <4>1, Shifted
      <4>3. \A j \in n + 1 .. Len(Tail(s)) : Foreign(p, Tail(s)[j]) => j = h
        <5>1. SUFFICES ASSUME NEW j \in n + 1 .. Len(Tail(s)), Foreign(p, Tail(s)[j])
                       PROVE  j = h
          OBVIOUS
        <5>2. j + 1 \in k + 1 .. Len(s) /\ Tail(s)[j] = s[j + 1]
          BY <1>2, <2>2, <4>2, <5>1
        <5>3. j + 1 = i
          <6>1. \A y \in k + 1 .. Len(s) : Foreign(p, s[y]) => y = i
            BY <3>2 DEF Only
          <6>2. PICK y : y = j + 1
            OBVIOUS
          <6>3. y \in k + 1 .. Len(s) /\ Foreign(p, s[y])
            BY <5>1, <5>2, <6>2
          <6>q. QED
            BY <6>1, <6>2, <6>3
        <5>4. j \in Int
          BY <2>2, <5>1
        <5>q. QED
          BY <4>1, <5>3, <5>4
      <4>4. Only(p, Tail(s), h, n + 1 .. Len(Tail(s)))
        BY <3>2, <4>2, <4>3 DEF Only
      <4>q. QED
        BY <3>2, <4>2, <4>4 DEF NextBegins
    <3>q. QED
      BY <1>1, <3>1, <3>2 DEF NextBegins
  <2>6. \A j \in 1 .. n - 1 : j + 1 \in 2 .. k - 1 /\ Tail(s)[j] = s[j + 1]
    BY <1>2, <2>2
  <2>7. CASE WinnerOf(b) # "none" /\ NoMove(p, s, 1 .. k - 1)
    <3>1. ~Foreign(p, s[1])
      BY <1>2, <1>5, <2>7 DEF NoMove
    <3>2. d = b
      BY <1>2, <1>3, <2>4, <3>1, ReadIs
    <3>3. NoMove(p, Tail(s), 1 .. n - 1)
      BY <2>6, <2>7 DEF NoMove
    <3>4. Outdated(p, b, Tail(s), o)
      BY <1>1, <2>2, <2>3, <2>5, <2>7, <3>3 DEF Outdated, LastEnds
    <3>q. QED
      BY <1>2, <1>3, <3>2, <3>4
  <2>8. ASSUME NEW i \in 1 .. k - 1, Only(p, s, i, 1 .. k - 1), Due(p, b, s[i]),
               WinnerOf(Moved(p, b, s[i])) # "none"
        PROVE  d \in {b, Moved(p, b, s[1])} /\ (d = b \/ Due(p, b, s[1])) /\ Outdated(p, d, Tail(s), o)
    <3>1. CASE i = 1
      <4>1. d = Moved(p, b, s[1])
        BY <1>2, <1>3, <2>8, <3>1, ReadIs DEF Only
      <4>2. NoMove(p, Tail(s), 1 .. n - 1)
        BY <2>6, <2>8, <3>1 DEF NoMove, Only
      <4>3. Outdated(p, d, Tail(s), o)
        BY <1>1, <2>2, <2>3, <2>5, <2>8, <3>1, <4>1, <4>2 DEF Outdated, LastEnds
      <4>q. QED
        BY <2>8, <3>1, <4>1, <4>3
    <3>2. CASE i # 1
      <4>1. ~Foreign(p, s[1])
        BY <1>2, <1>5, <2>8, <3>2 DEF Only
      <4>2. d = b
        BY <1>2, <1>3, <2>4, <4>1, ReadIs
      <4>3. PICK h : h = i - 1
        OBVIOUS
      <4>4. h \in 1 .. n - 1 /\ Tail(s)[h] = s[i]
        BY <1>2, <2>2, <2>8, <3>2, <4>3
      <4>5. Only(p, Tail(s), h, 1 .. n - 1)
        <5>1. \A j \in 1 .. n - 1 : Foreign(p, Tail(s)[j]) => j + 1 = i
          BY <2>6, <2>8 DEF Only
        <5>2. n \in Int
          BY <2>2
        <5>3. \A j \in 1 .. n - 1 : j + 1 = i => j = h
          BY <4>3, <5>2
        <5>q. QED
          BY <2>8, <4>4, <5>1, <5>3 DEF Only
      <4>6. LastEnds(p, b, Tail(s), n)
        BY <2>8, <4>4, <4>5 DEF LastEnds
      <4>7. Outdated(p, b, Tail(s), o)
        BY <1>1, <2>2, <2>3, <2>5, <4>6 DEF Outdated
      <4>q. QED
        BY <4>2, <4>7
    <3>q. QED
      BY <3>1, <3>2
  <2>q. QED
    BY <1>1, <1>2, <1>3, <2>7, <2>8 DEF LastEnds
<1>q. QED
  BY <1>4, <1>5

\* What is sent.
LEMMA NoneSent ==
  ASSUME NEW p, NEW s \in Seq(Updates), NEW u \in Updates, ~Foreign(p, u), NoMove(p, s, DOMAIN s)
  PROVE  NoMove(p, Append(s, u), DOMAIN Append(s, u))
<1>1. SUFFICES ASSUME NEW j \in DOMAIN Append(s, u)
               PROVE  ~Foreign(p, Append(s, u)[j])
  BY DEF NoMove
<1>2. j = Len(s) + 1 \/ j \in DOMAIN s
  BY Appended
<1>q. QED
  BY <1>2, Appended DEF NoMove

LEMMA FinePlays ==
  ASSUME NEW p \in Player, NEW b \in Boards, NEW c \in Cells, b[c] = "-", NEW s \in Seq(Updates),
         Fine(p, b, s), NEW u \in Updates, u.by = p, u.what = c
  PROVE  Fine(p, ApplyMove(b, c, MarkOf(p)), Append(s, u))
<1>1. PICK d : d = ApplyMove(b, c, MarkOf(p))
  OBVIOUS
<1>2. Young(p, b) => Young(p, d)
  <2>1. CASE p = "ann"
    BY <1>1, <2>1, MoveMarks DEF Young, MarkOf
  <2>2. CASE p = "bob"
    BY <1>1, <2>2, MoveMarks DEF Young, MarkOf
  <2>q. QED
    BY <2>1, <2>2 DEF Player
<1>3. ~Foreign(p, u) /\ u.what # 9
  BY DEF Foreign, Cells
<1>4. PICK t : t = Append(s, u)
  OBVIOUS
<1>5. t \in Seq(Updates) /\ NoMove(p, t, DOMAIN t)
  BY <1>3, <1>4, NoneSent, Appended DEF Fine
<1>6. ASSUME NEW j \in DOMAIN t, t[j].what = 9
      PROVE  Young(p, d)
  <2>1. j \in DOMAIN s /\ s[j].what = 9
    BY <1>3, <1>4, <1>6, Appended
  <2>q. QED
    BY <1>2, <2>1 DEF Fine, Calm
<1>7. Fine(p, d, t)
  BY <1>5, <1>6, QuietIsCalm
<1>q. QED
  BY <1>1, <1>4, <1>7

\* Over a finished game nothing but its end is under way.
LEMMA FineIsOver ==
  ASSUME NEW p \in Player, NEW b \in Boards, Balanced(b), WinnerOf(b) # "none", NEW s, Fine(p, b, s)
  PROVE  \A j \in DOMAIN s : s[j].what # 9
<1>q. QED
  BY YoungIsOpen DEF Fine, Calm

LEMMA FineAgain ==
  ASSUME NEW p \in Player, NEW b \in Boards, Balanced(b), WinnerOf(b) # "none", NEW s \in Seq(Updates),
         Fine(p, b, s), NEW u \in Updates, u.what = 9
  PROVE  Fine(p, Empty, Append(s, u))
<1>1. PICK t : t = Append(s, u)
  OBVIOUS
<1>2. t \in Seq(Updates) /\ NoMove(p, t, DOMAIN t)
  BY <1>1, NoneSent, Appended DEF Fine, Foreign
<1>3. Young(p, Empty)
  BY EmptyBoard
<1>q. QED
  BY <1>1, <1>2, <1>3, QuietIsCalm

LEMMA FineHears ==
  ASSUME NEW p \in Player, NEW b \in Boards, Young(p, b), NEW s \in Seq(Updates), Fine(p, b, s),
         NEW u \in Updates, u.what = 9
  PROVE  Fine(p, b, Append(s, u))
<1>1. PICK t : t = Append(s, u)
  OBVIOUS
<1>2. t \in Seq(Updates) /\ NoMove(p, t, DOMAIN t)
  BY <1>1, NoneSent, Appended DEF Fine, Foreign
<1>q. QED
  BY <1>1, <1>2, QuietIsCalm

LEMMA Rivals == \A p \in Player : Rival(p) \in Player /\ Rival(Rival(p)) = p /\ Rival(p) # p
                                  /\ MarkOf(p) # MarkOf(Rival(p)) /\ MarkOf(p) \in {"X", "O"}
<1>q. QED
  BY DEF Rival, Player, MarkOf

LEMMA BehindStarts ==
  ASSUME NEW p \in Player, NEW b \in Boards, NEW c \in Cells, Legal(b, c), TurnOf(b) = MarkOf(p),
         NEW s \in Seq(Updates), Fine(Rival(p), b, s), NEW u \in Updates, u.by = p, u.what = c
  PROVE  Behind(Rival(p), b, Append(s, u), ApplyMove(b, c, MarkOf(p)))
<1>1. PICK t, n, q : t = Append(s, u) /\ n = Len(s) + 1 /\ q = Rival(p)
  OBVIOUS
<1>2. /\ n \in DOMAIN t /\ t[n] = u /\ DOMAIN t = DOMAIN s \cup {n} /\ \A i \in DOMAIN s : t[i] = s[i]
      /\ DOMAIN s = 1 .. n - 1 /\ n \in Nat
  <2>1. /\ t \in Seq(Updates) /\ Len(s) \in Nat /\ DOMAIN s = 1 .. Len(s) /\ DOMAIN t = 1 .. Len(s) + 1
        /\ t[Len(s) + 1] = u /\ \A i \in DOMAIN s : t[i] = s[i]
    BY <1>1, Appended
  <2>q. QED
    BY <1>1, <2>1
<1>3. u.what # 9 /\ Foreign(q, u) /\ Due(q, b, u) /\ ApplyMove(b, c, MarkOf(p)) = Moved(q, b, u)
  <2>1. u.what # 9
    BY DEF Cells
  <2>q. QED
    BY <1>1, <2>1, Rivals DEF Foreign, Due, Moved
<1>4. \A j \in DOMAIN s : ~Foreign(q, s[j])
  BY <1>1 DEF Fine, NoMove
<1>5. Only(q, t, n, DOMAIN t)
  BY <1>2, <1>3, <1>4 DEF Only
<1>6. Calm(q, b, t)
  <2>1. SUFFICES ASSUME NEW j \in DOMAIN t, t[j].what = 9
                 PROVE  Young(q, b) /\ \A i \in 1 .. j - 1 : ~Foreign(q, t[i])
    BY DEF Calm
  <2>2. j \in DOMAIN s /\ s[j].what = 9
    BY <1>2, <1>3, <2>1
  <2>3. \A i \in 1 .. j - 1 : i \in DOMAIN s
    BY <1>2, <2>2
  <2>q. QED
    BY <1>1, <1>2, <1>4, <2>2, <2>3 DEF Fine, Calm
<1>q. QED
  BY <1>1, <1>2, <1>3, <1>5, <1>6 DEF Behind

LEMMA BehindTurn ==
  ASSUME NEW p \in Player, NEW b \in Boards, Balanced(b), NEW s \in Seq(Updates), NEW o, Behind(p, b, s, o)
  PROVE  /\ WinnerOf(b) = "none" /\ TurnOf(b) = MarkOf(Rival(p))
         /\ o \in Boards /\ Balanced(o) /\ TurnOf(o) = MarkOf(p)
         /\ WinnerOf(o) # "none" => \A j \in DOMAIN s : s[j].what # 9
<1>1. PICK i \in DOMAIN s : Only(p, s, i, DOMAIN s) /\ Due(p, b, s[i]) /\ o = Moved(p, b, s[i])
  BY DEF Behind
<1>2. PICK c \in Cells : c = s[i].what /\ b[c] = "-" /\ o = ApplyMove(b, c, MarkOf(Rival(p)))
  <2>1. s[i] \in Updates /\ s[i].what # 9
    BY <1>1 DEF Only, Foreign
  <2>q. QED
    BY <1>1, <2>1 DEF Updates, Due, Legal, Moved
<1>3. WinnerOf(b) = "none" /\ TurnOf(b) = MarkOf(Rival(p))
  BY <1>1 DEF Due, Legal
<1>4. o \in Boards /\ Balanced(o) /\ TurnOf(o) = MarkOf(p)
  BY <1>2, <1>3, Rivals, TurnPasses
<1>5. ASSUME NEW j \in DOMAIN s, s[j].what = 9
      PROVE  WinnerOf(o) = "none"
  BY <1>2, <1>5, YoungIsOpen DEF Behind, Calm
<1>q. QED
  BY <1>3, <1>4, <1>5

\* The end of one game and the begin of the next.
LEMMA LastEndStays ==
  ASSUME NEW p, NEW b, NEW s \in Seq(Updates), NEW k \in DOMAIN s, NEW u \in Updates, LastEnds(p, b, s, k)
  PROVE  LastEnds(p, b, Append(s, u), k)
<1>1. PICK t : t = Append(s, u)
  OBVIOUS
<1>2. \A i \in 1 .. k - 1 : t[i] = s[i]
  BY <1>1, Appended
<1>3. CASE WinnerOf(b) # "none" /\ NoMove(p, s, 1 .. k - 1)
  BY <1>1, <1>2, <1>3 DEF LastEnds, NoMove
<1>4. ASSUME NEW i \in 1 .. k - 1, Only(p, s, i, 1 .. k - 1), Due(p, b, s[i]),
             WinnerOf(Moved(p, b, s[i])) # "none"
      PROVE  LastEnds(p, b, t, k)
  <2>1. Only(p, t, i, 1 .. k - 1) /\ t[i] = s[i]
    BY <1>2, <1>4 DEF Only
  <2>q. QED
    BY <1>4, <2>1 DEF LastEnds
<1>q. QED
  BY <1>1, <1>3, <1>4 DEF LastEnds

LEMMA OutdatedStarts ==
  ASSUME NEW p, NEW b, NEW s \in Seq(Updates), \A j \in DOMAIN s : s[j].what # 9,
         NEW u \in Updates, u.what = 9, LastEnds(p, b, Append(s, u), Len(s) + 1)
  PROVE  Outdated(p, b, Append(s, u), Empty)
<1>1. PICK t, n : t = Append(s, u) /\ n = Len(s) + 1
  OBVIOUS
<1>2. /\ n \in DOMAIN t /\ t[n] = u /\ Len(t) = n /\ n \in Nat
      /\ \A j \in DOMAIN t : t[j].what = 9 => j = n
  BY <1>1, Appended
<1>3. NextBegins(p, t, n, Empty)
  BY <1>2 DEF NextBegins, NoMove
<1>q. QED
  BY <1>1, <1>2, <1>3 DEF Outdated

LEMMA LevelAgain ==
  ASSUME NEW p \in Player, NEW b \in Boards, Balanced(b), WinnerOf(b) # "none", NEW s \in Seq(Updates),
         Fine(p, b, s), NEW u \in Updates, u.what = 9
  PROVE  Outdated(p, b, Append(s, u), Empty)
<1>1. PICK t, n : t = Append(s, u) /\ n = Len(s) + 1
  OBVIOUS
<1>2. \A j \in 1 .. n - 1 : t[j] = s[j] /\ j \in DOMAIN s
  BY <1>1, Appended
<1>3. LastEnds(p, b, t, n)
  BY <1>2 DEF LastEnds, Fine, NoMove
<1>q. QED
  BY <1>1, <1>3, FineIsOver, OutdatedStarts

LEMMA BehindAgain ==
  ASSUME NEW p \in Player, NEW b \in Boards, Balanced(b), NEW s \in Seq(Updates), NEW o, Behind(p, b, s, o),
         WinnerOf(o) # "none", NEW u \in Updates, u.what = 9
  PROVE  Outdated(p, b, Append(s, u), Empty)
<1>1. PICK t, n : t = Append(s, u) /\ n = Len(s) + 1
  OBVIOUS
<1>2. PICK i \in DOMAIN s : Only(p, s, i, DOMAIN s) /\ Due(p, b, s[i]) /\ o = Moved(p, b, s[i])
  BY DEF Behind
<1>3. 1 .. n - 1 = DOMAIN s /\ \A j \in 1 .. n - 1 : t[j] = s[j]
  BY <1>1, Appended
<1>4. Only(p, t, i, 1 .. n - 1) /\ t[i] = s[i] /\ i \in 1 .. n - 1
  BY <1>2, <1>3 DEF Only
<1>5. LastEnds(p, b, t, n)
  BY <1>2, <1>4 DEF LastEnds
<1>q. QED
  BY <1>1, <1>5, BehindTurn, OutdatedStarts

\* What the player whose board begins the next game sees.
Unaware(p, o) == p = "bob" /\ o = Empty

LEMMA OutdatedTurn ==
  ASSUME NEW p \in Player, NEW b, NEW s \in Seq(Updates), NEW o, Outdated(p, b, s, o)
  PROVE  /\ WinnerOf(b) = "none" => TurnOf(b) = MarkOf(Rival(p))
         /\ o \in Boards /\ Balanced(o) /\ WinnerOf(o) = "none" /\ Young(Rival(p), o)
         /\ TurnOf(o) = MarkOf(Rival(p)) => Unaware(p, o)
<1>1. PICK k \in DOMAIN s : LastEnds(p, b, s, k) /\ NextBegins(p, s, k, o)
  BY DEF Outdated
<1>2. WinnerOf(b) = "none" => TurnOf(b) = MarkOf(Rival(p))
  BY <1>1 DEF LastEnds, Due
<1>3. CASE o = Empty
  <2>1. 0 \in Cells
    BY DEF Cells
  <2>2. o \in Boards /\ Balanced(o) /\ WinnerOf(o) = "none" /\ TurnOf(o) = "X"
    BY <1>3, <2>1, EmptyBoard, FirstMove
  <2>3. Young(Rival(p), o)
    BY <1>3, EmptyBoard, Rivals
  <2>4. TurnOf(o) = MarkOf(Rival(p)) => Unaware(p, o)
    BY <1>3, <2>2 DEF MarkOf, Rival, Player, Unaware
  <2>q. QED
    BY <1>2, <1>3, <2>2, <2>3, <2>4
<1>4. ASSUME p = "bob", NEW i \in k + 1 .. Len(s), Only(p, s, i, k + 1 .. Len(s)), o = Moved(p, Empty, s[i])
      PROVE  o \in Boards /\ Balanced(o) /\ WinnerOf(o) = "none" /\ Young(Rival(p), o)
             /\ TurnOf(o) # MarkOf(Rival(p))
  <2>1. i \in DOMAIN s
    BY <1>4
  <2>2. s[i] \in Updates /\ s[i].what # 9
    BY <1>4, <2>1 DEF Only, Foreign
  <2>3. s[i].what \in Cells
    BY <2>2 DEF Updates
  <2>4. o = ApplyMove(Empty, s[i].what, "X") /\ Rival(p) = "ann" /\ MarkOf(Rival(p)) = "X"
    BY <1>4 DEF Moved, MarkOf, Rival
  <2>q. QED
    BY <2>3, <2>4, FirstMove
<1>5. CASE o = Empty /\ NoMove(p, s, k + 1 .. Len(s))
  BY <1>2, <1>3, <1>5
<1>q. QED
  BY <1>1, <1>2, <1>3, <1>4 DEF NextBegins

\* The next game begins with a move of ann, who has not heard that bob knows.
LEMMA OutdatedPlays ==
  ASSUME NEW b, NEW s \in Seq(Updates), Outdated("bob", b, s, Empty), NEW c \in Cells,
         NEW u \in Updates, u.by = "ann", u.what = c
  PROVE  Outdated("bob", b, Append(s, u), ApplyMove(Empty, c, "X"))
<1>1. PICK k \in DOMAIN s : /\ s[k].what = 9 /\ \A j \in DOMAIN s : s[j].what = 9 => j = k
                            /\ LastEnds("bob", b, s, k) /\ NextBegins("bob", s, k, Empty)
  BY DEF Outdated
<1>2. PICK t, n : t = Append(s, u) /\ n = Len(s) + 1
  OBVIOUS
<1>3. /\ n \in Nat /\ DOMAIN s = 1 .. n - 1 /\ DOMAIN t = 1 .. n /\ Len(t) = n /\ t[n] = u
      /\ \A j \in DOMAIN s : t[j] = s[j]
  <2>1. /\ Len(s) \in Nat /\ DOMAIN s = 1 .. Len(s) /\ DOMAIN t = 1 .. Len(s) + 1 /\ t[Len(s) + 1] = u
        /\ Len(t) = Len(s) + 1 /\ \A i \in DOMAIN s : t[i] = s[i]
    BY <1>2, Appended
  <2>q. QED
    BY <1>2, <2>1
<1>4. NoMove("bob", s, k + 1 .. Len(s))
  <2>1. ASSUME NEW i \in k + 1 .. Len(s), Only("bob", s, i, k + 1 .. Len(s)), Empty = Moved("bob", Empty, s[i])
        PROVE  FALSE
    <3>1. i \in DOMAIN s
      BY <2>1
    <3>2. s[i] \in Updates /\ s[i].what # 9
      BY <2>1, <3>1 DEF Only, Foreign
    <3>3. s[i].what \in Cells
      BY <3>2 DEF Updates
    <3>4. Empty = ApplyMove(Empty, s[i].what, "X")
      BY <2>1 DEF Moved, MarkOf, Rival
    <3>5. TurnOf(ApplyMove(Empty, s[i].what, "X")) = "O"
      BY <3>3, FirstMove
    <3>q. QED
      BY <3>4, <3>5, EmptyBoard
  <2>q. QED
    BY <1>1, <2>1 DEF NextBegins
<1>5. Foreign("bob", u) /\ u.what # 9
  BY DEF Foreign, Cells
<1>6. Only("bob", t, n, k + 1 .. n) /\ n \in k + 1 .. Len(t)
  <2>1. k \in Nat /\ k < n
    BY <1>3
  <2>2. \A j \in k + 1 .. n : j # n => j \in k + 1 .. Len(s) /\ t[j] = s[j]
    BY <1>2, <1>3, <2>1
  <2>q. QED
    BY <1>3, <1>4, <1>5, <2>1, <2>2 DEF Only, NoMove
<1>7. NextBegins("bob", t, k, ApplyMove(Empty, c, "X"))
  <2>1. ApplyMove(Empty, c, "X") = Moved("bob", Empty, t[n])
    BY <1>3 DEF Moved, MarkOf, Rival
  <2>q. QED
    BY <1>3, <1>6, <2>1 DEF NextBegins
<1>8. LastEnds("bob", b, t, k)
  BY <1>1, <1>2, LastEndStays
<1>9. k \in DOMAIN t /\ t[k].what = 9 /\ \A j \in DOMAIN t : t[j].what = 9 => j = k
  BY <1>1, <1>3, <1>5
<1>q. QED
  BY <1>2, <1>7, <1>8, <1>9 DEF Outdated

\* The other one has asked for the next game too: its own reset is void everywhere.
LEMMA OutdatedAgain ==
  ASSUME NEW p \in Player, NEW b, NEW s \in Seq(Updates), NEW o, Outdated(p, b, s, o), WinnerOf(b) # "none",
         NEW u \in Updates, u.what = 9
  PROVE  \/ o = Empty /\ Fine(p, Empty, Append(s, u))
         \/ Behind(p, Empty, Append(s, u), o)
<1>1. PICK k \in DOMAIN s : /\ s[k].what = 9 /\ LastEnds(p, b, s, k) /\ NextBegins(p, s, k, o)
  BY DEF Outdated
<1>2. PICK t, n : t = Append(s, u) /\ n = Len(s) + 1
  OBVIOUS
<1>3. /\ n \in Nat /\ DOMAIN s = 1 .. n - 1 /\ DOMAIN t = 1 .. n /\ Len(s) = n - 1 /\ t[n] = u
      /\ t \in Seq(Updates) /\ \A j \in DOMAIN s : t[j] = s[j]
  <2>1. /\ Len(s) \in Nat /\ DOMAIN s = 1 .. Len(s) /\ DOMAIN t = 1 .. Len(s) + 1 /\ t[Len(s) + 1] = u
        /\ t \in Seq(Updates) /\ \A i \in DOMAIN s : t[i] = s[i]
    BY <1>2, Appended
  <2>q. QED
    BY <1>2, <2>1
<1>4. NoMove(p, s, 1 .. k - 1)
  BY <1>1 DEF LastEnds, Due, Legal
<1>5. k \in 1 .. n - 1 /\ ~Foreign(p, s[k]) /\ ~Foreign(p, u)
  BY <1>1, <1>3 DEF Foreign
<1>6. \A j \in DOMAIN t : Foreign(p, t[j]) => j \in k + 1 .. Len(s) /\ Foreign(p, s[j])
  <2>1. SUFFICES ASSUME NEW j \in 1 .. n, Foreign(p, t[j])
                 PROVE  j \in k + 1 .. Len(s) /\ Foreign(p, s[j])
    BY <1>3
  <2>2. j # n
    BY <1>3, <1>5, <2>1
  <2>3. j \in DOMAIN s /\ t[j] = s[j]
    BY <1>3, <2>2
  <2>4. j # k /\ j \notin 1 .. k - 1
    BY <1>4, <1>5, <2>1, <2>3 DEF NoMove
  <2>q. QED
    BY <1>3, <1>5, <2>1, <2>2, <2>3, <2>4
<1>7. Young(p, Empty)
  BY EmptyBoard
<1>8. CASE o = Empty /\ NoMove(p, s, k + 1 .. Len(s))
  <2>1. NoMove(p, t, DOMAIN t)
    BY <1>6, <1>8 DEF NoMove
  <2>q. QED
    BY <1>2, <1>3, <1>7, <1>8, <2>1, QuietIsCalm
<1>9. ASSUME p = "bob", NEW i \in k + 1 .. Len(s), Only(p, s, i, k + 1 .. Len(s)), o = Moved(p, Empty, s[i])
      PROVE  Behind(p, Empty, t, o)
  <2>1. i \in DOMAIN s /\ i \in DOMAIN t /\ t[i] = s[i]
    BY <1>3, <1>9
  <2>2. s[i] \in Updates /\ s[i].what # 9
    BY <1>9, <2>1 DEF Only, Foreign
  <2>3. PICK c \in Cells : c = s[i].what
    BY <2>2 DEF Updates
  <2>4. Only(p, t, i, DOMAIN t)
    BY <1>6, <1>9, <2>1 DEF Only
  <2>5. o = ApplyMove(Empty, c, "X") /\ o = Moved(p, Empty, t[i]) /\ Young(p, o)
    BY <1>9, <2>1, <2>3, FirstMove DEF Moved, MarkOf, Rival
  <2>6. Due(p, Empty, t[i])
    BY <1>9, <2>1, <2>3, FirstMove, EmptyBoard DEF Due, MarkOf, Rival
  <2>7. Calm(p, Empty, t)
    <3>1. SUFFICES ASSUME NEW j \in DOMAIN t, NEW h \in 1 .. j - 1, Foreign(p, t[h])
                   PROVE  Young(p, Moved(p, Empty, t[h]))
      BY <1>7 DEF Calm
    <3>2. h \in DOMAIN t
      BY <1>3, <3>1
    <3>3. h = i
      BY <2>4, <3>1, <3>2 DEF Only
    <3>q. QED
      BY <2>5, <3>3
  <2>q. QED
    BY <2>1, <2>4, <2>5, <2>6, <2>7 DEF Behind
<1>q. QED
  BY <1>1, <1>2, <1>8, <1>9 DEF NextBegins

\* The game starts.
Opened(k) == [c \in Cells |-> IF c >= k THEN "-" ELSE IF c % 2 = 0 THEN "X" ELSE "O"]
Mover(k) == IF k % 2 = 0 THEN "ann" ELSE "bob"

LEMMA OneMoveMore ==
  ASSUME NEW k \in 0 .. 5, Balanced(Opened(k)), TurnOf(Opened(k)) = MarkOf(Mover(k))
  PROVE  Balanced(Opened(k + 1)) /\ TurnOf(Opened(k + 1)) = MarkOf(Mover(k + 1))
<1>1. k \in Cells /\ Opened(k) \in Boards /\ Opened(k)[k] = "-"
  BY DEF Opened, Boards, Cells
<1>2. Mover(k) \in Player /\ Mover(k + 1) = Rival(Mover(k))
  BY DEF Mover, Rival, Player
<1>3. Opened(k + 1) = ApplyMove(Opened(k), k, MarkOf(Mover(k)))
  <2>1. MarkOf(Mover(k)) = IF k % 2 = 0 THEN "X" ELSE "O"
    BY DEF MarkOf, Mover
  <2>2. ASSUME NEW c \in Cells
        PROVE  Opened(k + 1)[c] = IF c = k THEN MarkOf(Mover(k)) ELSE Opened(k)[c]
    BY <2>1 DEF Opened, Cells
  <2>3. /\ Opened(k + 1) = [c \in Cells |-> Opened(k + 1)[c]]
        /\ ApplyMove(Opened(k), k, MarkOf(Mover(k))) =
             [c \in Cells |-> IF c = k THEN MarkOf(Mover(k)) ELSE Opened(k)[c]]
    BY <1>1 DEF Opened, ApplyMove
  <2>q. QED
    BY <2>2, <2>3
<1>q. QED
  BY <1>1, <1>2, <1>3, TurnPasses

LEMMA OpenedIs == \A k \in 0 .. 6 : Opened(k) \in Boards /\ Balanced(Opened(k))
<1>0. Opened(0) = Empty /\ Mover(0) = "ann"
  BY DEF Opened, Empty, Mover, Cells
<1>1. Balanced(Opened(0)) /\ TurnOf(Opened(0)) = MarkOf(Mover(0))
  BY <1>0, EmptyBoard DEF MarkOf
<1>2. Balanced(Opened(1)) /\ TurnOf(Opened(1)) = MarkOf(Mover(1))
  <2>1. PICK k \in 0 .. 5 : k = 0
    OBVIOUS
  <2>q. QED
    BY <1>1, <2>1, OneMoveMore
<1>3. Balanced(Opened(2)) /\ TurnOf(Opened(2)) = MarkOf(Mover(2))
  <2>1. PICK k \in 0 .. 5 : k = 1
    OBVIOUS
  <2>q. QED
    BY <1>2, <2>1, OneMoveMore
<1>4. Balanced(Opened(3)) /\ TurnOf(Opened(3)) = MarkOf(Mover(3))
  <2>1. PICK k \in 0 .. 5 : k = 2
    OBVIOUS
  <2>q. QED
    BY <1>3, <2>1, OneMoveMore
<1>5. Balanced(Opened(4)) /\ TurnOf(Opened(4)) = MarkOf(Mover(4))
  <2>1. PICK k \in 0 .. 5 : k = 3
    OBVIOUS
  <2>q. QED
    BY <1>4, <2>1, OneMoveMore
<1>6. Balanced(Opened(5)) /\ TurnOf(Opened(5)) = MarkOf(Mover(5))
  <2>1. PICK k \in 0 .. 5 : k = 4
    OBVIOUS
  <2>q. QED
    BY <1>5, <2>1, OneMoveMore
<1>7. Balanced(Opened(6))
  <2>1. PICK k \in 0 .. 5 : k = 5
    OBVIOUS
  <2>q. QED
    BY <1>6, <2>1, OneMoveMore
<1>8. \A k \in 0 .. 6 : k = 0 \/ k = 1 \/ k = 2 \/ k = 3 \/ k = 4 \/ k = 5 \/ k = 6
  OBVIOUS
<1>9. \A k \in 0 .. 6 : Opened(k) \in Boards
  BY DEF Opened, Boards
<1>q. QED
  BY <1>1, <1>2, <1>3, <1>4, <1>5, <1>6, <1>7, <1>8, <1>9

LEMMA GameStart ==
  ASSUME GameInit
  PROVE  GameInv
<1>1. PICK k \in 0 .. 6 : board = [p \in Player |-> Opened(k)] /\ (seated # Player => k = 0)
  <2>1. CASE seated = Player
    BY <2>1, GameBounds DEF GameInit, Opened
  <2>2. CASE seated # Player
    <3>1. \A c \in Cells : c >= 0
      BY DEF Cells
    <3>2. [c \in Cells |-> IF c >= Opening \/ seated # Player THEN "-" ELSE IF c % 2 = 0 THEN "X" ELSE "O"]
          = Opened(0)
      BY <2>2, <3>1 DEF Opened
    <3>q. QED
      BY <3>2 DEF GameInit
  <2>q. QED
    BY <2>1, <2>2
<1>2. Opened(k) \in Boards /\ Balanced(Opened(k))
  BY OpenedIs
<1>3. relayed = [p \in Player |-> <<>>]
  BY DEF GameInit
<1>4. <<>> \in Seq(Updates) /\ DOMAIN <<>> = {}
  OBVIOUS
<1>5. GameTyped
  BY <1>1, <1>2, <1>3, <1>4 DEF GameTyped
<1>6. \A p \in Player : \A b : Fine(p, b, relayed[p])
  BY <1>3, <1>4 DEF Fine, NoMove, Calm
<1>7. GameOn
  BY <1>1, <1>6 DEF GameOn, FineHere, Player
<1>8. Awaited
  <2>1. Opened(0) = Empty
    BY DEF Opened, Empty, Cells
  <2>q. QED
    BY <1>1, <1>3, <2>1 DEF Awaited, Player
<1>q. QED
  BY <1>1, <1>2, <1>5, <1>7, <1>8 DEF GameInv

LEMMA GameTypedStep ==
  ASSUME GameTyped, [GameNext]_gameVars
  PROVE  GameTyped'
<1>1. Empty \in Boards
  BY EmptyBoard
<1>2. \A b \in Boards, c \in Cells, p \in Player : ApplyMove(b, c, MarkOf(p)) \in Boards
  BY DEF Boards, ApplyMove, MarkOf
<1>3. ASSUME NEW p \in Player, NEW w \in Cells \cup {9}, Broadcast(p, w)
      PROVE  relayed' \in [Player -> Seq(Updates)]
  <2>1. PICK u \in Updates : u = [by |-> p, what |-> w]
    BY DEF Updates
  <2>2. \A q \in Player : Append(relayed[q], u) \in Seq(Updates)
    BY <2>1, Appended DEF GameTyped
  <2>q. QED
    BY <1>3, <2>1, <2>2 DEF Broadcast
<1>4. ASSUME NEW p \in Player, Play(p)
      PROVE  GameTyped'
  <2>1. PICK c \in Cells : board' = [board EXCEPT ![p] = ApplyMove(@, c, MarkOf(p))] /\ Broadcast(p, c)
    BY <1>4 DEF Play
  <2>q. QED
    BY <1>2, <1>3, <2>1 DEF GameTyped
<1>5. ASSUME NEW p \in Player, PlayAgain(p)
      PROVE  GameTyped'
  BY <1>1, <1>3, <1>5 DEF GameTyped, PlayAgain
<1>6. ASSUME NEW p \in Player, Receive(p)
      PROVE  GameTyped'
  <2>1. PICK s \in Seq(Updates), b \in Boards : s = relayed[p] /\ b = board[p]
    BY DEF GameTyped
  <2>2. s # <<>> /\ relayed' = [relayed EXCEPT ![p] = Tail(s)]
        /\ board' = [board EXCEPT ![p] = Read(p, b, Head(s))]
    BY <1>6, <2>1 DEF Receive, Read, GameTyped
  <2>3. Tail(s) \in Seq(Updates) /\ Head(s) \in Updates
    BY <2>2, Shifted
  <2>4. Read(p, b, Head(s)) \in Boards
    BY <1>1, <1>2, <2>3 DEF Read, Updates
  <2>q. QED
    BY <2>2, <2>3, <2>4 DEF GameTyped
<1>7. ASSUME NEW p \in Player, ReloadGame(p)
      PROVE  GameTyped'
  <2>1. <<>> \in Seq(Updates)
    OBVIOUS
  <2>q. QED
    BY <1>1, <1>7, <2>1 DEF GameTyped, ReloadGame
<1>8. CASE UNCHANGED gameVars
  BY <1>8 DEF GameTyped, gameVars
<1>9. CASE JoinGame
  BY <1>1, <1>9 DEF GameTyped, JoinGame
<1>q. QED
  BY <1>4, <1>5, <1>6, <1>7, <1>8, <1>9 DEF GameNext

\* The steps of the game.
Good(p, b, s, o, r) ==
  \/ b = o /\ Fine(p, b, s) /\ Fine(Rival(p), o, r)
  \/ Fine(Rival(p), o, r) /\ (Behind(p, b, s, o) \/ Outdated(p, b, s, o))
  \/ Fine(p, b, s) /\ (Behind(Rival(p), o, r, b) \/ Outdated(Rival(p), o, r, b))

LEMMA GoodIs == \A p \in Player : GameOn <=> Good(p, board[p], relayed[p], board[Rival(p)], relayed[Rival(p)])
<1>1. Rival("ann") = "bob" /\ Rival("bob") = "ann" /\ Player = {"ann", "bob"}
  BY DEF Rival, Player
<1>2. GameOn <=> Good("ann", board["ann"], relayed["ann"], board["bob"], relayed["bob"])
  BY <1>1 DEF GameOn, FineHere, Good
<1>3. GameOn <=> Good("bob", board["bob"], relayed["bob"], board["ann"], relayed["ann"])
  BY <1>1 DEF GameOn, FineHere, Good
<1>q. QED
  BY <1>1, <1>2, <1>3

LEMMA GoodThen ==
  \A p \in Player : GameOn' <=> Good(p, board'[p], relayed'[p], board'[Rival(p)], relayed'[Rival(p)])
<1>1. Rival("ann") = "bob" /\ Rival("bob") = "ann" /\ Player = {"ann", "bob"}
  BY DEF Rival, Player
<1>2. GameOn' <=> Good("ann", board'["ann"], relayed'["ann"], board'["bob"], relayed'["bob"])
  BY <1>1 DEF GameOn, FineHere, Good
<1>3. GameOn' <=> Good("bob", board'["bob"], relayed'["bob"], board'["ann"], relayed'["ann"])
  BY <1>1 DEF GameOn, FineHere, Good
<1>q. QED
  BY <1>1, <1>2, <1>3

LEMMA GoodPlays ==
  ASSUME NEW p \in Player, NEW b \in Boards, NEW o \in Boards, Balanced(b), Balanced(o),
         NEW s \in Seq(Updates), NEW r \in Seq(Updates), Good(p, b, s, o, r),
         NEW c \in Cells, Legal(b, c), TurnOf(b) = MarkOf(p), NEW u \in Updates, u.by = p, u.what = c
  PROVE  Good(p, ApplyMove(b, c, MarkOf(p)), Append(s, u), o, Append(r, u))
<1>1. PICK q \in Player : q = Rival(p) /\ Rival(q) = p /\ MarkOf(q) # MarkOf(p)
  BY Rivals
<1>2. PICK d : d = ApplyMove(b, c, MarkOf(p))
  OBVIOUS
<1>3. b[c] = "-"
  BY DEF Legal
<1>4. CASE b = o /\ Fine(p, b, s) /\ Fine(q, o, r)
  <2>1. Fine(p, d, Append(s, u))
    BY <1>2, <1>3, <1>4, FinePlays
  <2>2. Behind(q, o, Append(r, u), d)
    BY <1>1, <1>2, <1>4, BehindStarts
  <2>q. QED
    BY <1>1, <1>2, <2>1, <2>2 DEF Good
<1>5. ASSUME Behind(p, b, s, o)
      PROVE  FALSE
  <2>1. TurnOf(b) = MarkOf(q)
    BY <1>1, <1>5, BehindTurn
  <2>q. QED
    BY <1>1, <2>1
<1>6. ASSUME Outdated(p, b, s, o)
      PROVE  FALSE
  <2>1. TurnOf(b) = MarkOf(q)
    BY <1>1, <1>6, OutdatedTurn DEF Legal
  <2>q. QED
    BY <1>1, <2>1
<1>7. ASSUME Behind(q, o, r, b)
      PROVE  FALSE
  <2>1. TurnOf(b) = MarkOf(q)
    BY <1>1, <1>7, BehindTurn
  <2>q. QED
    BY <1>1, <2>1
<1>8. CASE Fine(p, b, s) /\ Outdated(q, o, r, b)
  <2>0. Outdated(q, o, r, b) /\ TurnOf(b) = MarkOf(Rival(q))
    BY <1>1, <1>8
  <2>1. q = "bob" /\ b = Empty
    <3>1. Unaware(q, b)
      BY <2>0, OutdatedTurn
    <3>q. QED
      BY <3>1 DEF Unaware
  <2>2. p = "ann" /\ MarkOf(p) = "X"
    BY <1>1, <2>1 DEF Player, MarkOf
  <2>3. Outdated(q, o, Append(r, u), d)
    BY <1>2, <1>8, <2>1, <2>2, OutdatedPlays
  <2>4. Fine(p, d, Append(s, u))
    BY <1>2, <1>3, <1>8, FinePlays
  <2>q. QED
    BY <1>1, <1>2, <2>3, <2>4 DEF Good
<1>q. QED
  BY <1>1, <1>4, <1>5, <1>6, <1>7, <1>8 DEF Good

LEMMA GoodAgain ==
  ASSUME NEW p \in Player, NEW b \in Boards, NEW o \in Boards, Balanced(b), Balanced(o),
         NEW s \in Seq(Updates), NEW r \in Seq(Updates), Good(p, b, s, o, r),
         WinnerOf(b) # "none", NEW u \in Updates, u.what = 9
  PROVE  Good(p, Empty, Append(s, u), o, Append(r, u))
<1>1. PICK q \in Player : q = Rival(p) /\ Rival(q) = p
  BY Rivals
<1>2. CASE b = o /\ Fine(p, b, s) /\ Fine(q, o, r)
  <2>1. Fine(p, Empty, Append(s, u))
    BY <1>2, FineAgain
  <2>2. Outdated(q, o, Append(r, u), Empty)
    BY <1>2, LevelAgain
  <2>q. QED
    BY <1>1, <2>1, <2>2 DEF Good
<1>3. ASSUME Behind(p, b, s, o)
      PROVE  FALSE
  BY <1>3, BehindTurn
<1>4. CASE Fine(q, o, r) /\ Outdated(p, b, s, o)
  <2>1. Young(q, o)
    BY <1>1, <1>4, OutdatedTurn
  <2>2. Fine(q, o, Append(r, u))
    BY <1>4, <2>1, FineHears
  <2>3. \/ o = Empty /\ Fine(p, Empty, Append(s, u))
        \/ Behind(p, Empty, Append(s, u), o)
    BY <1>4, OutdatedAgain
  <2>q. QED
    BY <1>1, <2>2, <2>3 DEF Good
<1>5. CASE Fine(p, b, s) /\ Behind(q, o, r, b)
  <2>1. Fine(p, Empty, Append(s, u))
    BY <1>5, FineAgain
  <2>2. Outdated(q, o, Append(r, u), Empty)
    BY <1>5, BehindAgain
  <2>q. QED
    BY <1>1, <2>1, <2>2 DEF Good
<1>6. ASSUME Outdated(q, o, r, b)
      PROVE  FALSE
  BY <1>6, OutdatedTurn
<1>q. QED
  BY <1>1, <1>2, <1>3, <1>4, <1>5, <1>6 DEF Good

LEMMA GoodReads ==
  ASSUME NEW p \in Player, NEW b \in Boards, NEW o \in Boards, Balanced(b), Balanced(o),
         NEW s \in Seq(Updates), NEW r \in Seq(Updates), Good(p, b, s, o, r), s # <<>>
  PROVE  LET d == Read(p, b, Head(s)) IN Balanced(d) /\ Good(p, d, Tail(s), o, r)
<1>1. PICK q \in Player : q = Rival(p) /\ Rival(q) = p
  BY Rivals
<1>2. PICK d : d = Read(p, b, Head(s))
  OBVIOUS
<1>3. CASE b = o /\ Fine(p, b, s) /\ Fine(q, o, r)
  BY <1>1, <1>2, <1>3, FineReads DEF Good
<1>4. CASE Fine(q, o, r) /\ Behind(p, b, s, o)
  <2>0. Behind(p, b, s, o)
    BY <1>4
  <2>1. \/ d = o /\ Fine(p, o, Tail(s))
        \/ d = b /\ Behind(p, b, Tail(s), o)
    <3>1. \/ Read(p, b, Head(s)) = o /\ Fine(p, o, Tail(s))
          \/ Read(p, b, Head(s)) = b /\ Behind(p, b, Tail(s), o)
      BY <2>0, BehindReads
    <3>q. QED
      BY <1>2, <3>1
  <2>q. QED
    BY <1>1, <1>2, <1>4, <2>1 DEF Good
<1>5. CASE Fine(q, o, r) /\ Outdated(p, b, s, o)
  <2>1. \/ d \in {b, Moved(p, b, Head(s))} /\ (d = b \/ Due(p, b, Head(s))) /\ Outdated(p, d, Tail(s), o)
        \/ d = Empty /\ o = Empty /\ Fine(p, Empty, Tail(s))
        \/ d = Empty /\ p = "bob" /\ Behind(p, Empty, Tail(s), o)
    BY <1>2, <1>5, OutdatedReads
  <2>2. CASE d = b /\ Outdated(p, d, Tail(s), o)
    BY <1>1, <1>2, <1>5, <2>2 DEF Good
  <2>3. CASE d = Moved(p, b, Head(s)) /\ d # b /\ Due(p, b, Head(s)) /\ Outdated(p, d, Tail(s), o)
    <3>1. Head(s) \in Updates
      BY Shifted
    <3>2. PICK c : c = Head(s).what
      OBVIOUS
    <3>3. c # 9
      <4>1. Head(s).what = 9 => d = Empty \/ d = b
        BY <1>2 DEF Read
      <4>2. WinnerOf(b) = "none"
        BY <2>3 DEF Due, Legal
      <4>q. QED
        BY <1>2, <2>3, <3>2, <4>2 DEF Read
    <3>4. c \in Cells /\ b[c] = "-" /\ TurnOf(b) = MarkOf(q) /\ d = ApplyMove(b, c, MarkOf(q))
      BY <1>1, <2>3, <3>1, <3>2, <3>3 DEF Updates, Due, Legal, Moved
    <3>5. Balanced(d)
      BY <3>4, TurnPasses
    <3>q. QED
      BY <1>1, <1>2, <1>5, <2>3, <3>5 DEF Good
  <2>4. CASE d = Empty /\ o = Empty /\ Fine(p, Empty, Tail(s))
    BY <1>1, <1>2, <1>5, <2>4, EmptyBoard DEF Good
  <2>5. CASE d = Empty /\ p = "bob" /\ Behind(p, Empty, Tail(s), o)
    BY <1>1, <1>2, <1>5, <2>5, EmptyBoard DEF Good
  <2>q. QED
    BY <2>1, <2>2, <2>3, <2>4, <2>5
<1>6. CASE Fine(p, b, s) /\ (Behind(q, o, r, b) \/ Outdated(q, o, r, b))
  <2>1. d = b /\ Fine(p, b, Tail(s))
    BY <1>2, <1>6, FineReads
  <2>q. QED
    BY <1>1, <1>2, <1>6, <2>1 DEF Good
<1>q. QED
  BY <1>1, <1>3, <1>4, <1>5, <1>6 DEF Good

LEMMA GameStep ==
  ASSUME GameInv, [GameNext]_gameVars
  PROVE  GameInv'
<1>1. GameTyped'
  BY GameTypedStep DEF GameInv
<1>2. CASE UNCHANGED gameVars
  BY <1>1, <1>2 DEF GameInv, gameVars, GameOn, FineHere, Awaited
<1>3. ASSUME NEW p \in Player, Play(p) \/ PlayAgain(p) \/ Receive(p) \/ ReloadGame(p)
      PROVE  GameInv'
  <2>1. PICK q \in Player : q = Rival(p) /\ q # p /\ Player = {p, q}
    BY DEF Player, Rival
  <2>2. PICK b \in Boards, o \in Boards, s \in Seq(Updates), r \in Seq(Updates) :
          b = board[p] /\ o = board[q] /\ s = relayed[p] /\ r = relayed[q]
    BY DEF GameInv, GameTyped
  <2>3. CASE ReloadGame(p)
    BY <1>1, <2>3 DEF GameInv, ReloadGame
  <2>4. CASE missed'
    BY <1>1, <2>4 DEF GameInv
  <2>5. ASSUME ~missed
        PROVE  Balanced(b) /\ Balanced(o) /\ Good(p, b, s, o, r) /\ Awaited
    BY <2>1, <2>2, <2>5, GoodIs DEF GameInv
  <2>6. ASSUME Awaited', Balanced(board'[p]), Balanced(board'[q]),
               Good(p, board'[p], relayed'[p], board'[q], relayed'[q])
        PROVE  GameInv'
    <3>1. GameOn'
      BY <2>1, <2>6, GoodThen
    <3>q. QED
      BY <1>1, <2>1, <2>6, <3>1 DEF GameInv
  <2>7. ASSUME NEW w \in Cells \cup {9}, NEW u, u = [by |-> p, what |-> w], Broadcast(p, w), seated = Player
        PROVE  /\ u \in Updates /\ u.by = p /\ u.what = w
               /\ relayed'[p] = Append(s, u) /\ relayed'[q] = Append(r, u)
    <3>1. u \in Updates /\ u.by = p /\ u.what = w
      BY <2>7 DEF Updates
    <3>q. QED
      BY <2>2, <2>7, <3>1 DEF Broadcast
  <2>8. CASE Play(p) /\ ~missed'
    <3>1. PICK c \in Cells : /\ Legal(board[p], c) /\ Broadcast(p, c)
                             /\ board' = [board EXCEPT ![p] = ApplyMove(@, c, MarkOf(p))]
      BY <2>8 DEF Play
    <3>2. PICK u : u = [by |-> p, what |-> c]
      OBVIOUS
    <3>8. ~missed /\ seated = Player /\ Awaited'
      BY <2>8, <3>1 DEF Play, Broadcast, Awaited
    <3>3. u \in Updates /\ u.by = p /\ u.what = c /\ relayed'[p] = Append(s, u) /\ relayed'[q] = Append(r, u)
      BY <2>7, <3>1, <3>2, <3>8
    <3>4. board'[p] = ApplyMove(b, c, MarkOf(p)) /\ board'[q] = o
      BY <2>1, <2>2, <3>1 DEF GameInv, GameTyped
    <3>5. Legal(b, c) /\ b[c] = "-" /\ TurnOf(b) = MarkOf(p)
      BY <2>2, <2>8, <3>1 DEF Play, Legal
    <3>6. Balanced(board'[p])
      BY <2>5, <3>4, <3>5, <3>8, TurnPasses
    <3>7. Good(p, board'[p], relayed'[p], board'[q], relayed'[q])
      BY <2>5, <3>3, <3>4, <3>5, <3>8, GoodPlays
    <3>q. QED
      BY <2>5, <2>6, <3>4, <3>6, <3>7, <3>8
  <2>9. CASE PlayAgain(p) /\ ~missed'
    <3>2. PICK u : u = [by |-> p, what |-> 9]
      OBVIOUS
    <3>8. ~missed /\ seated = Player /\ Awaited'
      BY <2>9 DEF PlayAgain, Broadcast, Awaited
    <3>3. u \in Updates /\ u.what = 9 /\ relayed'[p] = Append(s, u) /\ relayed'[q] = Append(r, u)
      BY <2>7, <2>9, <3>2, <3>8 DEF PlayAgain
    <3>4. board'[p] = Empty /\ board'[q] = o /\ WinnerOf(b) # "none"
      BY <2>1, <2>2, <2>9 DEF GameInv, GameTyped, PlayAgain
    <3>7. Good(p, board'[p], relayed'[p], board'[q], relayed'[q])
      BY <2>5, <3>3, <3>4, <3>8, GoodAgain
    <3>q. QED
      BY <2>5, <2>6, <3>4, <3>7, <3>8, EmptyBoard
  <2>10. CASE Receive(p) /\ ~missed'
    <3>1. /\ s # <<>> /\ relayed'[p] = Tail(s) /\ relayed'[q] = r
          /\ board'[p] = Read(p, b, Head(s)) /\ board'[q] = o
      BY <2>1, <2>2, <2>10 DEF Receive, Read, GameInv, GameTyped
    <3>2. ~missed /\ seated' = seated
      BY <2>10 DEF Receive
    <3>3. Balanced(board'[p]) /\ Good(p, board'[p], relayed'[p], board'[q], relayed'[q])
      BY <2>5, <3>1, <3>2, GoodReads
    <3>4. Awaited'
      <4>1. Awaited
        BY <2>5, <3>2
      <4>2. CASE seated # Player
        <5>1. p # "bob"
          BY <2>2, <3>1, <4>1, <4>2 DEF Awaited
        <5>2. board'["bob"] = board["bob"] /\ relayed'["bob"] = relayed["bob"]
          BY <2>1, <2>2, <3>1, <5>1 DEF Player
        <5>q. QED
          BY <3>2, <4>1, <5>2 DEF Awaited
      <4>q. QED
        BY <3>2, <4>2 DEF Awaited
    <3>q. QED
      BY <2>5, <2>6, <3>1, <3>2, <3>3, <3>4
  <2>q. QED
    BY <1>3, <2>3, <2>4, <2>8, <2>9, <2>10
\* the board of the one who comes has been empty all the time, unless something was missed
<1>4. CASE JoinGame
  <2>1. SUFFICES ASSUME ~missed
                 PROVE  GameInv'
    BY <1>1, <1>4 DEF GameInv, JoinGame
  <2>2. board["bob"] = Empty /\ board \in [Player -> Boards] /\ "bob" \in Player
    BY <1>4, <2>1 DEF GameInv, GameTyped, Awaited, JoinGame, Player
  <2>3. board' = [board EXCEPT !["bob"] = Empty] /\ UNCHANGED <<relayed, missed>> /\ seated' = Player
    BY <1>4 DEF JoinGame
  <2>4. board' = board
    BY <2>2, <2>3
  <2>q. QED
    BY <1>1, <2>1, <2>3, <2>4 DEF GameInv, GameOn, FineHere, Awaited
<1>q. QED
  BY <1>2, <1>3, <1>4 DEF GameNext
=============================================================================
