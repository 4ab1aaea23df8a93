----------------------------- MODULE CallStage -----------------------------
(***************************************************************************)
(* Who is shown where in a group call, and who holds the floor:            *)
(* hooks/useSpeakerFocus.ts over utils/audioLevels.ts, and the layouts of  *)
(* components/VideoStage.tsx.  Levels are percentages.                     *)
(***************************************************************************)
EXTENDS Integers, FiniteSets

CONSTANTS Speakers,     \* remote participants; 0 is our own tile
          Loudness,     \* levels a microphone can have
          HoldSamples,  \* MIN_HOLD_MS in samples; 9 in the code
          MaxLevelSamples, MaxJoins

ASSUME StageConstants ==
  /\ {-1, 0} \cap Speakers = {} /\ Loudness \subseteq 0 .. 100 /\ 0 \in Loudness
  /\ {HoldSamples, MaxLevelSamples, MaxJoins} \subseteq Nat

VARIABLES
  present,    \* groupPeers
  streaming,  \* those whose stream has come, ours included
  metered,    \* entries of the meter: an entry outlives its participant
  smooth,     \* smoothed level per entry
  floor,      \* activeId, -1 for null
  held,       \* samples since it last changed
  pinned,     \* pinnedId, -1 for null
  levelSamples, joins

stageVars == <<present, streaming, metered, smooth, floor, held, pinned, levelSamples, joins>>

Nobody == -1
Ours == 0
SpeechOn == 14
SpeechOff == 8

StageTypeOK ==
  /\ streaming \subseteq present \cup {Ours} /\ present \subseteq Speakers
  /\ metered \cup DOMAIN smooth \subseteq Speakers \cup {Ours}
  /\ \A p \in DOMAIN smooth : smooth[p] \in 0 .. 100
  /\ {floor, pinned} \subseteq Speakers \cup {Nobody, Ours} /\ held \in 0 .. HoldSamples
  /\ levelSamples \in 0 .. MaxLevelSamples /\ joins \in 0 .. MaxJoins

StageInit ==
  /\ present = {} /\ streaming = {} /\ metered = {} /\ smooth = [p \in {} |-> 0]
  /\ floor = Nobody /\ held = HoldSamples /\ pinned = Nobody /\ levelSamples = 0 /\ joins = 0

(***************************************************************************)
(* The tiles                                                               *)
(***************************************************************************)
Tiles == IF present = {} THEN {} ELSE present \cup {Ours}

\* a remote tile with a stream, else one with a stream, else the first
Fallback ==
  IF streaming # {} /\ streaming # {Ours} THEN CHOOSE p \in streaming : p # Ours
  ELSE IF Ours \in streaming THEN Ours ELSE CHOOSE p \in present : TRUE

MainId == IF pinned # Nobody THEN pinned ELSE IF floor # Nobody THEN floor ELSE Fallback

\* mainTile: none while the floor is with somebody who has no tile any more
MainTiles == {MainId} \cap Tiles

(***************************************************************************)
(* The call                                                                *)
(***************************************************************************)
\* the first participant makes it a group call, and our own microphone is metered from then
Joins(p) ==
  /\ p \notin present /\ joins < MaxJoins /\ joins' = joins + 1
  /\ present' = present \cup {p}
  /\ IF present # {} THEN metered' = metered \ {p}
     ELSE \E sound \in BOOLEAN : metered' = {q \in streaming : sound}
  /\ UNCHANGED <<streaming, smooth, floor, held, pinned, levelSamples>>

\* setStream: a stream with sound gets an entry, null takes it away
StreamComes(p) ==
  /\ p \in (present \cup {Ours}) \ streaming /\ streaming' = streaming \cup {p}
  /\ \E sound \in BOOLEAN :
       metered' = (IF sound /\ present # {} THEN metered \cup {p} ELSE metered)
  /\ UNCHANGED <<present, smooth, floor, held, pinned, levelSamples, joins>>

StreamGoes(p) ==
  /\ p \in streaming
  /\ streaming' = streaming \ {p} /\ metered' = metered \ {p}
  /\ UNCHANGED <<present, smooth, floor, held, pinned, levelSamples, joins>>

faulty_Leaves(p) ==
  /\ p \in present /\ present' = present \ {p}
  /\ IF present = {p}
     THEN /\ metered' = {} /\ smooth' = [q \in {} |-> 0] /\ floor' = Nobody /\ pinned' = Nobody
     ELSE /\ pinned' = (IF pinned = p THEN Nobody ELSE pinned)
          /\ UNCHANGED <<metered, smooth, floor>>
  /\ UNCHANGED <<streaming, held, levelSamples, joins>>

\* nobody tells the meter; with the last one the call is no group call: everything is reset
Leaves(p) ==
  /\ p \in present /\ present' = present \ {p} /\ streaming' = streaming \ {p}
  /\ IF present = {p}
     THEN /\ metered' = {} /\ smooth' = [q \in {} |-> 0] /\ floor' = Nobody /\ pinned' = Nobody
     ELSE /\ pinned' = (IF pinned = p THEN Nobody ELSE pinned)
          /\ UNCHANGED <<metered, smooth, floor>>
  /\ UNCHANGED <<held, levelSamples, joins>>

Pin(p) ==
  /\ p \in Tiles /\ pinned' = (IF pinned = p THEN Nobody ELSE p)
  /\ UNCHANGED <<present, streaming, metered, smooth, floor, held, levelSamples, joins>>

(***************************************************************************)
(* The floor                                                               *)
(***************************************************************************)
Smoothed(prev, level) ==
  IF level > prev THEN prev + ((level - prev) * 55) \div 100 ELSE prev - ((prev - level) * 18) \div 100

LevelOf(s, p) == IF p \in DOMAIN s THEN s[p] ELSE 0
Audible(s, p) == p # Nobody /\ LevelOf(s, p) >= SpeechOff

\* the election of one sample, best is the loudest entry
faulty_Elected(s, best) ==
  LET strong == /\ best \notin {Nobody, floor} /\ LevelOf(s, best) >= SpeechOn
                /\ Audible(s, floor) => 10 * LevelOf(s, best) >= 13 * LevelOf(s, floor)
  IN IF floor = Nobody THEN IF LevelOf(s, best) >= SpeechOn THEN best ELSE Nobody
     ELSE IF strong /\ held >= HoldSamples THEN best ELSE floor

Elected(s, best) ==
  LET strong == /\ best \notin {Nobody, floor} /\ LevelOf(s, best) >= SpeechOn
                /\ Audible(s, floor) => 10 * LevelOf(s, best) >= 13 * LevelOf(s, floor)
  IN IF floor = Nobody THEN IF LevelOf(s, best) >= SpeechOn THEN best ELSE Nobody
     ELSE IF strong /\ (held >= HoldSamples \/ ~Audible(s, floor)) THEN best
     ELSE IF floor \notin DOMAIN s THEN best ELSE floor

Loudest(s) ==
  LET loud == {p \in DOMAIN s : s[p] > 0 /\ \A q \in DOMAIN s : s[p] >= s[q]}
  IN IF loud = {} THEN {Nobody} ELSE loud

SampleLevels ==
  /\ present # {} /\ levelSamples < MaxLevelSamples /\ levelSamples' = levelSamples + 1
  /\ \E raw \in [metered -> Loudness] :
       /\ \A p \in metered \ streaming : raw[p] = 0
       /\ smooth' = [p \in metered |-> Smoothed(LevelOf(smooth, p), raw[p])]
  /\ \E best \in Loudest(smooth') : floor' = Elected(smooth', best)
  /\ held' = (IF floor' # floor THEN 0 ELSE IF held < HoldSamples THEN held + 1 ELSE held)
  /\ UNCHANGED <<present, streaming, metered, pinned, joins>>

StageNext ==
  \/ \E p \in Speakers : Joins(p) \/ Leaves(p)
  \/ \E p \in Speakers \cup {Ours} : StreamComes(p) \/ StreamGoes(p) \/ Pin(p)
  \/ SampleLevels

StageSpec == StageInit /\ [][StageNext]_stageVars

(***************************************************************************)
(* Properties                                                              *)
(***************************************************************************)
\* "keeps focus while audible" (useSpeakerFocus.ts:26): whenever a level says that somebody
\* speaks, the floor is with a level that can be heard, whatever the hold time says and
\* however streams come and go between the samples.  Somebody who left is not taken out of
\* the meter: the floor may be with the level that fades behind them.
FloorIsHeard ==
  (\E p \in DOMAIN smooth : smooth[p] >= SpeechOn) => Audible(smooth, floor)

\* The spotlight has a tile to show, and gives way to the sides only while nothing is pinned
\* and the floor is with somebody who left (VideoStage.tsx:318-326): a pin never outlives
\* its tile, and the floor no sample of its level.
SpotlightHolds ==
  present # {} /\ MainTiles = {} => pinned = Nobody /\ floor \in DOMAIN smooth \ Tiles
=============================================================================
