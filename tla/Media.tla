------------------------------- MODULE Media -------------------------------
(***************************************************************************)
(* useMedia: the camera and the microphone of the page.  Acquisitions and  *)
(* device switches await the browser, several at once; devices come and    *)
(* go; the user mutes.  A stream is a function from kind to track, Null is *)
(* streamRef.current = null.                                               *)
(***************************************************************************)
EXTENDS Naturals, Sequences, FiniteSets

CONSTANTS Acquirers,   \* calls of ensureStream and switchDevice that may be under way
          Cameras, Mics,
          MaxAcquires, MaxPlugs, MaxToggles

ASSUME MediaBounds ==
  /\ Cameras \cup Mics \subseteq Nat \ {0}
  /\ {MaxAcquires, MaxPlugs, MaxToggles} \subseteq Nat

VARIABLES
  plugged,            \* per kind, the devices that are there
  picked,             \* videoIdRef and audioIdRef, 0 for ''
  stream, muted, cameraOn, acquiring,
  mediaFailed,        \* errorCode is set
  deviceLost,
  capable,            \* getUserMedia exists and the context is secure
  changed,            \* a devicechange event is being handled
  call,               \* per acquirer
  mediaGone,          \* the hook was unmounted
  mediaOps,           \* how often the bounded actions fired
  leaked, overlapped  \* a live track nothing refers to; calls overlapped (histories)

mediaVars == <<plugged, picked, stream, muted, cameraOn, acquiring, mediaFailed, deviceLost,
               capable, changed, call, mediaGone, mediaOps, leaked, overlapped>>
fixedVars == <<plugged, muted, cameraOn, capable, changed, mediaGone>>

Kind == {"video", "audio"}
DevicesOf == [video |-> Cameras, audio |-> Mics]
Choice == [video : Cameras \cup {0}, audio : Mics \cup {0}]
Null == <<>>
Track(d, on) == [dev |-> d, live |-> TRUE, on |-> on]
Wanted == [video |-> cameraOn, audio |-> ~muted]
NoCall == [at |-> "idle"]
Busy(k) == call[k] # NoCall

\* tr is one of the tracks getUserMedia hands out
IsTrack(kd, tr) == tr.dev \in DevicesOf[kd] /\ {tr.live, tr.on} \subseteq BOOLEAN

MediaTypeOK ==
  /\ \A kd \in Kind : plugged[kd] \subseteq DevicesOf[kd]
  /\ picked \in Choice
  /\ stream = Null \/ (DOMAIN stream = Kind /\ \A kd \in Kind : IsTrack(kd, stream[kd]))
  /\ {muted, cameraOn, acquiring, mediaFailed, capable, changed, mediaGone, leaked,
      overlapped} \subseteq BOOLEAN
  /\ deviceLost \in Kind \cup {"none"}
  /\ \A k \in Acquirers : call[k].at \in {"idle", "try", "list", "other", "switch"}

MediaInit ==
  /\ plugged = DevicesOf /\ stream = Null
  /\ picked \in {[video |-> 0, audio |-> 0]} \cup {[video |-> v, audio |-> 0] : v \in Cameras}
  /\ muted = FALSE /\ cameraOn = TRUE /\ acquiring = FALSE /\ mediaFailed = FALSE
  /\ deviceLost = "none" /\ capable \in BOOLEAN /\ changed = FALSE
  /\ call = [k \in Acquirers |-> NoCall]
  /\ mediaGone = FALSE /\ mediaOps = [acquire |-> 0, plug |-> 0, toggle |-> 0]
  /\ leaked = FALSE /\ overlapped = FALSE

Counted(op, bound) == mediaOps[op] < bound /\ mediaOps' = [mediaOps EXCEPT ![op] = @ + 1]
LiveStream == stream # Null /\ \E kd \in Kind : stream[kd].live

(***************************************************************************)
(* Acquiring both devices                                                  *)
(***************************************************************************)
\* the stream that is there already is what was asked for
Matches(want) ==
  stream # Null /\ \A kd \in Kind : stream[kd].live /\ want[kd] \in {0, stream[kd].dev}

\* preferred, soft and, when no device is locked, loose
Attempts(want) == IF \E kd \in Kind : want[kd] # 0 THEN <<"exact", "any">>
                                                     ELSE <<"exact", "any", "any">>

\* what a getUserMedia with these constraints may return
Suits(mode, want, d) ==
  \A kd \in Kind : d[kd] \in plugged[kd] /\ (mode = "exact" => want[kd] \in {0, d[kd]})

\* the tracks of streamRef are stopped before every attempt
faulty_Acquire(k, want, force) ==
  /\ picked' = want
  /\ IF ~force /\ Matches(want)
     THEN call' = [call EXCEPT ![k] = NoCall] /\ UNCHANGED <<stream, acquiring, mediaFailed>>
     ELSE /\ mediaFailed' = ~capable /\ acquiring' = capable
          /\ IF capable
             THEN /\ call' = [call EXCEPT ![k] = [at |-> "try", want |-> want, modes |-> Attempts(want)]]
                  /\ UNCHANGED stream
             ELSE call' = [call EXCEPT ![k] = NoCall] /\ UNCHANGED stream

Acquire(k, want, force) ==
  /\ picked' = want
  /\ IF ~force /\ Matches(want)
     THEN call' = [call EXCEPT ![k] = NoCall] /\ UNCHANGED <<stream, acquiring, mediaFailed>>
     ELSE /\ mediaFailed' = ~capable /\ acquiring' = capable
          /\ IF capable
             THEN /\ call' = [call EXCEPT ![k] = [at |-> "try", want |-> want, modes |-> Attempts(want)]]
                  /\ stream' = Null
             ELSE call' = [call EXCEPT ![k] = NoCall] /\ UNCHANGED stream

Starts(k) ==
  /\ ~mediaGone /\ ~Busy(k) /\ Counted("acquire", MaxAcquires)
  /\ overlapped' = (overlapped \/ \E j \in Acquirers : Busy(j))
  /\ UNCHANGED <<fixedVars, deviceLost, leaked>>

EnsureStream(k) == Starts(k) /\ \E force \in BOOLEAN : Acquire(k, picked, force)

\* publishStream: flags applied, tracks watched.  What streamRef held is not stopped here.
Publish(d) ==
  /\ stream' = [kd \in Kind |-> Track(d[kd], Wanted[kd])]
  /\ deviceLost' = "none"
  /\ leaked' = (leaked \/ LiveStream \/ mediaGone)

Done(k) == call' = [call EXCEPT ![k] = NoCall] /\ acquiring' = FALSE

Granted(k) ==
  /\ call[k].at = "try"
  /\ \E d \in [video : plugged.video, audio : plugged.audio] :
       Suits(Head(call[k].modes), call[k].want, d) /\ Publish(d)
  /\ Done(k) /\ mediaFailed' = FALSE
  /\ UNCHANGED <<fixedVars, picked, mediaOps, overlapped>>

\* permission and security errors end the attempts; the other cameras are still tried
Denied(k) ==
  /\ call[k].at = "try"
  /\ \/ call' = [call EXCEPT ![k] = [at |-> "list", want |-> @.want]] /\ UNCHANGED stream
     \/ /\ Len(call[k].modes) > 1
        /\ call' = [call EXCEPT ![k].modes = Tail(@)] /\ stream' = Null
  /\ UNCHANGED <<fixedVars, picked, acquiring, mediaFailed, deviceLost, mediaOps, leaked, overlapped>>

GivesUp(k) == Done(k) /\ mediaFailed' = TRUE /\ UNCHANGED stream

TryOther(k, cams) ==
  IF cams = {} THEN GivesUp(k)
  ELSE /\ call' = [call EXCEPT ![k] = [at |-> "other", want |-> @.want, cams |-> cams]]
       /\ stream' = Null /\ UNCHANGED <<acquiring, mediaFailed>>

\* the cameras there are, but for the one that has just failed
ListCameras(k) ==
  /\ call[k].at = "list"
  /\ TryOther(k, plugged.video \ {call[k].want.video})
  /\ UNCHANGED <<fixedVars, picked, deviceLost, mediaOps, leaked, overlapped>>

FirstOf(cams) == CHOOSE c \in cams : \A d \in cams : c <= d

OtherGranted(k) ==
  LET cam == FirstOf(call[k].cams) IN
  /\ call[k].at = "other" /\ cam \in plugged.video
  /\ \E m \in plugged.audio : Publish([video |-> cam, audio |-> m])
  /\ picked' = [picked EXCEPT !.video = cam]
  /\ Done(k) /\ mediaFailed' = FALSE
  /\ UNCHANGED <<fixedVars, mediaOps, overlapped>>

OtherDenied(k) ==
  /\ call[k].at = "other"
  /\ TryOther(k, call[k].cams \ {FirstOf(call[k].cams)})
  /\ UNCHANGED <<fixedVars, picked, deviceLost, mediaOps, leaked, overlapped>>

(***************************************************************************)
(* Switching one device                                                    *)
(***************************************************************************)
SwitchDevice(k) ==
  \E kd \in Kind : \E id \in DevicesOf[kd] \cup {0} :
    LET want == [picked EXCEPT ![kd] = id] IN
    /\ Starts(k)
    /\ IF stream = Null THEN Acquire(k, want, FALSE)
       ELSE /\ picked' = want /\ acquiring' = TRUE /\ mediaFailed' = FALSE
            /\ call' = [call EXCEPT ![k] = [at |-> "switch", want |-> want, kind |-> kd]]
            /\ UNCHANGED stream

\* the new track takes the old one's place in whatever streamRef holds by now;
\* when that is null the code throws and acquires both devices, and the track
\* it had just opened stays open
SwitchGranted(k) ==
  LET kd == call[k].kind IN
  /\ call[k].at = "switch"
  /\ \E d \in plugged[kd] :
       /\ call[k].want[kd] \in {0, d}
       /\ \/ /\ stream # Null
             /\ stream' = [stream EXCEPT ![kd] = Track(d, Wanted[kd])]
             /\ deviceLost' = "none" /\ Done(k) /\ UNCHANGED <<picked, mediaFailed, leaked>>
          \/ /\ stream = Null
             /\ leaked' = TRUE /\ Acquire(k, call[k].want, FALSE) /\ UNCHANGED deviceLost
  /\ UNCHANGED <<fixedVars, mediaOps, overlapped>>

SwitchDenied(k) ==
  /\ call[k].at = "switch"
  /\ Acquire(k, call[k].want, FALSE)
  /\ UNCHANGED <<fixedVars, deviceLost, mediaOps, leaked, overlapped>>

(***************************************************************************)
(* Devices, the user, unmounting                                           *)
(***************************************************************************)
\* a device that goes ends its track: onended
Unplug ==
  \E kd \in Kind : \E d \in plugged[kd] :
    LET hit == stream # Null /\ stream[kd].dev = d /\ stream[kd].live IN
    /\ Counted("plug", MaxPlugs)
    /\ plugged' = [plugged EXCEPT ![kd] = @ \ {d}]
    /\ stream' = IF hit THEN [stream EXCEPT ![kd].live = FALSE] ELSE stream
    /\ deviceLost' = IF hit THEN kd ELSE deviceLost
    /\ changed' = TRUE
    /\ UNCHANGED <<picked, muted, cameraOn, acquiring, mediaFailed, capable, call, mediaGone,
                   leaked, overlapped>>

\* devicechange: a selection that no longer exists becomes the default
DeviceChange ==
  /\ changed /\ ~mediaGone /\ changed' = FALSE
  /\ picked' = [kd \in Kind |-> IF picked[kd] \in plugged[kd] THEN picked[kd] ELSE 0]
  /\ UNCHANGED <<plugged, stream, muted, cameraOn, acquiring, mediaFailed, deviceLost, capable,
                 call, mediaGone, mediaOps, leaked, overlapped>>

\* setMutedTrack and setCameraTrack
Flip(kd) == stream' = IF stream = Null THEN Null ELSE [stream EXCEPT ![kd].on = ~Wanted[kd]]

Toggle ==
  /\ Counted("toggle", MaxToggles)
  /\ \/ muted' = ~muted /\ Flip("audio") /\ UNCHANGED cameraOn
     \/ cameraOn' = ~cameraOn /\ Flip("video") /\ UNCHANGED muted
  /\ UNCHANGED <<plugged, picked, acquiring, mediaFailed, deviceLost, capable, changed, call,
                 mediaGone, leaked, overlapped>>

\* the cleanup of the effect: stopStream
Unmount ==
  /\ ~mediaGone /\ mediaGone' = TRUE
  /\ stream' = Null
  /\ overlapped' = (overlapped \/ \E j \in Acquirers : Busy(j))
  /\ UNCHANGED <<plugged, picked, muted, cameraOn, acquiring, mediaFailed, deviceLost, capable,
                 changed, call, mediaOps, leaked>>

MediaNext ==
  \/ \E k \in Acquirers :
       \/ EnsureStream(k) \/ Granted(k) \/ Denied(k) \/ ListCameras(k) \/ OtherGranted(k)
       \/ OtherDenied(k) \/ SwitchDevice(k) \/ SwitchGranted(k) \/ SwitchDenied(k)
  \/ Unplug \/ DeviceChange \/ Toggle \/ Unmount

MediaSpec == MediaInit /\ [][MediaNext]_mediaVars

(***************************************************************************)
(* Properties                                                              *)
(***************************************************************************)
\* Every open camera and microphone is the one streamRef refers to, so that stop,
\* mute and unmount reach it, as long as no two acquisitions overlapped and none
\* was under way at the unmount (useMedia.ts:213-218, 301-307, 392-396).
DevicesOwned == leaked => overlapped

\* Muting and switching the camera off outlive every reacquisition and switch: a
\* muted microphone is never opened live again (useMedia.ts:79-86, 103-109, 314).
MuteHolds == stream # Null => \A kd \in Kind : stream[kd].on = Wanted[kd]
=============================================================================
