---------------------------- MODULE CallControls ----------------------------
(***************************************************************************)
(* The controls of a 1:1 call and what they reach: the stranger's tile and *)
(* its menu (hooks/useTileMenu.ts, components/PeerTileActions.tsx), the    *)
(* call bar's menus (components/CallBar.tsx), the call keys                *)
(* (hooks/useCallKeyboard.ts), the report and block handlers of         *)
(* App.tsx, and the partner they find at the server.  Clicks and frames    *)
(* cross: the page and the server may see different strangers.             *)
(***************************************************************************)
EXTENDS Integers, Sequences

CONSTANTS Strangers,    \* account ids, 1 and up
          Guests,       \* the strangers who are not signed in
          MaxMeetings,
          MaxOrders, MaxNotices     \* frames on their way, each direction

ASSUME ControlsConstants ==
  /\ Guests \subseteq Strangers /\ Strangers \subseteq Nat \ {0}
  /\ {MaxMeetings, MaxOrders, MaxNotices} \subseteq Nat

VARIABLES
  partner,      \* the server's partner of this socket, 0 for none
  queued,       \* the socket is in the server's queue
  orders,       \* frames on their way to the server
  notices,      \* frames on their way to the page
  phase,        \* finding, matched
  requeues,     \* running requeue timers
  peer,         \* the stranger on the tile
  signedIn,     \* user # null
  tileMenu,     \* useTileMenu.menuOpen
  finger,       \* pressTimer and longPressed
  barMenu,      \* CallBar.menu is open
  dialog,       \* reportOpen, rateRoomId
  target,       \* reportTarget, 0 for undefined
  aim,          \* history: the stranger whose tile was reported
  hits,         \* history: [aim, hit] of the reports and blocks the server stored
  meetings      \* matches made

controlsVars == <<partner, queued, orders, notices, phase, requeues, peer, signedIn,
                  tileMenu, finger, barMenu, dialog, target, aim, hits, meetings>>

wire == <<partner, queued, orders, notices, meetings>>
gestures == <<tileMenu, finger, barMenu>>

AsId(s) == IF s \in Guests THEN 0 ELSE s
Somebody == Strangers \cup {0}
Order == [kind : {"next", "leave"}] \cup [kind : {"report", "block"}, id : Somebody, aim : Strangers]
Notice == [kind : {"left", "matched"}, who : Somebody] \cup [kind : {"ack"}]
Hit == [aim : Strangers, hit : Somebody]

ControlsTypeOK ==
  /\ partner \in Somebody /\ queued \in BOOLEAN /\ (queued => partner = 0)
  /\ orders \in Seq(Order) /\ notices \in Seq(Notice)
  /\ phase \in {"idle", "finding", "matched"} /\ requeues \in Nat /\ peer \in Somebody
  /\ signedIn \in BOOLEAN /\ tileMenu \in BOOLEAN /\ finger \in {"up", "pressed", "long"}
  /\ barMenu \in BOOLEAN /\ dialog \in {"none", "report", "rating"}
  /\ target \in Somebody /\ aim \in Somebody
  /\ hits \subseteq Hit /\ meetings \in 0 .. MaxMeetings

ControlsInit ==
  /\ partner = 0 /\ queued = TRUE /\ orders = <<>> /\ notices = <<>> /\ phase = "finding"
  /\ requeues = 0 /\ peer = 0 /\ signedIn \in BOOLEAN /\ tileMenu = FALSE
  /\ finger = "up" /\ barMenu = FALSE /\ dialog = "none" /\ target = 0 /\ aim = 0
  /\ hits = {} /\ meetings = 0

(***************************************************************************)
(* The server                                                              *)
(***************************************************************************)
ServerMeets(s) ==
  /\ queued /\ meetings < MaxMeetings
  /\ partner' = s /\ queued' = FALSE /\ meetings' = meetings + 1
  /\ notices' = Append(notices, [kind |-> "matched", who |-> s])
  /\ UNCHANGED <<orders, phase, requeues, peer, signedIn, gestures, dialog, target, aim, hits>>

PartnerLeaves ==
  /\ partner # 0 /\ partner' = 0
  /\ notices' = Append(notices, [kind |-> "left", who |-> partner])
  /\ UNCHANGED <<queued, orders, meetings, phase, requeues, peer, signedIn,
                 gestures, dialog, target, aim, hits>>

\* with an id: honoured only for the partner; without: the partner, if signed in
resolve_target(id) ==
  CASE id = 0 -> AsId(partner)
    [] id # 0 /\ id = AsId(partner) -> id
    [] OTHER -> 0

Executes ==
  /\ orders # <<>> /\ Len(notices) < MaxNotices /\ orders' = Tail(orders)
  /\ LET o == Head(orders) IN
     CASE o.kind = "next" ->
            partner' = 0 /\ queued' = TRUE /\ UNCHANGED <<notices, hits>>
       [] o.kind = "leave" ->
            partner' = 0 /\ queued' = FALSE /\ UNCHANGED <<notices, hits>>
       [] o.kind = "report" ->
            /\ partner' = 0 /\ notices' = Append(notices, [kind |-> "ack"]) /\ UNCHANGED queued
            /\ hits' = hits \cup {[aim |-> o.aim, hit |-> resolve_target(o.id)]}
       [] o.kind = "block" ->
            /\ partner' = 0 /\ notices' = Append(notices, [kind |-> "ack"]) /\ UNCHANGED queued
            /\ hits' = IF signedIn
                          THEN hits \cup {[aim |-> o.aim, hit |-> resolve_target(o.id)]} ELSE hits
  /\ UNCHANGED <<meetings, phase, requeues, peer, signedIn, gestures, dialog,
                 target, aim>>

(***************************************************************************)
(* The page's handlers                                                     *)
(***************************************************************************)
Notified(kind) == notices # <<>> /\ Head(notices).kind = kind /\ notices' = Tail(notices)

\* a match that finds the page no longer searching is refused
OnMatchedTile ==
  /\ Notified("matched")
  /\ IF phase = "finding"
     THEN /\ phase' = "matched" /\ peer' = Head(notices).who /\ UNCHANGED orders
     ELSE /\ orders' = Append(orders, [kind |-> "leave"]) /\ UNCHANGED <<phase, peer>>
  /\ UNCHANGED <<partner, queued, meetings, requeues, signedIn, gestures, dialog, target,
                 aim, hits>>

\* the menu of the tile is not closed, and an open report dialog stays open
OnTileLeft ==
  /\ Notified("left") /\ phase' = "finding" /\ peer' = 0
  /\ requeues' = requeues + 1
  /\ UNCHANGED <<partner, queued, orders, meetings, signedIn, gestures, dialog,
                 target, aim, hits>>

OnAck ==
  /\ Notified("ack") /\ phase' = "idle" /\ peer' = 0
  /\ UNCHANGED <<partner, queued, orders, meetings, requeues, signedIn, gestures, dialog,
                 target, aim, hits>>

\* the timer is not cancelled by what the user does meanwhile
RequeueTimer ==
  /\ requeues > 0 /\ Len(orders) < MaxOrders /\ requeues' = requeues - 1 /\ orders' = Append(orders, [kind |-> "next"])
  /\ UNCHANGED <<partner, queued, notices, meetings, phase, peer, signedIn, gestures,
                 dialog, target, aim, hits>>

(***************************************************************************)
(* The tile's menu and what its items do; a press anywhere outside the     *)
(* call bar closes the bar's menu                                          *)
(***************************************************************************)
TileShown == phase = "matched" /\ dialog = "none"
onPage == <<phase, requeues, peer>>
reporting == <<dialog, target, aim>>

PressTile ==
  /\ finger = "up" /\ TileShown /\ finger' = "pressed" /\ barMenu' = FALSE
  /\ UNCHANGED <<wire, onPage, signedIn, tileMenu, reporting, hits>>

\* LONG_PRESS_MS later; the match may have ended under the finger
HoldTile ==
  /\ finger = "pressed" /\ finger' = "long" /\ tileMenu' = ~tileMenu
  /\ UNCHANGED <<wire, onPage, signedIn, barMenu, reporting, hits>>

\* the click after a hold is swallowed; a click otherwise closes the menu
LiftFinger ==
  /\ finger # "up" /\ finger' = "up"
  /\ tileMenu' = IF finger = "long" THEN tileMenu ELSE FALSE
  /\ UNCHANGED <<wire, onPage, signedIn, barMenu, reporting, hits>>

MenuButton ==
  /\ TileShown /\ finger = "up" /\ tileMenu' = ~tileMenu /\ barMenu' = FALSE
  /\ UNCHANGED <<wire, onPage, signedIn, finger, reporting, hits>>

Item == TileShown /\ tileMenu /\ finger = "up" /\ tileMenu' = FALSE /\ barMenu' = FALSE
SignedPeer == signedIn /\ peer \notin Guests

\* onReportPeer keeps the account of the tile, if it has one
ReportItem ==
  /\ Item /\ dialog' = "report" /\ target' = AsId(peer) /\ aim' = peer
  /\ UNCHANGED <<wire, onPage, signedIn, finger, hits>>

BlockItem ==
  /\ Item /\ SignedPeer /\ Len(orders) < MaxOrders
  /\ orders' = Append(orders, [kind |-> "block", id |-> AsId(peer), aim |-> peer])
  /\ UNCHANGED <<partner, queued, notices, meetings, onPage, signedIn, finger, reporting, hits>>

(***************************************************************************)
(* The report dialog, the call bar and the keys                            *)
(***************************************************************************)
faulty_SubmitReport ==
  /\ dialog = "report" /\ Len(orders) < MaxOrders /\ dialog' = "none" /\ target' = 0 /\ aim' = 0
  /\ orders' = Append(orders, [kind |-> "report", id |-> AsId(peer), aim |-> aim])
  /\ UNCHANGED <<partner, queued, notices, meetings, onPage, signedIn, gestures, hits>>

SubmitReport ==
  /\ dialog = "report" /\ Len(orders) < MaxOrders /\ dialog' = "none" /\ target' = 0 /\ aim' = 0
  /\ orders' = Append(orders, [kind |-> "report", id |-> target, aim |-> aim])
  /\ UNCHANGED <<partner, queued, notices, meetings, onPage, signedIn, gestures, hits>>

\* closing forgets nothing: the next report overwrites the target
CloseDialog ==
  /\ dialog # "none" /\ dialog' = "none" /\ aim' = 0
  /\ UNCHANGED <<wire, onPage, signedIn, gestures, target, hits>>

\* one of its three menus
BarMenuButton ==
  /\ dialog = "none" /\ barMenu' = ~barMenu
  /\ UNCHANGED <<wire, onPage, signedIn, tileMenu, finger, reporting, hits>>

PickBarItem ==
  /\ dialog = "none" /\ barMenu /\ barMenu' = FALSE
  /\ UNCHANGED <<wire, onPage, signedIn, tileMenu, finger, reporting, hits>>

\* session.stop; a call of five seconds or more asks for a rating
Stops ==
  /\ Len(orders) < MaxOrders /\ phase' = "idle" /\ peer' = 0
  /\ orders' = Append(orders, [kind |-> "leave"])
  /\ dialog' \in IF phase = "matched" THEN {"none", "rating"} ELSE {"none"}
  /\ UNCHANGED <<partner, queued, notices, meetings, requeues, signedIn, tileMenu, finger,
                 target, aim, hits>>

StopClick == dialog = "none" /\ phase # "idle" /\ Stops /\ barMenu' = FALSE

\* both listeners hear it: an open menu of the bar closes and the call ends too
EscapeKey ==
  /\ dialog = "none" /\ barMenu' = FALSE
  /\ IF phase # "idle" THEN Stops
     ELSE UNCHANGED <<wire, onPage, signedIn, tileMenu, finger, reporting, hits>>

\* the deck's button, or N while searching
NextClick ==
  /\ dialog = "none" /\ phase # "idle" /\ Len(orders) < MaxOrders
  /\ barMenu' = FALSE /\ phase' = "finding" /\ orders' = Append(orders, [kind |-> "next"])
  /\ UNCHANGED <<partner, queued, notices, meetings, requeues, peer, signedIn,
                 tileMenu, finger, reporting, hits>>

ControlsNext ==
  \/ \E s \in Strangers : ServerMeets(s)
  \/ PartnerLeaves \/ Executes \/ OnMatchedTile \/ OnTileLeft \/ OnAck \/ RequeueTimer
  \/ PressTile \/ HoldTile \/ LiftFinger \/ MenuButton \/ ReportItem \/ BlockItem
  \/ SubmitReport \/ CloseDialog \/ BarMenuButton \/ PickBarItem \/ StopClick \/ EscapeKey \/ NextClick

ControlsSpec == ControlsInit /\ [][ControlsNext]_controlsVars

(***************************************************************************)
(* Properties                                                              *)
(***************************************************************************)
\* A report filed, or a block given, from the tile of a signed-in stranger is
\* about that stranger or about nobody, even when another one has come in
\* meanwhile.  (From a guest's tile it goes without an id, and the server
\* takes whoever the partner is by then.)
ReportsHitTheirTile ==
  \A r \in hits : r.aim \notin Guests => r.hit \in {r.aim, 0}
=============================================================================
