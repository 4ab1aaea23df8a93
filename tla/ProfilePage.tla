----------------------------- MODULE ProfilePage -----------------------------
(***************************************************************************)
(* A profile seen by a visitor: pages/ProfilePage.tsx and useFollow of     *)
(* pages/ProfileActions.tsx, with the connections list of                  *)
(* components/profile/FollowLists.tsx.  One page instance serves every     *)
(* /u/:handle, so what is under way for one profile can answer while       *)
(* another is shown.                                                       *)
(***************************************************************************)
EXTENDS Integers, FiniteSets

CONSTANTS Profiles,    \* account ids of the profiles one can visit
          MaxVisits, MaxToggled, MaxPageFaults

ASSUME ProfilePageConstants ==
  /\ {MaxVisits, MaxToggled, MaxPageFaults} \subseteq Nat
  /\ Profiles \subseteq Nat \ {0} /\ Profiles # {}

VARIABLES
  viewerIn,     \* getStoredUser() # null
  visiting,     \* the profile of the route
  owner,        \* ownerId, 0 before the document is there
  headerCount,  \* followerCount of the header
  pageRead,     \* the document read
  iFollow, baseIFollow,
  edgeRead,     \* the follow state read
  pending, toggle, \* the follow or unfollow under way
  following,    \* the server: whom the visitor follows
  blocked, blockAsk, blockedThere,
  pageDialog,       \* menu, sign-in, report or connections
  follows,      \* the connections read: for whom, or "failed"
  met,          \* history: one of the races named at Meeting happened
  visits, toggledCount, pageFaults

profileVars == <<viewerIn, visiting, owner, headerCount, pageRead, iFollow, baseIFollow, edgeRead, pending, toggle,
              following, blocked, blockAsk, blockedThere, pageDialog, follows, met, visits, toggledCount, pageFaults>>

NoRead == [state |-> "none", edge |-> FALSE]
PageReads == [state : {"none", "sent", "ok", "lost"}, edge : BOOLEAN]
NoToggle == [of |-> 0, next |-> FALSE, state |-> "none"]
Dialogs == {"none", "menu", "auth", "report", "lists"}

ProfilePageTypeOK ==
  /\ {viewerIn, iFollow, baseIFollow, pending, blocked, met} \subseteq BOOLEAN
  /\ visiting \in Profiles /\ owner \in Profiles \cup {0} /\ headerCount \in 0..1
  /\ {pageRead, edgeRead} \subseteq PageReads
  /\ toggle \in {NoToggle} \cup [of : Profiles, next : BOOLEAN, state : {"sent", "ok", "lost"}]
  /\ {following, blockedThere} \subseteq SUBSET Profiles
  /\ blockAsk \in Profiles \cup {0} /\ pageDialog \in Dialogs /\ follows \in Profiles \cup {0}

ProfilePageInitOf(us, them) ==
  /\ viewerIn = us /\ visiting \in {CHOOSE p \in Profiles : \A q \in Profiles : p <= q}
  /\ owner = 0 /\ headerCount = 0 /\ pageRead = [NoRead EXCEPT !.state = "sent"]
  /\ iFollow = FALSE /\ baseIFollow = FALSE /\ edgeRead = NoRead /\ pending = FALSE /\ toggle = NoToggle
  /\ following = them /\ blocked = FALSE /\ blockAsk = 0 /\ blockedThere = {} /\ pageDialog = "none"
  /\ follows = 0 /\ met = FALSE /\ visits = 0 /\ toggledCount = 0 /\ pageFaults = 0

ProfilePageInit == \E us \in BOOLEAN, them \in SUBSET Profiles : ProfilePageInitOf(us, them)

PageFault == pageFaults < MaxPageFaults /\ pageFaults' = pageFaults + 1
FollowVars == <<iFollow, baseIFollow, edgeRead, pending, toggle, following, toggledCount>>
BlockVars == <<blocked, blockAsk, blockedThere>>
Followers(p) == IF p \in following THEN 1 ELSE 0

\* The effect of useFollow: a change of the target or a refresh starts from a stranger.
Stranger(target) ==
  /\ iFollow' = FALSE /\ baseIFollow' = FALSE
  /\ edgeRead' = IF target = 0 \/ ~viewerIn' THEN NoRead ELSE [NoRead EXCEPT !.state = "sent"]

(***************************************************************************)
(* Visiting and loading                                                    *)
(***************************************************************************)
\* blocked, pending and the dialogs belong to the instance and stay.
\* Meeting, moved: a toggle is under way when the profile changes.
Visit(p) ==
  /\ visits < MaxVisits /\ visits' = visits + 1 /\ p # visiting /\ visiting' = p
  /\ owner' = 0 /\ headerCount' = 0 /\ pageRead' = [NoRead EXCEPT !.state = "sent"]
  /\ UNCHANGED viewerIn /\ Stranger(0)
  /\ met' = (met \/ toggle # NoToggle)
  /\ pageDialog' = IF pageDialog = "lists" THEN "none" ELSE pageDialog
  /\ UNCHANGED <<pending, toggle, following, toggledCount, follows, pageFaults, BlockVars>>

PageServed ==
  /\ pageRead.state = "sent"
  /\ \/ pageRead' = [state |-> "ok", edge |-> visiting \in following] /\ UNCHANGED pageFaults
     \/ PageFault /\ pageRead' = [pageRead EXCEPT !.state = "lost"]
  /\ UNCHANGED <<viewerIn, visiting, owner, headerCount, pageDialog, follows, met, visits, FollowVars, BlockVars>>

PageShown ==
  /\ pageRead.state = "ok" /\ pageRead' = NoRead
  /\ owner' = visiting /\ headerCount' = IF pageRead.edge THEN 1 ELSE 0
  /\ UNCHANGED viewerIn /\ Stranger(visiting)
  /\ UNCHANGED <<visiting, pending, toggle, following, toggledCount, pageDialog, follows, met, visits, pageFaults,
                 BlockVars>>

\* A missing handle or no server: no owner, so nothing to follow.
PageFails ==
  /\ pageRead.state = "lost" /\ pageRead' = NoRead
  /\ UNCHANGED <<viewerIn, visiting, owner, headerCount, pageDialog, follows, met, visits, pageFaults, FollowVars,
                 BlockVars>>

EdgeServed ==
  /\ edgeRead.state = "sent"
  /\ \/ edgeRead' = [state |-> "ok", edge |-> owner \in following] /\ UNCHANGED pageFaults
     \/ PageFault /\ edgeRead' = [edgeRead EXCEPT !.state = "lost"]
  /\ UNCHANGED <<viewerIn, visiting, owner, headerCount, pageRead, iFollow, baseIFollow, pending, toggle,
                 following, toggledCount, pageDialog, follows, met, visits, BlockVars>>

EdgeShown ==
  /\ edgeRead.state = "ok" /\ edgeRead' = NoRead
  /\ iFollow' = edgeRead.edge /\ baseIFollow' = edgeRead.edge
  /\ UNCHANGED <<viewerIn, visiting, owner, headerCount, pageRead, pending, toggle, following, toggledCount,
                 pageDialog, follows, met, visits, pageFaults, BlockVars>>

\* Meeting, unread: the visitor stays a stranger whatever the server holds.
EdgeFails ==
  /\ edgeRead.state = "lost" /\ edgeRead' = NoRead /\ met' = TRUE
  /\ UNCHANGED <<viewerIn, visiting, owner, headerCount, pageRead, iFollow, baseIFollow, pending, toggle,
                 following, toggledCount, pageDialog, follows, visits, pageFaults, BlockVars>>

(***************************************************************************)
(* Following                                                               *)
(***************************************************************************)
\* Meeting, early: the toggle does not wait for the follow state to be read.
Toggles ==
  /\ owner # 0 /\ ~pending /\ pageDialog \in {"none", "menu"}
  /\ IF viewerIn
     THEN /\ toggledCount < MaxToggled /\ toggledCount' = toggledCount + 1
          /\ pending' = TRUE /\ iFollow' = ~iFollow
          /\ toggle' = [of |-> owner, next |-> ~iFollow, state |-> "sent"]
          /\ met' = (met \/ edgeRead # NoRead)
          /\ UNCHANGED pageDialog
     ELSE pageDialog' = "auth" /\ UNCHANGED <<toggledCount, pending, iFollow, toggle, met>>
  /\ UNCHANGED <<viewerIn, visiting, owner, headerCount, pageRead, baseIFollow, edgeRead, following, follows,
                 visits, pageFaults, BlockVars>>

Obeyed == IF toggle.next THEN following \cup {toggle.of} ELSE following \ {toggle.of}

\* Meeting, lost: an answer that does not come back rolls back what the server may have done.
ToggleServed ==
  /\ toggle.state = "sent"
  /\ \/ following' = Obeyed /\ toggle' = [toggle EXCEPT !.state = "ok"] /\ UNCHANGED <<met, pageFaults>>
     \/ PageFault /\ toggle' = [toggle EXCEPT !.state = "lost"] /\ UNCHANGED <<following, met>>
     \/ PageFault /\ toggle' = [toggle EXCEPT !.state = "lost"] /\ following' = Obeyed /\ met' = TRUE
  /\ UNCHANGED <<viewerIn, visiting, owner, headerCount, pageRead, iFollow, baseIFollow, edgeRead, pending,
                 toggledCount, pageDialog, follows, visits, BlockVars>>

faulty_ToggleAnswers ==
  /\ toggle.state \in {"ok", "lost"} /\ toggle' = NoToggle /\ pending' = FALSE
  /\ UNCHANGED <<viewerIn, visiting, owner, headerCount, pageRead, iFollow, baseIFollow, edgeRead, following,
                 toggledCount, pageDialog, follows, met, visits, pageFaults, BlockVars>>

ToggleAnswers ==
  /\ toggle.state \in {"ok", "lost"} /\ toggle' = NoToggle /\ pending' = FALSE
  /\ iFollow' = IF toggle.state = "ok" THEN iFollow ELSE ~toggle.next
  /\ UNCHANGED <<viewerIn, visiting, owner, headerCount, pageRead, baseIFollow, edgeRead, following,
                 toggledCount, pageDialog, follows, met, visits, pageFaults, BlockVars>>

(***************************************************************************)
(* Menu, sign-in, block, report and connections                            *)
(***************************************************************************)
Shows(d) ==
  /\ pageDialog' = d
  /\ UNCHANGED <<viewerIn, visiting, owner, headerCount, pageRead, met, visits, pageFaults, FollowVars>>

OpenMenu == pageDialog = "none" /\ Shows("menu") /\ UNCHANGED <<follows, BlockVars>>
Dismiss == pageDialog # "none" /\ Shows("none") /\ UNCHANGED <<follows, BlockVars>>

BlockUser ==
  /\ pageDialog = "menu"
  /\ IF owner = 0 \/ blocked THEN Shows("none") /\ UNCHANGED blockAsk
     ELSE IF ~viewerIn THEN Shows("auth") /\ UNCHANGED blockAsk
     ELSE blockAsk = 0 /\ blockAsk' = owner /\ Shows("none")
  /\ UNCHANGED <<follows, blocked, blockedThere>>

\* The answer marks the page, whoever is on it by now; a failure leaves the item for another try.
BlockAnswers ==
  /\ blockAsk # 0 /\ blockAsk' = 0
  /\ \/ blockedThere' = blockedThere \cup {blockAsk} /\ blocked' = TRUE
     \/ UNCHANGED <<blocked, blockedThere>>
  /\ Shows(pageDialog) /\ UNCHANGED follows

OpenPageReport ==
  /\ pageDialog = "menu"
  /\ Shows(IF owner = 0 THEN "none" ELSE IF viewerIn THEN "report" ELSE "auth")
  /\ UNCHANGED <<follows, BlockVars>>

\* The state is read again after signing in while the page was read as a guest.
SignsIn ==
  /\ pageDialog = "auth" /\ pageDialog' = "none" /\ viewerIn' = TRUE /\ Stranger(owner)
  /\ UNCHANGED <<visiting, owner, headerCount, pageRead, pending, toggle, following, toggledCount, follows, met,
                 visits, pageFaults, BlockVars>>

\* The connections modal reads on opening, drops the answer of another profile and keeps a failure.
OpenLists == owner # 0 /\ pageDialog = "none" /\ Shows("lists") /\ follows' = 0 /\ UNCHANGED BlockVars
ListsLoad == pageDialog = "lists" /\ owner # 0 /\ follows' = owner /\ Shows("lists") /\ UNCHANGED BlockVars

ProfilePageNext ==
  \/ \E p \in Profiles : Visit(p)
  \/ PageServed \/ PageShown \/ PageFails \/ EdgeServed \/ EdgeShown \/ EdgeFails
  \/ Toggles \/ ToggleServed \/ ToggleAnswers
  \/ OpenMenu \/ Dismiss \/ BlockUser \/ BlockAnswers \/ OpenPageReport \/ SignsIn \/ OpenLists \/ ListsLoad

-----------------------------------------------------------------------------
(***************************************************************************)
(* FollowIsTrue: once nothing about the profile is under way, the button   *)
(* shows the edge the server holds and the header counts it exactly once,  *)
(* however often it was toggled, refused or signed in for; except after    *)
(* one of the meetings named above (ProfileActions.tsx:39-105,             *)
(* ProfilePage.tsx:53-93).                                                 *)
(***************************************************************************)
countDelta == IF iFollow = baseIFollow THEN 0 ELSE IF iFollow THEN 1 ELSE -1

FollowIsTrue ==
  (viewerIn /\ owner # 0 /\ edgeRead = NoRead /\ toggle = NoToggle /\ ~met) =>
    /\ iFollow = (owner \in following)
    /\ headerCount + countDelta = Followers(owner)
=============================================================================
