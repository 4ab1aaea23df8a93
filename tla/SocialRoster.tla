---------------------------- MODULE SocialRoster ----------------------------
(***************************************************************************)
(* Friends, requests and group members as the social page shows them:      *)
(* the roster and the mutations of hooks/useSocialData.ts under            *)
(* components/social/PeoplePanel.tsx, GroupSheet.tsx and                   *)
(* CreateGroupModal.tsx, and the separate list of                          *)
(* components/FriendManager.tsx.  Every list is a copy of the server's,    *)
(* read by requests that answer in any order.                              *)
(***************************************************************************)
EXTENDS Integers, FiniteSets

CONSTANTS People,       \* accounts a friendship may exist with
          Invitable,    \* accounts that may be members of the group, beside us
          MaxChanges, MaxReads

ASSUME RosterConstants == {MaxChanges, MaxReads} \subseteq Nat

VARIABLES
  place,      \* the list that is mounted: the social page's or FriendManager's
  bond,       \* the server's friendship per account
  shown,      \* the copy on the screen
  shownState, \* rosterState of the page
  reads,      \* list requests under way, with what the server read
  acts,       \* mutations under way; by is where they were asked for
  news,       \* notifications on their way, each a reason to reload the page
  members,    \* the server's members of the group
  listed,     \* the members on the sheet
  memberCount,\* memberCount of the group's row
  sheet,      \* the mutation the sheet is busy with
  raced,      \* history: answers overlapped, one was lost, or nobody told us
  changes, readCount

rosterVars == <<place, bond, shown, shownState, reads, acts, news, members, listed, memberCount, sheet,
                raced, changes, readCount>>

Places == {"page", "manager"}
Bonds == {"none", "incoming", "outgoing", "friend"}
Nothing == [p \in People |-> "none"]
NoAct == [kind |-> "none"]
SheetActs == {NoAct} \cup [kind : {"add", "remove"}, who : Invitable, done : BOOLEAN]

RosterTypeOK ==
  /\ place \in Places /\ {bond, shown} \subseteq [People -> Bonds]
  /\ shownState \in {"loading", "ready", "error"}
  /\ reads \subseteq [saw : {{}} \cup {{b} : b \in [People -> Bonds]}, n : 0 .. MaxReads]
  /\ acts \subseteq [by : Places \cup {"left"}, act : {"request", "accept", "decline", "remove"},
                     who : People, done : BOOLEAN]
  /\ news \in Nat /\ members \subseteq Invitable /\ listed \subseteq Invitable
  /\ memberCount \in Nat /\ sheet \in SheetActs /\ raced \in BOOLEAN
  /\ changes \in 0 .. MaxChanges /\ readCount \in 0 .. MaxReads

RosterInit ==
  /\ place = "manager" /\ bond \in [People -> {"none", "friend"}] /\ shown = bond /\ shownState = "ready"
  /\ reads = {} /\ acts = {} /\ news = 0 /\ members = {} /\ listed = {} /\ memberCount = 1
  /\ sheet = NoAct /\ raced = FALSE /\ changes = 0 /\ readCount = 0

group == <<members, listed, memberCount, sheet>>

(***************************************************************************)
(* Reading the list                                                        *)
(***************************************************************************)
\* loadRoster, loadFriends
Reads ==
  /\ readCount < MaxReads /\ readCount' = readCount + 1
  /\ reads' = reads \cup {[saw |-> {}, n |-> readCount]}
  /\ raced' = (raced \/ reads # {})
  /\ shownState' = IF shownState = "ready" THEN "ready" ELSE "loading"

\* the other list is mounted and read from nothing; old answers have no one to go to
Mounts(v) ==
  /\ v # place /\ place' = v /\ shown' = Nothing /\ readCount < MaxReads /\ readCount' = readCount + 1
  /\ reads' = {[saw |-> {}, n |-> readCount]} /\ shownState' = "loading"
  /\ acts' = {[a EXCEPT !.by = "left"] : a \in {b \in acts : ~b.done}}
  /\ raced' = (acts' # {}) /\ UNCHANGED <<bond, news, group, changes>>

ServerLists(r) ==
  /\ r \in reads /\ r.saw = {} /\ reads' = (reads \ {r}) \cup {[r EXCEPT !.saw = {bond}]}
  /\ UNCHANGED <<place, bond, shown, shownState, acts, news, group, raced, changes, readCount>>

Listed(r) ==
  /\ r \in reads /\ shown' \in r.saw /\ reads' = reads \ {r} /\ shownState' = "ready"
  /\ UNCHANGED <<place, bond, acts, news, group, raced, changes, readCount>>

ListFails(r) ==
  /\ r \in reads /\ reads' = reads \ {r} /\ raced' = TRUE /\ shownState' = "error"
  /\ UNCHANGED <<place, bond, shown, acts, news, group, changes, readCount>>

RetryRoster ==
  /\ shownState = "error" /\ place = "page" /\ Reads
  /\ UNCHANGED <<place, bond, shown, acts, news, group, changes>>

\* friend:request and friend:accepted end in loadRoster, if the page is there
\* to hear them
NewsComes ==
  /\ news > 0 /\ news' = news - 1
  /\ IF place = "page" THEN Reads ELSE UNCHANGED <<reads, readCount, raced, shownState>>
  /\ UNCHANGED <<place, bond, shown, acts, group, changes>>

(***************************************************************************)
(* What we do to a friendship                                              *)
(***************************************************************************)
Allowed(act, b) ==
  CASE act = "request" -> b = "none"
    [] act \in {"accept", "decline"} -> b = "incoming"
    [] act = "remove" -> b = "friend"

After(act, b) ==
  CASE ~Allowed(act, b) -> b
    [] act = "request" -> "outgoing"
    [] act = "accept" -> "friend"
    [] OTHER -> "none"

\* a button of the row
Acts(act, p) ==
  /\ Allowed(act, shown[p]) /\ changes < MaxChanges /\ changes' = changes + 1
  /\ ~\E a \in acts : a.by = place /\ a.who = p
  /\ acts' = acts \cup {[by |-> place, act |-> act, who |-> p, done |-> FALSE]}
  /\ UNCHANGED <<place, bond, shown, shownState, reads, news, group, raced, readCount>>

ServerActs(a) ==
  /\ a \in acts /\ ~a.done /\ bond' = [bond EXCEPT ![a.who] = After(a.act, @)]
  /\ acts' = (acts \ {a}) \cup (IF a.by = "left" THEN {} ELSE {[a EXCEPT !.done = TRUE]})
  /\ UNCHANGED <<place, shown, shownState, reads, news, group, raced, changes, readCount>>

\* The page takes a removed friend off its own copy, and sends a request
\* without reloading; all else reloads the list it was done from.
faulty_Acted(a) ==
  /\ a \in acts /\ a.done /\ acts' = acts \ {a}
  /\ IF place = "page" /\ a.act \in {"remove", "request"}
     THEN raced' = (raced \/ a.act = "request") /\ UNCHANGED <<shown, reads, readCount, shownState>>
     ELSE Reads /\ UNCHANGED shown
  /\ UNCHANGED <<place, bond, news, group, changes>>

Acted(a) ==
  /\ a \in acts /\ a.done /\ acts' = acts \ {a}
  /\ CASE place = "page" /\ a.act = "remove" ->
            /\ shown' = [shown EXCEPT ![a.who] = IF @ = "friend" THEN "none" ELSE @]
            /\ raced' = (raced \/ reads # {}) /\ UNCHANGED <<reads, readCount, shownState>>
       [] place = "page" /\ a.act = "request" ->
            raced' = TRUE /\ UNCHANGED <<shown, reads, readCount, shownState>>
       [] OTHER -> Reads /\ UNCHANGED shown
  /\ UNCHANGED <<place, bond, news, group, changes>>

\* refused or lost: the manager shows an error, the page nothing
ActFails(a) ==
  /\ a \in acts /\ acts' = acts \ {a} /\ raced' = (raced \/ a.done)
  /\ UNCHANGED <<place, bond, shown, shownState, reads, news, group, changes, readCount>>

\* The other one acts.  A request and its acceptance are pushed; nothing in
\* the server sends friend:declined or friend:removed.
OtherActs(p, b) ==
  /\ changes < MaxChanges /\ changes' = changes + 1 /\ bond' = [bond EXCEPT ![p] = b]
  /\ \/ <<bond[p], b>> \in {<<"none", "incoming">>, <<"outgoing", "friend">>}
        /\ news' = news + 1 /\ UNCHANGED raced
     \/ <<bond[p], b>> \in {<<"outgoing", "none">>, <<"friend", "none">>}
        /\ raced' = TRUE /\ UNCHANGED news
  /\ UNCHANGED <<place, shown, shownState, reads, acts, group, readCount>>

(***************************************************************************)
(* The group's sheet: one mutation at a time                               *)
(***************************************************************************)
friends == <<place, bond, shown, shownState, reads, acts, news, raced, readCount>>

\* the sheet is only on the page
SheetStarts(kind, p) ==
  /\ place = "page" /\ sheet = NoAct /\ changes < MaxChanges /\ changes' = changes + 1
  /\ p \in IF kind = "add" THEN Invitable \ listed ELSE listed
  /\ sheet' = [kind |-> kind, who |-> p, done |-> FALSE]
  /\ UNCHANGED <<friends, members, listed, memberCount>>

SheetServed ==
  /\ sheet # NoAct /\ ~sheet.done /\ sheet' = [sheet EXCEPT !.done = TRUE]
  /\ members' = IF sheet.kind = "add" THEN members \cup {sheet.who} ELSE members \ {sheet.who}
  /\ UNCHANGED <<friends, listed, memberCount, changes>>

\* adding takes the answer's list, removing filters the one on the sheet
SheetDone ==
  /\ sheet # NoAct /\ sheet.done /\ sheet' = NoAct
  /\ listed' = IF sheet.kind = "add" THEN members ELSE listed \ {sheet.who}
  /\ memberCount' = Cardinality(listed') + 1
  /\ UNCHANGED <<friends, members, changes>>

SheetFails ==
  /\ sheet # NoAct /\ sheet' = NoAct
  /\ UNCHANGED <<friends, members, listed, memberCount, changes>>

RosterNext ==
  \/ \E r \in reads : ServerLists(r) \/ Listed(r) \/ ListFails(r)
  \/ RetryRoster \/ NewsComes \/ \E v \in Places : Mounts(v)
  \/ \E act \in {"request", "accept", "decline", "remove"}, p \in People : Acts(act, p)
  \/ \E a \in acts : ServerActs(a) \/ Acted(a) \/ ActFails(a)
  \/ \E p \in People, b \in Bonds : OtherActs(p, b)
  \/ \E kind \in {"add", "remove"}, p \in Invitable : SheetStarts(kind, p)
  \/ SheetServed \/ SheetDone \/ SheetFails

RosterSpec == RosterInit /\ [][RosterNext]_rosterVars

(***************************************************************************)
(* Properties                                                              *)
(***************************************************************************)
\* Once everything is answered, the social page shows the friendships the
\* server has, whoever changed them and in whatever order it was told, unless
\* two of its requests overlapped, an answer was lost, a request was sent, or
\* the other one declined or ended it (SocialChat has the cap on notifications).
RosterSettles ==
  place = "page" /\ ~raced /\ reads = {} /\ acts = {} /\ news = 0 => shown = bond
=============================================================================
