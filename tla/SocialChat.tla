----------------------------- MODULE SocialChat -----------------------------
(***************************************************************************)
(* The conversation on the social page: hooks/useSocialData.ts (the open   *)
(* chat and the live updates), store/socialStore.ts (unread counts and the *)
(* notifications that stand for direct messages), and the composer.  A     *)
(* message is the conversation it belongs to and its number there; answers *)
(* are not tied to the conversation that is open when they come.           *)
(***************************************************************************)
EXTENDS Integers, FiniteSetsExt

CONSTANTS ChatGroups, ChatFriends,  \* conversations, by kind
          KeptNotes,                \* notifications kept; 50 in the code
          MaxMessages, MaxOpens, MaxLoads

ASSUME ChatConstants ==
  /\ ChatGroups \cap ChatFriends = {} /\ "none" \notin ChatGroups \cup ChatFriends
  /\ {KeptNotes, MaxMessages, MaxOpens, MaxLoads} \subseteq Nat

Chats == ChatGroups \cup ChatFriends

VARIABLES
  stored,       \* messages the server has, per conversation
  active,       \* the open conversation
  thread,       \* messages on the screen, as <<conversation, number>>
  threadState,  \* messagesState
  roster,       \* conversation of the member list on the screen
  loads,        \* loadMessages and loadMembers under way
  sends,        \* messages of ours, stored, their answer under way
  echoes,       \* group messages of ours, their push under way
  unread,       \* _unreadCounts
  notes,        \* length of the notification list
  draft,        \* conversation the text in the composer was typed for
  sending,      \* Composer.sending, with the conversation it writes to
  came,         \* history: messages pushed since the conversation was last open
  capped,       \* history: a notification was dropped off the list
  astray,      \* history: an answer came under another conversation
  opens, asked

chatVars == <<stored, active, thread, threadState, roster, loads, sends, echoes, unread, notes,
              draft, sending, came, capped, astray, opens, asked>>

MaybeChat == Chats \cup {"none"}
Load == [what : {"messages"}, chat : Chats, upto : -1 .. MaxMessages]
        \cup [what : {"members"}, chat : ChatGroups]
Messages(c, n) == {<<c, i>> : i \in 1 .. n}

ChatTypeOK ==
  /\ stored \in [Chats -> 0 .. MaxMessages] /\ active \in MaybeChat
  /\ thread \subseteq Chats \X (1 .. MaxMessages)
  /\ threadState \in {"idle", "loading", "ready", "error"}
  /\ roster \in ChatGroups \cup {"none"} /\ loads \subseteq Load
  /\ sends \subseteq Chats \X (1 .. MaxMessages) /\ echoes \subseteq ChatGroups \X (1 .. MaxMessages)
  /\ unread \in [Chats -> 0 .. MaxMessages]
  /\ notes \in 0 .. KeptNotes /\ {draft, sending} \subseteq MaybeChat
  /\ came \in [Chats -> 0 .. MaxMessages] /\ {capped, astray} \subseteq BOOLEAN
  /\ opens \in 0 .. MaxOpens /\ asked \in 0 .. MaxLoads

ChatInit ==
  /\ stored = [c \in Chats |-> 0] /\ active = "none" /\ thread = {} /\ threadState = "idle"
  /\ roster = "none" /\ loads = {} /\ sends = {} /\ echoes = {} /\ unread = [c \in Chats |-> 0] /\ notes = 0
  /\ draft = "none" /\ sending = "none" /\ came = [c \in Chats |-> 0]
  /\ capped = FALSE /\ astray = FALSE /\ opens = 0 /\ asked = 0

screen == <<active, thread, threadState, roster, loads, asked>>
composer == <<draft, sending>>
counted == <<unread, came>>

Room == MapThenSumSet(LAMBDA c : stored[c], Chats) < MaxMessages

(***************************************************************************)
(* Opening a conversation                                                  *)
(***************************************************************************)
Asks(c) ==
  {[what |-> "messages", chat |-> c, upto |-> -1]}
  \cup (IF c \in ChatGroups THEN {[what |-> "members", chat |-> c]} ELSE {})

\* the effect of a change of active
Fetches(c) ==
  IF c = "none"
  THEN threadState' = "idle" /\ UNCHANGED <<loads, asked>>
  ELSE /\ asked < MaxLoads /\ asked' = asked + 1
       /\ loads' = loads \cup Asks(c) /\ threadState' = "loading"

OpenChat(c) ==
  /\ opens < MaxOpens /\ c # active /\ opens' = opens + 1
  /\ active' = c /\ thread' = {} /\ roster' = "none" /\ Fetches(c)
  /\ IF c = "none" THEN UNCHANGED counted
     ELSE unread' = [unread EXCEPT ![c] = 0] /\ came' = [came EXCEPT ![c] = 0]
  /\ UNCHANGED <<stored, sends, echoes, notes, composer, capped, astray>>

\* createGroup switches over and clears neither thread nor members; nor is an
\* unread count there to clear
OpenCreated(g) ==
  /\ g \in ChatGroups /\ stored[g] = 0 /\ opens < MaxOpens /\ g # active /\ opens' = opens + 1
  /\ active' = g /\ Fetches(g) /\ astray' = (astray \/ thread # {} \/ roster # "none")
  /\ UNCHANGED <<stored, thread, roster, sends, echoes, counted, notes, composer, capped>>

\* leaveGroup and removeFriend close the conversation and clear nothing
Dropped(c) ==
  /\ c = active /\ opens < MaxOpens /\ opens' = opens + 1 /\ active' = "none"
  /\ UNCHANGED <<stored, thread, threadState, roster, loads, asked, sends, echoes, counted, notes, composer,
                 capped, astray>>

\* the server reads, then the answer travels
ServerReads(l) ==
  /\ l \in loads /\ l.what = "messages" /\ l.upto = -1
  /\ loads' = (loads \ {l}) \cup {[l EXCEPT !.upto = stored[l.chat]]}
  /\ UNCHANGED <<stored, active, thread, threadState, roster, asked, sends, echoes, counted, notes, composer,
                 capped, astray, opens>>

MessagesLoaded(l) ==
  /\ l \in loads /\ l.what = "messages" /\ l.upto >= 0 /\ loads' = loads \ {l}
  /\ thread' = Messages(l.chat, l.upto) /\ threadState' = "ready"
  /\ astray' = (astray \/ l.chat # active)
  /\ UNCHANGED <<stored, active, roster, asked, sends, echoes, counted, notes, composer, capped, opens>>

MembersLoaded(l) ==
  /\ l \in loads /\ l.what = "members" /\ loads' = loads \ {l} /\ roster' = l.chat
  /\ astray' = (astray \/ l.chat # active)
  /\ UNCHANGED <<stored, active, thread, threadState, asked, sends, echoes, counted, notes, composer, capped,
                 opens>>

LoadFailed(l) ==
  /\ l \in loads /\ loads' = loads \ {l}
  /\ threadState' = IF l.what = "messages" THEN "error" ELSE threadState
  /\ UNCHANGED <<stored, active, thread, roster, asked, sends, echoes, counted, notes, composer, capped,
                 astray, opens>>

\* the button of the error state
ReloadMessages ==
  /\ threadState = "error" /\ active # "none" /\ asked < MaxLoads /\ asked' = asked + 1
  /\ loads' = loads \cup {[what |-> "messages", chat |-> active, upto |-> -1]}
  /\ threadState' = "loading"
  /\ UNCHANGED <<stored, active, thread, roster, sends, echoes, counted, notes, composer, capped, astray, opens>>

(***************************************************************************)
(* What comes in                                                           *)
(***************************************************************************)
Counts(c) ==
  unread' = [unread EXCEPT ![c] = @ + 1] /\ came' = [came EXCEPT ![c] = @ + 1]

\* onGroupMessage: to the thread or to the count
faulty_Pushed(m) ==
  /\ unread' = [unread EXCEPT ![m[1]] = @ + 1]
  /\ IF m[1] = active THEN thread' = thread \cup {m} /\ UNCHANGED came
     ELSE UNCHANGED thread /\ came' = [came EXCEPT ![m[1]] = @ + 1]

Pushed(m) ==
  IF m[1] = active THEN thread' = thread \cup {m} /\ UNCHANGED counted
  ELSE UNCHANGED thread /\ Counts(m[1])

GroupMessage(g) ==
  /\ g \in ChatGroups /\ Room /\ stored' = [stored EXCEPT ![g] = @ + 1]
  /\ Pushed(<<g, stored[g] + 1>>)
  /\ UNCHANGED <<active, threadState, roster, loads, asked, sends, echoes, notes, composer, capped,
                 astray, opens>>

\* the sender is told too, and counts its own message if it has moved on
GroupEcho(m) ==
  /\ m \in echoes /\ echoes' = echoes \ {m} /\ Pushed(m)
  /\ UNCHANGED <<stored, active, threadState, roster, loads, asked, sends, notes, composer, capped,
                 astray, opens>>

\* addNotification keeps the newest KeptNotes
Noted ==
  /\ notes' = IF notes < KeptNotes THEN notes + 1 ELSE notes
  /\ capped' = (capped \/ notes = KeptNotes)

\* A direct message comes as a notification, and a subscriber tells a new one
\* by the list having grown: at the cap it never grows.
DirectMessage(f) ==
  /\ f \in ChatFriends /\ Room /\ stored' = [stored EXCEPT ![f] = @ + 1] /\ Noted
  /\ CASE notes = KeptNotes ->
            /\ came' = IF f = active THEN came ELSE [came EXCEPT ![f] = @ + 1]
            /\ UNCHANGED <<unread, loads, asked, threadState>>
       [] notes < KeptNotes /\ f = active -> Fetches(f) /\ UNCHANGED counted
       [] OTHER -> Counts(f) /\ UNCHANGED <<loads, asked, threadState>>
  /\ UNCHANGED <<active, thread, roster, sends, echoes, composer, astray, opens>>

(***************************************************************************)
(* The composer is not keyed by the conversation: its text stays           *)
(***************************************************************************)
Types ==
  /\ active # "none" /\ draft = "none" /\ draft' = active
  /\ UNCHANGED <<stored, screen, sends, echoes, counted, notes, sending, capped, astray, opens>>

Submits ==
  /\ active # "none" /\ draft # "none" /\ sending = "none" /\ Room
  /\ sending' = active /\ draft' = "none"
  /\ UNCHANGED <<stored, screen, sends, echoes, counted, notes, capped, astray, opens>>

ServerStores ==
  /\ sending # "none" /\ sends = {} /\ Room
  /\ stored' = [stored EXCEPT ![sending] = @ + 1]
  /\ sends' = {<<sending, stored[sending] + 1>>}
  /\ echoes' = IF sending \in ChatGroups THEN echoes \cup sends' ELSE echoes
  /\ UNCHANGED <<screen, counted, notes, composer, capped, astray, opens>>

\* the message is appended to whatever thread is open
Sent(m) ==
  /\ m \in sends /\ sends' = {} /\ sending' = "none" /\ thread' = thread \cup {m}
  /\ astray' = (astray \/ m[1] # active)
  /\ UNCHANGED <<stored, active, threadState, roster, loads, asked, echoes, counted, notes, draft, capped,
                 opens>>

\* the text comes back over whatever was typed since
SendFails ==
  /\ sending # "none" /\ sends = {} /\ draft' = sending /\ sending' = "none"
  /\ UNCHANGED <<stored, screen, sends, echoes, counted, notes, capped, astray, opens>>

ChatNext ==
  \/ \E c \in MaybeChat : OpenChat(c)
  \/ \E c \in Chats : OpenCreated(c) \/ Dropped(c) \/ GroupMessage(c) \/ DirectMessage(c)
  \/ \E l \in loads : ServerReads(l) \/ MessagesLoaded(l) \/ MembersLoaded(l) \/ LoadFailed(l)
  \/ \E m \in sends : Sent(m)
  \/ \E m \in echoes : GroupEcho(m)
  \/ ReloadMessages \/ Types \/ Submits \/ ServerStores \/ SendFails

ChatSpec == ChatInit /\ [][ChatNext]_chatVars

(***************************************************************************)
(* Properties                                                              *)
(***************************************************************************)
\* The badge of a conversation says how many messages came since it was last
\* open, whatever its kind, as long as no notification was dropped.
UnreadIsWhatCame == ~capped => unread = came

\* Unless an answer came under another conversation than it was asked for,
\* the thread and the member list are those of the open conversation.
ThreadIsOfItsChat ==
  ~astray /\ active # "none" =>
    /\ \A m \in thread : m[1] = active
    /\ roster \in {active, "none"}
=============================================================================
