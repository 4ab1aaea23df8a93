---------------------------- MODULE MCMatchmaking ----------------------------
(***************************************************************************)
(* Small instances of the matchmaking server for TLC.                      *)
(***************************************************************************)
EXTENDS MatchmakingProperties, TLC

CONSTANTS s1, s2, s3, s4, u1, u2, u3, u4

\* Everybody open: country, language and gender "any".
open == [country |-> "any", language |-> "any", gender |-> "any",
         looking_for |-> "any", interests |-> {}, allow_same |-> TRUE,
         scope |-> "all", pool |-> "all"]

\* A guest and two accounts; the second one refuses rematches and guests.
PairsUserOf  == (s1 :> NoUser) @@ (s2 :> u1) @@ (s3 :> u2)
PairsPrefsOf ==
    (s1 :> {open})
    @@ (s2 :> {[open EXCEPT !.interests = {"music"}]})
    @@ (s3 :> {[open EXCEPT !.allow_same = FALSE, !.pool = "registered"],
               [open EXCEPT !.interests = {"music"}, !.scope = "group"]})

PairsMessagesOf ==
    (s1 :> {"queue:join", "room:leave", "report", "close"})
    @@ (s2 :> {"queue:join", "room:next", "block"})
    @@ (s3 :> {"queue:join", "room:next", "room:leave", "close"})

\* An inviting host, an account that joins, leaves and answers a
\* direct invitation, and a guest who waits.
RoomsUserOf  == (s1 :> u1) @@ (s2 :> u2) @@ (s3 :> NoUser)
RoomsPrefsOf == [s \in {s1, s2, s3} |-> {open}]
RoomsMessagesOf ==
    (s1 :> {"group-match:create-and-invite", "group-match:start", "close"})
    @@ (s2 :> {"group-match:join", "group-match:leave", "invitation:accept", "slow"})
    @@ (s3 :> {"queue:join"})

\* Two lobbies of two.  The third account meets registered users only, the
\* fourth connection is choosy about gender.
MergeUserOf  == (s1 :> u1) @@ (s2 :> u2) @@ (s3 :> u3) @@ (s4 :> u4)
MergePrefsOf ==
    (s1 :> {open})
    @@ (s2 :> {[open EXCEPT !.gender = "male"], [open EXCEPT !.gender = "female"]})
    @@ (s3 :> {[open EXCEPT !.scope = "group"]})
    @@ (s4 :> {[open EXCEPT !.looking_for = "male", !.gender = "female"]})
MergeMessagesOf ==
    (s1 :> {"group-match:create"})
    @@ (s2 :> {"group-match:join"})
    @@ (s3 :> {"group-match:create", "block"})
    @@ (s4 :> {"group-match:join", "group-match:invite-decline"})

\* Two of three accounts refuse rematches until the cooldown is over.
SearchPrefsOf ==
    (s2 :> {open}) @@ [s \in {s1, s3} |-> {[open EXCEPT !.allow_same = FALSE]}]
SearchMessagesOf ==
    (s1 :> {"queue:join", "queue:heartbeat"})
    @@ (s2 :> {"queue:join", "group-match:create", "group-match:start", "queue:heartbeat"})
    @@ (s3 :> {"queue:join", "group-match:create", "group-match:start", "queue:heartbeat"})

(* Instances of the runs that end in a counterexample. *)

EndMessagesOf ==
    [s \in {s1, s2, s3} |-> {"queue:join"} \cup
                            (IF s = s1 THEN {"report", "room:leave"} ELSE {})]

OpenUserOf  == (s1 :> u1) @@ (s2 :> u2) @@ (s3 :> u3)
OpenPrefsOf == [s \in {s1, s2, s3} |-> {open}]

ExpiryMessagesOf ==
    (s1 :> {"group-match:create-and-invite"}) @@ (s2 :> {"group-match:join"})
    @@ (s3 :> {})

QueuedHostPrefsOf ==
    [s \in {s1, s2} |-> {open}] @@ (s3 :> {open, [open EXCEPT !.scope = "group"]})
QueuedHostMessagesOf ==
    (s1 :> {"queue:join"}) @@ (s2 :> {"group-match:create", "group-match:start"})
    @@ (s3 :> {"queue:join", "group-match:create", "group-match:start"})

ScopePrefsOf ==
    (s1 :> {open}) @@ [s \in {s2, s3} |-> {[open EXCEPT !.scope = "group"]}]
ScopeMessagesOf ==
    (s1 :> {"queue:join", "queue:heartbeat"}) @@ (s2 :> {"group-match:create"})
    @@ (s3 :> {"group-match:join"})

DirectMessagesOf ==
    (s1 :> {"invitation:accept"}) @@ (s2 :> {"queue:join"})
    @@ (s3 :> {"queue:join"})
=============================================================================
