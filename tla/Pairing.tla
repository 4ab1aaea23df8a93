------------------------------ MODULE Pairing ------------------------------
(***************************************************************************)
(* What one-to-one matching promises, without queues, rooms or handlers:   *)
(* everybody is idle, waits, or has a partner who has them as a partner.   *)
(* A join claims at most one person who waits, a match ends for both at    *)
(* once, and no step ends two matches.  Who is gone never comes back.      *)
(***************************************************************************)
CONSTANTS Sockets, NoSocket

VARIABLES partners, waiting, gone

vars == <<partners, waiting, gone>>

Init ==
    /\ partners = [s \in Sockets |-> NoSocket]
    /\ waiting = {}
    /\ gone = {}

\* The match of s, if it has one, ends for both.
Freed(s) ==
    [x \in Sockets |-> IF x \in {s, partners[s]} THEN NoSocket ELSE partners[x]]

Wait(s) ==
    /\ s \notin gone
    /\ partners' = Freed(s)
    /\ waiting' = waiting \cup {s}
    /\ UNCHANGED gone

Meet(s, t) ==
    /\ s \notin gone /\ t \in waiting \ {s}
    /\ partners' = [Freed(s) EXCEPT ![s] = t, ![t] = s]
    /\ waiting' = waiting \ {s, t}
    /\ UNCHANGED gone

Cancel(s) ==
    /\ waiting' = waiting \ {s}
    /\ UNCHANGED <<partners, gone>>

End(s) ==
    /\ partners' = Freed(s)
    /\ UNCHANGED <<waiting, gone>>

Vanish(s) ==
    /\ partners' = Freed(s)
    /\ waiting' = waiting \ {s}
    /\ gone' = gone \cup {s}

Next ==
    \E s \in Sockets :
        \/ Wait(s) \/ Cancel(s) \/ End(s) \/ Vanish(s)
        \/ \E t \in Sockets : Meet(s, t)

Spec == Init /\ [][Next]_vars
=============================================================================
