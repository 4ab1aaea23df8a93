------------------------------- MODULE Bonds -------------------------------
(***************************************************************************)
(* Friend requests on the server (domain/friends.rs): a request and an     *)
(* answer read the row of the pair and write it in a later statement; the  *)
(* other person, or the same one in another tab, writes in between.        *)
(***************************************************************************)
EXTENDS Naturals, Sequences, FiniteSets

CONSTANTS MaxRows, MaxOpenCalls, MaxBondCalls

ASSUME BondBounds == {MaxRows, MaxOpenCalls, MaxBondCalls} \subseteq Nat \ {0}

Pair == {1, 2}
Other(u) == 3 - u

VARIABLES
  rows,     \* friends: the rows of the pair by id; status "gone" when deleted
  bondCalls, \* the requests under way
  made,     \* how many there were
  wish,     \* per person: what the last write of theirs asked for (history)
  crossed,  \* a request that had found no row inserted beside the other person's (history)
  overlapped    \* somebody wrote while another request of theirs was under way (history)

bondVars == <<rows, bondCalls, made, wish, crossed, overlapped>>

Live == {k \in DOMAIN rows : rows[k].status # "gone"}
Doing == {"insert", "reopen", "accept", "decline"}

BondsTypeOK ==
  /\ Len(rows) <= MaxRows
  /\ \A k \in DOMAIN rows : /\ rows[k].from \in Pair
                            /\ rows[k].status \in {"pending", "accepted", "declined", "gone"}
  /\ \A c \in bondCalls : c.by \in Pair /\ c.does \in Doing /\ c.n \in 1 .. made
  /\ made \in 0 .. MaxBondCalls /\ wish \in [Pair -> BOOLEAN] /\ {crossed, overlapped} \subseteq BOOLEAN

BondsInit ==
  /\ rows = <<>> /\ bondCalls = {} /\ made = 0
  /\ wish = [u \in Pair |-> FALSE] /\ crossed = FALSE /\ overlapped = FALSE

Busy(u) == \E d \in bondCalls : d.by = u
Opens(u, does, id) ==
  /\ made' = made + 1
  /\ bondCalls' = bondCalls \cup {[n |-> made + 1, by |-> u, does |-> does, row |-> id]}
  /\ overlapped' = (overlapped \/ Busy(u))
  /\ UNCHANGED <<rows, wish, crossed>>
MayAsk == made < MaxBondCalls /\ Cardinality(bondCalls) < MaxOpenCalls

\* send_friend_request reads the row of the pair, in either direction
AsksFriend(u) ==
  /\ MayAsk
  /\ \/ Live = {} /\ Opens(u, "insert", 0)
     \/ \E k \in Live :
          IF rows[k].status = "declined" THEN Opens(u, "reopen", k)
          ELSE /\ made' = made + 1 /\ wish' = [wish EXCEPT ![u] = TRUE]
               /\ UNCHANGED <<rows, bondCalls, crossed, overlapped>>

faulty_Answers(u, does) ==
  /\ MayAsk /\ does \in {"accept", "decline"}
  /\ \E k \in Live : rows[k].status = "pending" /\ Opens(u, does, k)

\* respond_friend_request reads a pending row addressed to the caller
Answers(u, does) ==
  /\ MayAsk /\ does \in {"accept", "decline"}
  /\ \E k \in Live : rows[k].status = "pending" /\ rows[k].from = Other(u) /\ Opens(u, does, k)

\* Its write: INSERT, refused by UNIQUE for a second row of one direction; UPDATE, which
\* finds no row when it was removed.
Taken(u, id) == \E k \in Live \ {id} : rows[k].from = u
Changed(c, to) ==
  rows' = IF c.row \in Live THEN [rows EXCEPT ![c.row] = to] ELSE rows
Writes(c) ==
  /\ c \in bondCalls /\ bondCalls' = bondCalls \ {c}
  /\ CASE c.does = "insert" ->
            IF Taken(c.by, 0) THEN UNCHANGED rows
            ELSE Len(rows) < MaxRows /\ rows' = Append(rows, [from |-> c.by, status |-> "pending"])
       [] c.does = "reopen" ->
            IF Taken(c.by, c.row) THEN UNCHANGED rows
            ELSE Changed(c, [from |-> c.by, status |-> "pending"])
       [] c.does = "accept"  -> Changed(c, [rows[c.row] EXCEPT !.status = "accepted"])
       [] c.does = "decline" -> Changed(c, [rows[c.row] EXCEPT !.status = "declined"])
  /\ wish' = IF c.row \in Live \/ rows' # rows THEN [wish EXCEPT ![c.by] = c.does # "decline"] ELSE wish
  /\ crossed' = (crossed \/ (c.does = "insert" /\ Live # {}))
  /\ UNCHANGED <<made, overlapped>>

\* remove_friend: one statement, whatever the row's status
Removes(u) ==
  /\ MayAsk /\ made' = made + 1
  /\ \E k \in Live : rows' = [rows EXCEPT ![k].status = "gone"]
  /\ wish' = [wish EXCEPT ![u] = FALSE]
  /\ overlapped' = (overlapped \/ Busy(u))
  /\ UNCHANGED <<bondCalls, crossed>>

BondsNext ==
  \/ \E u \in Pair : AsksFriend(u) \/ Removes(u) \/ \E does \in Doing : Answers(u, does)
  \/ \E c \in bondCalls : Writes(c)

-----------------------------------------------------------------------------
\* Friends are people who both asked for it: nobody is in a friendship after a decline or
\* a removal of theirs, save when the first requests of two people crossed, which gives them two
\* rows that UNIQUE(user_a_id, user_b_id) takes for different pairs (friends.rs:163-191,
\* db.rs:264), or one person wrote from two tabs at once (friends.rs:198-233).
BothWishIt ==
  ~crossed /\ ~overlapped /\ bondCalls = {} =>
    \A k \in Live : rows[k].status = "accepted" => wish[1] /\ wish[2]
=============================================================================
