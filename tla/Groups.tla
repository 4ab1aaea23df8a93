------------------------------- MODULE Groups -------------------------------
(***************************************************************************)
(* The groups of the server (domain/groups.rs): their members in the order *)
(* they joined, the admin and its succession, and the invitations.  No     *)
(* operation is a transaction: what a request read when it began may be    *)
(* old when it writes, and it may end between two statements.              *)
(***************************************************************************)
EXTENDS Naturals, Sequences, FiniteSets, SequencesExt

CONSTANTS Folk, MaxGroupsMade, MaxOffers, MaxOpenErrands, MaxErrands

ASSUME GroupBounds ==
  /\ IsFiniteSet(Folk) /\ Folk = 1 .. Cardinality(Folk)
  /\ MaxGroupsMade # 0 /\ {MaxGroupsMade, MaxOffers, MaxOpenErrands, MaxErrands} \subseteq Nat

VARIABLES
  keyed,     \* the database enforces foreign keys
  standing,  \* ids in the table groups
  roll,      \* per id ever given: group_members, the longest-standing first
  makers,    \* groups.created_by, per id that can be given
  offers,    \* group_invites
  errands,   \* the requests under way
  errandsMade,
  newest,    \* last_insert_rowid of the connection, 0 when it is no group's id
  disturbed, \* groups whose members changed between a request's read and its last
             \* write, where a request ended half way, or whose admin's account went (history)
  late,      \* groups that went while somebody was being added or invited to them (history)
  mistaken   \* groups whose creation took another row's id, and those it named (history)

groupsVars == <<keyed, standing, roll, makers, offers, errands, errandsMade, newest, disturbed, late, mistaken>>

Ids == DOMAIN roll
Seat(u, admin) == [who |-> u, admin |-> admin]
Within(list, u) == \E k \in DOMAIN list : list[k].who = u
Heads(list) == {k \in DOMAIN list : list[k].admin}
Without(list, u) ==
  IF Within(list, u) THEN RemoveAt(list, CHOOSE k \in DOMAIN list : list[k].who = u) ELSE list
SeesGroup(g, u) == g \in standing /\ Within(roll[g], u)
IsAdminOf(g, u) == g \in standing /\ \E k \in Heads(roll[g]) : roll[g][k].who = u

Steps == {"row", "rowid", "admin", "insert", "others", "delete", "members", "go", "promote",
          "sweep", "drop", "check", "offer", "close"}

GroupsTypeOK ==
  /\ keyed \in BOOLEAN /\ standing \subseteq Ids /\ Len(roll) <= MaxGroupsMade
  /\ \A g \in Ids, k, l \in 1 .. Cardinality(Folk) :
       /\ Len(roll[g]) <= Cardinality(Folk)
       /\ {k, l} \subseteq DOMAIN roll[g] /\ roll[g][k].who = roll[g][l].who => k = l
  /\ makers \in [1 .. MaxGroupsMade -> Folk \cup {0}]
  /\ \A o \in offers : {o.by, o.to} \subseteq Folk /\ o.status \in {"pending", "accepted", "declined"}
  /\ \A e \in errands : e.by \in Folk /\ e.group \in 0 .. Len(roll) /\ e.at \in Steps
  /\ errandsMade \in 0 .. MaxErrands /\ newest \in 0 .. Len(roll)
  /\ disturbed \cup late \cup mistaken \subseteq Ids

\* a group of two or more, whose first member made it
GroupsInit ==
  /\ keyed \in BOOLEAN /\ standing = {1} /\ offers = {} /\ errands = {} /\ errandsMade = 0
  /\ \E n \in 2 .. Cardinality(Folk) : roll = <<[k \in 1 .. n |-> Seat(k, k = 1)]>>
  /\ makers = [g \in 1 .. MaxGroupsMade |-> IF g = 1 THEN 1 ELSE 0]
  /\ newest = 0 /\ disturbed = {} /\ late = {} /\ mistaken = {}

GoesOn(e, at) == errands' = (errands \ {e}) \cup {[e EXCEPT !.at = at]}
Ends(e) == errands' = errands \ {e}
HistoryStands == UNCHANGED <<disturbed, late, mistaken>>

\* A change of a group's members, seen by those who are about to write what follows
\* from an earlier state of them.
Relies(e) == \/ e.op = "leave" /\ e.at \in {"members", "go", "promote", "sweep", "drop"}
             \/ e.op = "remove"
Disturbs(e) == disturbed' = disturbed \cup {d.group : d \in {x \in errands \ {e} : x.group = e.group /\ Relies(x)}}

\* The end of a group while somebody is being added or invited to it.
Overtakes(e) ==
  late' = late \cup {d.group : d \in {x \in errands \ {e} : x.group = e.group /\ x.op \notin {"remove", "leave"}}}

-----------------------------------------------------------------------------
OfferOf(g, u) == CHOOSE o \in offers : o.group = g /\ o.to = u

\* A request begins with what it reads first: get_group shows a group to its members only.
Asks(op, u, t, g, yes) ==
  LET start == CASE op = "create" -> "row"
                 [] op = "add" -> "insert"
                 [] op = "remove" -> IF u = t /\ IsAdminOf(g, u) THEN "others" ELSE "delete"
                 [] op = "leave" -> "members"
                 [] op = "invite" -> "check"
                 [] op = "answer" -> IF yes THEN "insert" ELSE "close"
  IN /\ Cardinality(errands) < MaxOpenErrands /\ errandsMade < MaxErrands
     /\ CASE op = "create" -> t # u /\ g = 1
          [] op = "add" -> t # u /\ IsAdminOf(g, u)
          [] op = "remove" -> SeesGroup(g, u) /\ (t = u \/ IsAdminOf(g, u))
          [] op = "leave" -> t = u /\ SeesGroup(g, u)
          [] op = "invite" -> t # u /\ SeesGroup(g, u)
          [] op = "answer" -> t = u /\ \E o \in offers : o.group = g /\ o.to = u /\ o.status = "pending"
     /\ op # "answer" => yes
     /\ errandsMade' = errandsMade + 1
     /\ errands' = errands \cup
          {[n |-> errandsMade, op |-> op, by |-> u, to |-> t, group |-> IF op = "create" THEN 0 ELSE g,
            led |-> IsAdminOf(g, u), yes |-> yes, offer |-> IF op = "answer" THEN OfferOf(g, u).id ELSE 0,
            read |-> <<>>, at |-> start]}
     /\ UNCHANGED <<keyed, standing, roll, makers, offers, newest>> /\ HistoryStands

\* create_group: the row, its id, the admin; then as when somebody is added
CreateRow(e) ==
  /\ e.at = "row" /\ Len(roll) < MaxGroupsMade
  /\ roll' = Append(roll, <<>>) /\ standing' = standing \cup {Len(roll) + 1} /\ newest' = Len(roll) + 1
  /\ makers' = [makers EXCEPT ![Len(roll) + 1] = e.by]
  /\ errands' = (errands \ {e}) \cup {[e EXCEPT !.at = "rowid", !.group = Len(roll) + 1]}
  /\ UNCHANGED <<keyed, offers, errandsMade>> /\ HistoryStands

\* Any handler inserts a row into any table.
InsertsAnywhere ==
  /\ \E e \in errands : e.at = "rowid"
  /\ newest' \in 0 .. Len(roll)
  /\ UNCHANGED <<keyed, standing, roll, makers, offers, errands, errandsMade>> /\ HistoryStands

\* no group has the id 0: the member rows that go there are nobody's
CreateRowId(e) ==
  /\ e.at = "rowid"
  /\ IF newest = 0 THEN Ends(e)
     ELSE errands' = (errands \ {e}) \cup {[e EXCEPT !.at = "admin", !.group = newest]}
  /\ mistaken' = mistaken \cup (IF newest = e.group THEN {} ELSE {newest, e.group} \ {0})
  /\ UNCHANGED <<keyed, standing, roll, makers, offers, errandsMade, newest, disturbed, late>>

NoSuchGroup(g) == keyed /\ g \notin standing
CreateAdmin(e) ==
  /\ e.at = "admin"
  /\ IF Within(roll[e.group], e.by) \/ NoSuchGroup(e.group) THEN Ends(e) /\ UNCHANGED roll
     ELSE GoesOn(e, "insert") /\ roll' = [roll EXCEPT ![e.group] = Append(@, Seat(e.by, TRUE))]
  /\ Disturbs(e)
  /\ UNCHANGED <<keyed, standing, makers, offers, errandsMade, newest, late, mistaken>>

\* INSERT OR IGNORE of a member: add_group_members, create_group, respond_group_invite
Insert(e) ==
  LET g == e.group
  IN /\ e.at = "insert"
     /\ roll' = IF Within(roll[g], e.to) \/ NoSuchGroup(g) THEN roll
                ELSE [roll EXCEPT ![g] = Append(@, Seat(e.to, FALSE))]
     /\ IF e.op = "answer" /\ ~NoSuchGroup(g) THEN GoesOn(e, "close") ELSE Ends(e)
     /\ Disturbs(e)
     /\ UNCHANGED <<keyed, standing, makers, offers, errandsMade, newest, late, mistaken>>

\* remove_group_member: the last admin may not remove itself
OtherAdmins(e) ==
  /\ e.at = "others"
  /\ IF Heads(Without(roll[e.group], e.by)) # {} THEN GoesOn(e, "delete") ELSE Ends(e)
  /\ UNCHANGED <<keyed, standing, roll, makers, offers, errandsMade, newest>> /\ HistoryStands

RemoveMember(e) ==
  /\ e.at = "delete" /\ Ends(e)
  /\ roll' = [roll EXCEPT ![e.group] = Without(@, e.to)]
  /\ Disturbs(e)
  /\ UNCHANGED <<keyed, standing, makers, offers, errandsMade, newest, late, mistaken>>

\* leave_group: the others are read, the leaver goes, then the group or the role
LeaveMembers(e) ==
  /\ e.at = "members"
  /\ errands' = (errands \ {e}) \cup {[e EXCEPT !.at = "go", !.read = Without(roll[e.group], e.by)]}
  /\ UNCHANGED <<keyed, standing, roll, makers, offers, errandsMade, newest>> /\ HistoryStands

\* the role of the leaver taken for that of somebody who stays
faulty_HandsOver(e) == ~e.led /\ Heads(e.read) = {}
HandsOver(e) == e.led /\ Heads(e.read) = {}
LeaveGo(e) ==
  /\ e.at = "go"
  /\ roll' = [roll EXCEPT ![e.group] = Without(@, e.by)]
  /\ IF e.read = <<>> THEN GoesOn(e, "sweep")
     ELSE IF HandsOver(e) THEN GoesOn(e, "promote") ELSE Ends(e)
  /\ Disturbs(e)
  /\ UNCHANGED <<keyed, standing, makers, offers, errandsMade, newest, late, mistaken>>

LeaveSweep(e) ==
  /\ e.at = "sweep" /\ GoesOn(e, "drop")
  /\ offers' = {o \in offers : o.group # e.group}
  /\ Overtakes(e)
  /\ UNCHANGED <<keyed, standing, roll, makers, errandsMade, newest, disturbed, mistaken>>

\* the group's row; with foreign keys the rows that name it go with it
LeaveDrop(e) ==
  LET g == e.group
  IN /\ e.at = "drop" /\ Ends(e)
     /\ standing' = standing \ {g}
     /\ IF keyed THEN roll' = [roll EXCEPT ![g] = <<>>] /\ offers' = {o \in offers : o.group # g}
        ELSE UNCHANGED <<roll, offers>>
     /\ Overtakes(e)
     /\ UNCHANGED <<keyed, makers, errandsMade, newest, disturbed, mistaken>>

Promote(e) ==
  /\ e.at = "promote" /\ Ends(e)
  /\ roll' = [roll EXCEPT ![e.group] =
                [k \in DOMAIN @ |-> IF @[k].who = Head(e.read).who THEN Seat(@[k].who, TRUE) ELSE @[k]]]
  /\ Disturbs(e)
  /\ UNCHANGED <<keyed, standing, makers, offers, errandsMade, newest, late, mistaken>>

\* send_group_invite: a new invitation replaces an earlier one
InviteCheck(e) ==
  /\ e.at = "check"
  /\ IF Within(roll[e.group], e.to) THEN Ends(e) ELSE GoesOn(e, "offer")
  /\ UNCHANGED <<keyed, standing, roll, makers, offers, errandsMade, newest>> /\ HistoryStands

Offer(e) ==
  /\ e.at = "offer" /\ Cardinality(offers) < MaxOffers /\ Ends(e)
  /\ offers' = IF NoSuchGroup(e.group) THEN offers
               ELSE {o \in offers : o.group # e.group \/ o.to # e.to}
                    \cup {[id |-> e.n + 1, group |-> e.group, by |-> e.by, to |-> e.to, status |-> "pending"]}
  /\ UNCHANGED <<keyed, standing, roll, makers, errandsMade, newest>> /\ HistoryStands

\* the answer is written over whatever the invitation has become
CloseOffer(e) ==
  /\ e.at = "close" /\ Ends(e)
  /\ offers' = {IF o.id = e.offer
                THEN [o EXCEPT !.status = IF e.yes THEN "accepted" ELSE "declined"] ELSE o : o \in offers}
  /\ UNCHANGED <<keyed, standing, roll, makers, errandsMade, newest>> /\ HistoryStands

\* A statement fails, or the process ends: what was written stays.
Breaks(e) ==
  /\ Ends(e)
  /\ disturbed' = disturbed \cup
       (IF e.at \in {"rowid", "admin", "promote", "sweep", "drop"} THEN {e.group} ELSE {})
  /\ UNCHANGED <<keyed, standing, roll, makers, offers, errandsMade, newest, late, mistaken>>

\* delete_legacy_account_data, in one transaction: the groups that u made go with all their
\* rows, and u's rows in the others, whatever its role there.  The next account may be u again.
AccountGoes(u) ==
  LET made == {g \in standing : makers[g] = u}
      left == {g \in Ids \ made : Within(roll[g], u)}
      relied == {e.group : e \in {x \in errands : Relies(x)}}
  IN /\ errandsMade < MaxErrands /\ errandsMade' = errandsMade + 1
     /\ standing' = standing \ made
     /\ roll' = [g \in Ids |-> IF g \in made THEN <<>> ELSE Without(roll[g], u)]
     /\ offers' = {o \in offers : u \notin {o.by, o.to} /\ o.group \notin made}
     /\ disturbed' = disturbed \cup {g \in left : IsAdminOf(g, u) \/ g \in relied}
     /\ late' = late \cup {e.group : e \in {x \in errands : x.group \in made /\ x.op \notin {"remove", "leave"}}}
     /\ UNCHANGED <<keyed, makers, errands, newest, mistaken>>

ErrandStep(e) ==
  \/ CreateRow(e) \/ CreateRowId(e) \/ CreateAdmin(e) \/ Insert(e) \/ OtherAdmins(e)
  \/ RemoveMember(e) \/ LeaveMembers(e) \/ LeaveGo(e) \/ LeaveSweep(e) \/ LeaveDrop(e)
  \/ Promote(e) \/ InviteCheck(e) \/ Offer(e) \/ CloseOffer(e) \/ Breaks(e)

GroupsNext ==
  \/ \E op \in {"create", "add", "remove", "leave", "invite", "answer"}, u, t \in Folk,
        g \in Ids, yes \in BOOLEAN : Asks(op, u, t, g, yes)
  \/ \E e \in errands : ErrandStep(e)
  \/ \E u \in Folk : AccountGoes(u)
  \/ InsertsAnywhere

-----------------------------------------------------------------------------
\* "Leaving hands the admin role to the next-oldest member" (groups.rs:368): when no request
\* is under way a group has exactly one admin, who is a member, save where the members
\* changed between the read and the writes of a departure, where a request ended half way
\* (groups.rs:371-410), where a creation took another row's id (groups.rs:178), or where an
\* admin who had not made the group deleted the account, which hands nothing over (routes/
\* auth.rs:1209-1210).
GroupIsLed ==
  errands = {} => \A g \in standing \ (disturbed \cup mistaken) : Cardinality(Heads(roll[g])) = 1

\* "a group nobody is left in is deleted outright" (groups.rs:370), and with it every member
\* row: always when foreign keys are enforced, and otherwise save where somebody was being
\* added or invited to the group while it went.
NobodyInNoGroup ==
  \A g \in Ids \ standing : roll[g] = <<>> \/ (~keyed /\ g \in late \cup disturbed \cup mistaken)

GroupsAreTrue == GroupIsLed /\ NobodyInNoGroup
=============================================================================
