------------------------------- MODULE Ledger -------------------------------
(***************************************************************************)
(* The points economy (domain/economy.rs), what creates and deletes        *)
(* accounts around it (routes/auth.rs) and what a search for a match costs *)
(* (charge_match of ws/handlers.rs), on the one database connection        *)
(* that all handlers share (db.rs).  Requests run on several threads, each *)
(* statement is a step.  A local database has one handle: BEGIN fails      *)
(* while another handler's transaction is open, and everybody's statements *)
(* are part of that transaction.  A remote one gives each transaction a    *)
(* stream of its own: writers wait for it, readers do not see it.          *)
(***************************************************************************)
EXTENDS Integers, Sequences, FiniteSets, SequencesExt

CONSTANTS Holders, Veterans,     \* accounts, and those older than the economy
          Kinds,                 \* the requests that are made
          StartGrant, DailyReward, AdReward, Gift, Penalty, MatchCost,
          Cooldown, AdCap, DayTicks, \* ECONOMY_AD_COOLDOWN_SECS, _DAILY_CAP, a UTC day
          MaxClock, MaxRequests, MaxFaults, MaxCrashes

ASSUME LedgerBounds ==
  /\ Veterans \subseteq Holders
  /\ {StartGrant, DailyReward, AdReward, Gift, Penalty, MatchCost, Cooldown, AdCap, DayTicks} \subseteq Nat \ {0}
  /\ {MaxClock, MaxRequests, MaxFaults, MaxCrashes} \subseteq Nat
  /\ Kinds \subseteq {"signup", "claim", "daily", "gift", "search", "adjust", "delete"}

VARIABLES
  local,      \* a file, not a remote database
  up,         \* the server serves requests
  db,         \* the tables: accounts, balance, each user's ledger, rows of other handlers (other);
              \* bared: accounts that lost their ledger rows before their own (history)
  open, kept, \* the request whose transaction is open, and the tables at its BEGIN
  asked,      \* the requests so far
  clock, faults, crashes,
  promised,   \* writes of other handlers that were answered with success
  swept,      \* those made while a transaction was open (history)
  raced       \* users two of whose claims were past their checks at once, or whose claim
              \* was checked against rows that an open transaction had changed (history)

ledgerVars == <<local, up, db, open, kept, asked, clock, faults, crashes, promised, swept, raced>>

Today == clock \div DayTicks
Reasons == {"signup", "daily", "ad", "gift", "match_spend", "admin"}
Entries == [delta : Int, reason : Reasons, at : Nat]
Entry(delta, reason) == [delta |-> delta, reason |-> reason, at |-> clock]
DayOf(entry) == entry.at \div DayTicks

\* those of a user's rows that have a reason, at their places
RowsOf(rows, reason) == [k \in {k \in DOMAIN rows : rows[k].reason = reason} |-> rows[k]]

Stages == {"create", "check", "cap", "begin", "first", "rest", "commit", "identity", "row",
           "undo", "unmake", "done"}
Requests == [op : Kinds \cup {"signup", "welcome"}, user : Holders, to : Holders, at : Stages]
Tables == [accounts : SUBSET Holders, balance : [Holders -> Int],
           ledger : [Holders -> Seq(Entries)], other : SUBSET {1}, bared : SUBSET Holders]

LedgerTypeOK ==
  /\ {local, up} \subseteq BOOLEAN /\ {db, kept} \subseteq Tables
  /\ asked \in Seq(Requests) /\ Len(asked) <= MaxRequests /\ open \in 0 .. Len(asked)
  /\ clock \in 0 .. MaxClock /\ faults \in 0 .. MaxFaults /\ crashes \in 0 .. MaxCrashes
  /\ swept \subseteq promised /\ promised \subseteq {1} /\ raced \subseteq Holders

Blank == [accounts |-> {}, balance |-> [u \in Holders |-> 0], ledger |-> [u \in Holders |-> <<>>],
          other |-> {}, bared |-> {}]

\* accounts created before the economy existed have no points yet
LedgerInit ==
  /\ local \in BOOLEAN /\ up = FALSE
  /\ db = [Blank EXCEPT !.accounts = Veterans]
  /\ open = 0 /\ kept = Blank /\ asked = <<>>
  /\ clock = 0 /\ faults = 0 /\ crashes = 0
  /\ promised = {} /\ swept = {} /\ raced = {}

-----------------------------------------------------------------------------
\* the tables as a statement outside the transaction reads them
Seen == IF open # 0 /\ ~local THEN kept ELSE db
MayWrite == open = 0 \/ local

Credited(tables, u, delta) ==
  [tables EXCEPT !.balance[u] = IF u \in tables.accounts THEN @ + delta ELSE @]
Posted(tables, u, delta, reason) == [tables EXCEPT !.ledger[u] = Append(@, Entry(delta, reason))]
LedgerCleared(tables, u) == [tables EXCEPT !.ledger[u] = <<>>, !.bared = @ \cup {u}]
AccountDeleted(tables, u) ==
  [tables EXCEPT !.accounts = @ \ {u}, !.balance[u] = 0, !.bared = @ \ {u}]

IsAt(i, stage) == up /\ i \in DOMAIN asked /\ asked[i].at = stage
MovesTo(i, stage) == asked' = [asked EXCEPT ![i].at = stage]
Quiet == UNCHANGED <<local, up, clock, crashes, promised, swept>>

\* A request arrives; a new account is one that never was.
Arrives(kind, u, to) ==
  /\ up /\ Len(asked) < MaxRequests
  /\ IF kind = "signup"
     THEN u \notin db.accounts \cup Veterans /\ ~\E i \in DOMAIN asked : asked[i].op \in {"signup", "welcome"} /\ asked[i].user = u
     ELSE u \in Seen.accounts
  /\ kind = "gift" <=> to # u
  /\ asked' = Append(asked, [op |-> kind, user |-> u, to |-> to,
                             at |-> CASE kind = "signup" -> "create"
                                      [] kind \in {"daily", "search", "delete"} -> "begin"
                                      [] OTHER -> "check"])
  /\ UNCHANGED <<db, open, kept, faults, raced>> /\ Quiet

\* register: the account's row, with a balance of 0
CreateAccount(i) ==
  /\ IsAt(i, "create") /\ MayWrite /\ MovesTo(i, "begin")
  /\ db' = [db EXCEPT !.accounts = @ \cup {asked[i].user}]
  /\ UNCHANGED <<open, kept, faults, raced>> /\ Quiet

\* gift and adjust look for the user, claim_ad looks at the last claim
Waited(rows) == \A k \in DOMAIN RowsOf(rows, "ad") : clock - rows[k].at >= Cooldown
Overlaps(i) ==
  \E j \in DOMAIN asked \ {i} : /\ asked[j].op = "claim" /\ asked[j].user = asked[i].user
                                /\ asked[j].at \notin {"check", "done"}
Uncommitted(u) ==
  local /\ open # 0 /\ RowsOf(db.ledger[u], "ad") # RowsOf(kept.ledger[u], "ad")
Races(i) ==
  raced' = raced \cup {u \in {asked[i].user} : asked[i].op = "claim" /\ (Overlaps(i) \/ Uncommitted(u))}
ChecksFirst(i) ==
  LET r == asked[i]
  IN /\ IsAt(i, "check")
     /\ MovesTo(i, CASE r.op = "claim" -> (IF Waited(Seen.ledger[r.user]) THEN "cap" ELSE "done")
                     [] r.op = "gift" -> (IF r.to \in Seen.accounts THEN "begin" ELSE "done")
                     [] r.op = "adjust" -> (IF r.user \in Seen.accounts THEN "begin" ELSE "done"))
     /\ Races(i)
     /\ UNCHANGED <<db, open, kept, faults>> /\ Quiet

\* claim_ad: the cap of the day; what it found may be old when it pays
AdsOn(rows, day) == {k \in DOMAIN RowsOf(rows, "ad") : DayOf(rows[k]) = day}
ChecksCap(i) ==
  /\ IsAt(i, "cap")
  /\ MovesTo(i, IF Cardinality(AdsOn(Seen.ledger[asked[i].user], Today)) < AdCap THEN "begin" ELSE "done")
  /\ Races(i)
  /\ UNCHANGED <<db, open, kept, faults>> /\ Quiet

\* What becomes of a request whose transaction failed: register takes the
\* account back, the daily reward of a login is given up, the rest is an error.
Failed(i) == IF asked[i].op = "signup" THEN "undo" ELSE "done"

Begin(i) ==
  /\ IsAt(i, "begin")
  /\ \/ open = 0 /\ open' = i /\ kept' = db /\ MovesTo(i, "first")
     \/ open # 0 /\ local /\ MovesTo(i, Failed(i)) /\ UNCHANGED <<open, kept>>
  /\ UNCHANGED <<db, faults, raced>> /\ Quiet

\* the rows of the others are taken back with those of the transaction
RollsBack == db' = kept /\ open' = 0 /\ kept' = Blank

\* the first statement: the conditional one, where there is a condition
OwedToday(u) == \A k \in DOMAIN RowsOf(db.ledger[u], "daily") : DayOf(db.ledger[u][k]) # Today
Daily(r) == r.op \in {"daily", "welcome"}
faulty_NotGranted(r) == Daily(r) /\ ~OwedToday(r.user)
NotGranted(r) ==
  \/ Daily(r) /\ ~OwedToday(r.user)
  \/ r.op = "gift" /\ db.balance[r.user] < Gift
  \/ r.op = "search" /\ db.balance[r.user] < MatchCost
FirstStatement(i) ==
  LET r == asked[i]
  IN /\ IsAt(i, "first")
     /\ IF NotGranted(r) THEN RollsBack /\ MovesTo(i, "done")
        ELSE /\ MovesTo(i, IF r.op = "delete" THEN "commit" ELSE "rest")
             /\ db' = CASE Daily(r) -> Posted(db, r.user, DailyReward, "daily")
                        [] r.op = "gift" -> Credited(db, r.user, -Gift)
                        [] r.op = "search" -> Credited(db, r.user, -MatchCost)
                        [] r.op = "claim" -> Credited(db, r.user, AdReward)
                        [] r.op = "adjust" -> Credited(db, r.user, -Penalty)
                        [] r.op = "signup" -> Credited(db, r.user, StartGrant)
                        [] r.op = "delete" -> LedgerCleared(db, r.user)
             /\ UNCHANGED <<open, kept>>
     /\ UNCHANGED <<faults, raced>> /\ Quiet

\* the statements that complete it
SecondStatement(i) ==
  LET r == asked[i]
  IN /\ IsAt(i, "rest") /\ MovesTo(i, "commit")
     /\ db' = CASE Daily(r) -> Credited(db, r.user, DailyReward)
                [] r.op = "gift" -> Posted(Posted(Credited(db, r.to, Gift), r.user, -Gift, "gift"),
                                           r.to, Gift, "gift")
                [] r.op = "search" -> Posted(db, r.user, -MatchCost, "match_spend")
                [] r.op = "claim" -> Posted(db, r.user, AdReward, "ad")
                [] r.op = "adjust" -> Posted(db, r.user, -Penalty, "admin")
                [] r.op = "signup" -> Posted(db, r.user, StartGrant, "signup")
     /\ UNCHANGED <<open, kept, faults, raced>> /\ Quiet

\* register goes on with the daily reward, delete_account with the identity
Commit(i) ==
  /\ IsAt(i, "commit") /\ open' = 0 /\ kept' = Blank
  /\ asked' = [asked EXCEPT ![i] =
                 CASE @.op = "signup" -> [@ EXCEPT !.op = "welcome", !.at = "begin"]
                   [] @.op = "delete" -> [@ EXCEPT !.at = "identity"]
                   [] OTHER -> [@ EXCEPT !.at = "done"]]
  /\ UNCHANGED <<db, faults, raced>> /\ Quiet

\* a statement of the transaction fails: dropping it rolls back
Fault(i) ==
  /\ up /\ i \in DOMAIN asked /\ asked[i].at \in {"first", "rest", "commit"} /\ faults < MaxFaults
  /\ faults' = faults + 1 /\ RollsBack /\ MovesTo(i, Failed(i))
  /\ UNCHANGED raced /\ Quiet

\* register's last step, the verification mail's token, may fail
MailFails(i) ==
  /\ IsAt(i, "done") /\ asked[i].op = "welcome" /\ faults < MaxFaults
  /\ faults' = faults + 1 /\ asked' = [asked EXCEPT ![i].op = "signup", ![i].at = "undo"]
  /\ UNCHANGED <<db, open, kept, raced>> /\ Quiet

\* rollback_signup: errors are ignored
Undo(i) ==
  /\ IsAt(i, "undo") /\ MayWrite /\ MovesTo(i, "unmake")
  /\ db' = LedgerCleared(db, asked[i].user)
  /\ UNCHANGED <<open, kept, faults, raced>> /\ Quiet

\* the account itself goes, at the end of delete_account and of rollback_signup
DeleteRow(i) ==
  /\ up /\ i \in DOMAIN asked /\ asked[i].at \in {"unmake", "row"} /\ MayWrite
  /\ db' = AccountDeleted(db, asked[i].user) /\ MovesTo(i, "done")
  /\ UNCHANGED <<open, kept, faults, raced>> /\ Quiet

\* delete_account: the identity is in another system, which may fail
IdentityDeleted(i) ==
  /\ IsAt(i, "identity")
  /\ \/ MovesTo(i, "row") /\ UNCHANGED faults
     \/ faults < MaxFaults /\ faults' = faults + 1 /\ MovesTo(i, "done")
  /\ UNCHANGED <<db, open, kept, raced>> /\ Quiet

\* Any other handler writes a row, a friend request say, and answers.
OtherWrites ==
  /\ up /\ MayWrite /\ promised = {}
  /\ db' = [db EXCEPT !.other = @ \cup {1}] /\ promised' = {1}
  /\ swept' = IF open # 0 THEN {1} ELSE {}
  /\ UNCHANGED <<local, up, open, kept, asked, clock, faults, crashes, raced>>

Tick ==
  /\ up /\ clock < MaxClock /\ clock' = clock + 1
  /\ UNCHANGED <<local, up, db, open, kept, asked, faults, crashes, promised, swept, raced>>

\* The process ends: requests are lost, an open transaction is rolled back.
Crash ==
  /\ up /\ crashes < MaxCrashes /\ crashes' = crashes + 1 /\ up' = FALSE
  /\ asked' = [i \in DOMAIN asked |-> [asked[i] EXCEPT !.at = "done"]]
  /\ open' = 0 /\ db' = (IF open # 0 THEN kept ELSE db) /\ kept' = Blank
  /\ UNCHANGED <<local, clock, faults, promised, swept, raced>>

\* backfill_balances at start-up, account by account, then the server serves
Ungranted == {u \in db.accounts : DOMAIN RowsOf(db.ledger[u], "signup") = {}}
Backfill(u) ==
  /\ ~up /\ u \in Ungranted
  /\ db' = Posted(Credited(db, u, StartGrant), u, StartGrant, "signup")
  /\ UNCHANGED <<local, up, open, kept, asked, clock, faults, crashes, promised, swept, raced>>

Boot ==
  /\ ~up /\ Ungranted = {} /\ up' = TRUE
  /\ UNCHANGED <<local, db, open, kept, asked, clock, faults, crashes, promised, swept, raced>>

Request(i) ==
  \/ CreateAccount(i) \/ ChecksFirst(i) \/ ChecksCap(i) \/ Begin(i) \/ FirstStatement(i)
  \/ SecondStatement(i) \/ Commit(i) \/ Fault(i) \/ MailFails(i) \/ Undo(i) \/ DeleteRow(i)
  \/ IdentityDeleted(i)

LedgerNext ==
  \/ \E kind \in Kinds, u, to \in Holders : Arrives(kind, u, to)
  \/ \E i \in DOMAIN asked : Request(i)
  \/ OtherWrites \/ Tick \/ Crash \/ Boot
  \/ \E u \in Holders : Backfill(u)

-----------------------------------------------------------------------------
\* what a user's rows add up to
TrailOf(rows) ==
  LET sum[k \in 0 .. Len(rows)] == IF k = 0 THEN 0 ELSE sum[k - 1] + rows[k].delta
  IN sum[Len(rows)]

\* "the cache can never drift from the audit trail" (economy.rs:8): outside a transaction
\* an account's balance is the sum of its ledger, save for an account whose deletion or
\* creation was broken off between its ledger and its own row (auth.rs:125, 1264-1278).
TrailKept ==
  open = 0 => \A u \in db.accounts \ db.bared : db.balance[u] = TrailOf(db.ledger[u])

\* Gifts and searches cannot overdraw (economy.rs:98, 131): a balance is below zero by penalties only.
Penalties(rows) == Cardinality(DOMAIN RowsOf(rows, "admin"))
GiftsCovered ==
  open = 0 => \A u \in db.accounts \ db.bared :
    db.balance[u] + Penalty * Penalties(db.ledger[u]) >= 0

\* The daily reward is paid once a day (economy.rs:246), the starting grant once; ad
\* rewards within cap and cooldown (economy.rs:190), save for claims whose checks
\* overlapped or read what an open transaction had changed and then took back.
DailiesApart(rows) ==
  \A j, k \in DOMAIN RowsOf(rows, "daily") : j # k => DayOf(rows[j]) # DayOf(rows[k])
GrantedOnce(rows) == \A j, k \in DOMAIN RowsOf(rows, "signup") : j = k
AdsApart(rows) == \A j, k \in DOMAIN RowsOf(rows, "ad") : j < k => rows[k].at - rows[j].at >= Cooldown
AdsCapped(rows) == \A day \in 0 .. Today : Cardinality(AdsOn(rows, day)) <= AdCap
PaidAsOwed ==
  \A u \in Holders :
    LET rows == db.ledger[u]
    IN /\ DailiesApart(rows) /\ GrantedOnce(rows)
       /\ u \notin raced => AdsApart(rows) /\ AdsCapped(rows)

\* A write that was answered is kept, save one that fell into the open transaction of
\* another request on a local database and went with it (db.rs:112, economy.rs:115, 273).
AnswersKept == open = 0 => promised \ swept \subseteq db.other

LedgerIsTrue == TrailKept /\ GiftsCovered /\ PaidAsOwed /\ AnswersKept
=============================================================================
