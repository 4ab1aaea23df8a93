------------------------------- MODULE Console -------------------------------
(***************************************************************************)
(* The moderators' console, admin/AdminApp.tsx with utils/adminSession.ts: *)
(* a key in memory, a page read again every 15 s, on a change of filter    *)
(* and after every change it makes itself.                                 *)
(***************************************************************************)
EXTENDS Integers, FiniteSets

CONSTANTS Reported,   \* reports that may be filed
          Bannable,   \* accounts that may be banned
          MaxConsoleAsks, MaxFilters

ASSUME ConsoleConstants == {MaxConsoleAsks, MaxFilters} \subseteq Nat

VARIABLES
  adminKey,     \* "none", or the key unlocked with: "good" or "bad"
  reportFilter, tab,
  overview,     \* the page has figures
  reports, bans, users, \* the copies on the screen
  banForm,      \* account filled in, 0 for none
  failed,       \* error
  queries,      \* requests under way
  filed,        \* the server's reports with their status
  banned,       \* the server's bans
  muddled,      \* history: the copy came from a crossed, outdated or misfiltered read
  queryCount, filters

consoleVars == <<adminKey, reportFilter, tab, overview, reports, bans, users, banForm, failed, queries, filed,
                 banned, muddled, queryCount, filters>>

Filters == {"open", "resolved", "all"}
Tabs == {"overview", "reports", "bans", "users"}
Jobs == {"load", "resolve", "ban", "unban", "search"}

\* GET /admin/reports, filtered by status.
Matching(f) == {r \in DOMAIN filed : filed[r] # "unfiled" /\ (f = "all" \/ filed[r] = f)}
View(f) == [reports |-> {<<r, filed[r]>> : r \in Matching(f)}, bans |-> banned]
NoView == [reports |-> {}, bans |-> {}]

ConsoleTypeOK ==
  /\ adminKey \in {"none", "good", "bad"} /\ reportFilter \in Filters /\ tab \in Tabs
  /\ {overview, failed, muddled} \subseteq BOOLEAN
  /\ reports \subseteq Reported \X {"open", "resolved"} /\ bans \subseteq Bannable /\ users \subseteq Bannable
  /\ banForm \in Bannable \cup {0} /\ banned \subseteq Bannable
  /\ filed \in [Reported -> {"unfiled", "open", "resolved"}]
  /\ \A q \in queries : q.job \in Jobs /\ q.filter \in Filters

ConsoleInit ==
  /\ adminKey = "none" /\ reportFilter = "open" /\ tab = "overview" /\ overview = FALSE /\ reports = {}
  /\ bans = {} /\ users = {} /\ banForm = 0 /\ failed = FALSE /\ queries = {}
  /\ filed \in [Reported -> {"unfiled", "open"}] /\ banned = {} /\ muddled = FALSE /\ queryCount = 0 /\ filters = 0

Screen == <<overview, reports, bans, users>>
Served == <<filed, banned>>

\* A read is alone when nothing else was under way from its start to its answer.
Unanswered(rest, job, what, f, k) ==
  /\ queryCount < MaxConsoleAsks /\ queryCount' = queryCount + 1
  /\ queries' = {[q EXCEPT !.alone = FALSE] : q \in rest} \cup
                {[id |-> queryCount, job |-> job, what |-> what, filter |-> f, key |-> k,
                  state |-> "sent", alone |-> rest = {}, view |-> NoView]}

(***************************************************************************)
(* Key, filter and tabs                                                    *)
(***************************************************************************)
Unlock(k) ==
  /\ adminKey = "none" /\ adminKey' = k /\ failed' = FALSE
  /\ Unanswered(queries, "load", 0, reportFilter, adminKey')
  /\ UNCHANGED <<reportFilter, tab, banForm, muddled, filters, Screen, Served>>

\* Lists on the screen stay in memory; only the key goes.
Lock ==
  /\ adminKey # "none" /\ adminKey' = "none"
  /\ UNCHANGED <<reportFilter, tab, banForm, failed, queries, muddled, queryCount, filters, Screen, Served>>

\* The effect on [key, load]: a new filter is a new load.
SetFilter(f) ==
  /\ adminKey # "none" /\ tab = "reports" /\ f # reportFilter /\ filters < MaxFilters
  /\ reportFilter' = f /\ filters' = filters + 1 /\ failed' = FALSE /\ muddled' = TRUE
  /\ UNCHANGED adminKey /\ Unanswered(queries, "load", 0, f, adminKey)
  /\ UNCHANGED <<tab, banForm, Screen, Served>>

SetTab(t) ==
  /\ adminKey # "none" /\ t # tab /\ tab' = t
  /\ UNCHANGED <<adminKey, reportFilter, banForm, failed, queries, muddled, queryCount, filters, Screen, Served>>

\* The interval, or the refresh button.
Poll ==
  /\ adminKey # "none" /\ failed' = FALSE /\ UNCHANGED adminKey
  /\ Unanswered(queries, "load", 0, reportFilter, adminKey')
  /\ UNCHANGED <<reportFilter, tab, banForm, muddled, filters, Screen, Served>>

(***************************************************************************)
(* Changes                                                                 *)
(***************************************************************************)
Orders(job, what) ==
  /\ adminKey # "none" /\ UNCHANGED adminKey /\ Unanswered(queries, job, what, reportFilter, adminKey)
  /\ UNCHANGED <<reportFilter, tab, banForm, failed, muddled, filters, Screen, Served>>

Resolve(r) == tab = "reports" /\ <<r, "open">> \in reports /\ Orders("resolve", r)
SubmitBan == tab = "bans" /\ banForm # 0 /\ Orders("ban", banForm)
RemoveBan(b) == tab = "bans" /\ b \in bans /\ Orders("unban", b)
SearchUsers == tab = "users" /\ Orders("search", 0)

\* banReporter and ban fill the form and move to it.
FillBan(b) ==
  /\ adminKey # "none" /\ tab \in {"reports", "users"}
  /\ tab = "users" => b \in users
  /\ tab = "reports" => reports # {}
  /\ banForm' = b /\ tab' = "bans"
  /\ UNCHANGED <<adminKey, reportFilter, failed, queries, muddled, queryCount, filters, Screen, Served>>

(***************************************************************************)
(* The server                                                              *)
(***************************************************************************)
QueryServed(q) ==
  /\ q.state = "sent"
  /\ LET done(s) == queries' = (queries \ {q}) \cup {[q EXCEPT !.state = s, !.view = IF s = "ok" THEN View(q.filter) ELSE NoView]}
     IN \/ /\ q.key = "good" /\ q.job \in {"load", "search"} /\ done("ok") /\ UNCHANGED Served
        \/ /\ q.key = "good" /\ q.job = "resolve" /\ filed' = [filed EXCEPT ![q.what] = "resolved"]
           /\ UNCHANGED banned /\ done("ok")
        \/ /\ q.key = "good" /\ q.job \in {"ban", "unban"} /\ UNCHANGED filed /\ done("ok")
           /\ banned' = IF q.job = "ban" THEN banned \cup {q.what} ELSE banned \ {q.what}
        \/ done("refused") /\ UNCHANGED Served
  /\ UNCHANGED <<adminKey, reportFilter, tab, banForm, failed, muddled, queryCount, filters, Screen>>

\* A report comes in, or another moderator acts: the page learns of it from its next read.
Elsewhere ==
  /\ \E r \in Reported :
       \/ filed[r] = "unfiled" /\ filed' = [filed EXCEPT ![r] = "open"]
       \/ filed[r] = "open" /\ filed' = [filed EXCEPT ![r] = "resolved"]
  /\ muddled' = TRUE
  /\ UNCHANGED <<adminKey, reportFilter, tab, banForm, failed, queries, queryCount, filters, banned, Screen>>

(***************************************************************************)
(* Answers                                                                 *)
(***************************************************************************)
\* All three reads or none; a failure takes the figures away and leaves the lists.
LoadAnswers(q) ==
  /\ q.job = "load" /\ q.state # "sent" /\ queries' = queries \ {q}
  /\ IF q.state = "ok"
     THEN /\ overview' = TRUE /\ reports' = q.view.reports /\ bans' = q.view.bans /\ UNCHANGED failed
          /\ muddled' = (~q.alone \/ q.view # View(q.filter) \/ q.filter # reportFilter)
     ELSE overview' = FALSE /\ failed' = TRUE /\ UNCHANGED <<reports, bans, muddled>>
  /\ tab' = IF q.what # 0 THEN "bans" ELSE tab
  /\ UNCHANGED <<adminKey, reportFilter, users, banForm, queryCount, filters, Served>>

\* The load that follows a change is the one of the render it was clicked in, old filter and old key
\* included; the one after a ban moves to the bans when it answers.
\* A refused resolve is an unhandled rejection: no message, no load.
ChangeAnswers(q) ==
  /\ q.job \in {"resolve", "ban", "unban"} /\ q.state # "sent"
  /\ IF q.state = "ok"
     THEN /\ failed' = FALSE /\ banForm' = IF q.job = "ban" THEN 0 ELSE banForm
          /\ Unanswered(queries \ {q}, "load", IF q.job = "ban" THEN q.what ELSE 0, q.filter, q.key)
     ELSE /\ queries' = queries \ {q} /\ failed' = (failed \/ q.job # "resolve")
          /\ UNCHANGED <<banForm, queryCount>>
  /\ UNCHANGED <<adminKey, tab, reportFilter, muddled, filters, Screen, Served>>

SearchAnswers(q) ==
  /\ q.job = "search" /\ q.state # "sent" /\ queries' = queries \ {q}
  /\ IF q.state = "ok"
     THEN \E found \in SUBSET Bannable : users' = found /\ tab' = "users" /\ UNCHANGED failed
     ELSE failed' = TRUE /\ UNCHANGED <<users, tab>>
  /\ UNCHANGED <<adminKey, reportFilter, overview, reports, bans, banForm, muddled, queryCount, filters, Served>>

ConsoleNext ==
  \/ \E k \in {"good", "bad"} : Unlock(k)
  \/ Lock \/ Poll \/ SubmitBan \/ SearchUsers \/ Elsewhere
  \/ \E f \in Filters : SetFilter(f)
  \/ \E t \in Tabs : SetTab(t)
  \/ \E r \in Reported : Resolve(r)
  \/ \E b \in Bannable : RemoveBan(b) \/ FillBan(b)
  \/ \E q \in queries : QueryServed(q) \/ LoadAnswers(q) \/ ChangeAnswers(q) \/ SearchAnswers(q)

-----------------------------------------------------------------------------
(***************************************************************************)
(* ConsoleIsTrue: with nothing under way and figures on the page, the      *)
(* reports shown are the server's under the filter that is lit and the     *)
(* bans are the server's, whatever was resolved, banned or refused before; *)
(* one read of its own heals every crossing (AdminApp.tsx:100-169,         *)
(* 366-379).                                                               *)
(***************************************************************************)
ConsoleIsTrue ==
  (overview /\ adminKey = "good" /\ queries = {} /\ ~muddled) =>
    [reports |-> reports, bans |-> bans] = View(reportFilter)
=============================================================================
