------------------------------- MODULE Wallet -------------------------------
(***************************************************************************)
(* Points as the pages show them: the balance of App.tsx, the panel of     *)
(* components/EconomyPanel.tsx and the account page of                     *)
(* components/SettingsModal.tsx, against domain/economy.rs.  Every answer  *)
(* carries the balance as it was when the server gave it.                  *)
(***************************************************************************)
EXTENDS Integers, FiniteSets

CONSTANTS Purse,       \* points the account starts with
          Reward, Price, \* ECONOMY_AD_REWARD, and what a gift or a search costs
          MaxAsks,     \* requests sent
          MaxSpends    \* times the balance changes on the server alone

ASSUME WalletConstants == {Purse, Reward, Price, MaxAsks, MaxSpends} \subseteq Nat /\ Price > 0

VARIABLES
  account,   \* user # null
  coins,     \* users.points_balance
  cooling,   \* the server's ad cooldown
  points,    \* App's copy, -1 for none
  panel,     \* number of the panel that is open, 0 for none
  balance,   \* the panel's copy
  adViewing, \* the placeholder ad runs
  nextClaim, \* the panel waits for the cooldown
  panelLoading,
  purseAsks, \* requests under way
  settings,  \* the account page: closed, open, or asking to delete the account
  blockRows, blockList, \* the server's blocks and the page's copy
  untold,   \* history: the balance changed with nobody told, or answers crossed
  panels, askCount, spends

walletVars == <<account, coins, cooling, points, panel, balance, adViewing, nextClaim, panelLoading, purseAsks,
                settings, blockRows, blockList, untold, panels, askCount, spends>>

AskKinds == {"app", "panel", "claim", "gift", "blocks", "unblock", "delete"}

WalletTypeOK ==
  /\ {account, cooling, adViewing, nextClaim, panelLoading, blockRows, blockList, untold} \subseteq BOOLEAN
  /\ coins \in 0..(Purse + (MaxAsks + MaxSpends) * Reward)
  /\ {points, balance} \subseteq -1..(Purse + (MaxAsks + MaxSpends) * Reward)
  /\ panel \in 0..MaxAsks /\ settings \in {"closed", "open", "confirm"}
  /\ \A a \in purseAsks : a.kind \in AskKinds /\ a.from \in 0..MaxAsks

WalletInit ==
  /\ account = FALSE /\ coins = Purse /\ cooling = FALSE /\ points = -1 /\ panel = 0 /\ balance = -1
  /\ adViewing = FALSE /\ nextClaim = FALSE /\ panelLoading = FALSE /\ purseAsks = {} /\ settings = "closed"
  /\ blockRows = TRUE /\ blockList = FALSE /\ untold = FALSE /\ panels = 0 /\ askCount = 0 /\ spends = 0

PanelVars == <<panel, balance, adViewing, nextClaim, panelLoading, panels>>
ServerVars == <<coins, cooling, blockRows>>
Money(a) == a.kind \in {"app", "panel", "claim", "gift"}

\* Nothing orders two answers about the balance.
PanelAsks(kinds) ==
  /\ askCount < MaxAsks /\ askCount' = askCount + 1
  /\ LET new == {[kind |-> k, from |-> panel', state |-> "sent", value |-> -1] : k \in kinds} IN
       /\ new \cap purseAsks = {}
       /\ purseAsks' = purseAsks \cup new
       /\ untold' = (untold \/ \E a \in purseAsks : Money(a) /\ \E b \in new : Money(b))

(***************************************************************************)
(* The pages                                                               *)
(***************************************************************************)
\* The effect of App on [user]: null clears the copy, an account reads it.
SignedInTo ==
  /\ ~account /\ account' = TRUE /\ UNCHANGED PanelVars /\ PanelAsks({"app"})
  /\ UNCHANGED <<points, settings, blockList, spends, ServerVars>>

SignedOut ==
  /\ account /\ account' = FALSE /\ points' = -1 /\ settings' = "closed" /\ panel' = 0
  /\ adViewing' = FALSE
  /\ UNCHANGED <<balance, nextClaim, panelLoading, panels, purseAsks, blockList, untold, askCount, spends, ServerVars>>

OpenEconomy ==
  /\ account /\ panel = 0 /\ panels < MaxAsks /\ panels' = panels + 1 /\ panel' = panels'
  /\ balance' = -1 /\ adViewing' = FALSE /\ nextClaim' = FALSE /\ panelLoading' = FALSE
  /\ PanelAsks({"panel"})
  /\ UNCHANGED <<account, points, settings, blockList, spends, ServerVars>>

\* Closing stops the ad before its claim.
CloseEconomy ==
  /\ panel # 0 /\ panel' = 0 /\ adViewing' = FALSE
  /\ UNCHANGED <<account, points, balance, nextClaim, panelLoading, panels, purseAsks, settings, blockList, untold,
                 askCount, spends, ServerVars>>

WatchAd ==
  /\ panel # 0 /\ ~adViewing /\ ~nextClaim /\ ~panelLoading /\ adViewing' = TRUE
  /\ UNCHANGED <<account, points, panel, balance, nextClaim, panelLoading, panels, purseAsks, settings, blockList,
                 untold, askCount, spends, ServerVars>>

AdEnds ==
  /\ adViewing /\ adViewing' = FALSE /\ panelLoading' = TRUE
  /\ UNCHANGED <<panel, balance, nextClaim, panels>> /\ PanelAsks({"claim"})
  /\ UNCHANGED <<account, points, settings, blockList, spends, ServerVars>>

\* The form of a gift is not closed by a running ad.
SubmitGift ==
  /\ panel # 0 /\ ~panelLoading /\ panelLoading' = TRUE
  /\ UNCHANGED <<panel, balance, adViewing, nextClaim, panels>> /\ PanelAsks({"gift"})
  /\ UNCHANGED <<account, points, settings, blockList, spends, ServerVars>>

CooldownOver ==
  /\ cooling /\ cooling' = FALSE /\ nextClaim' = FALSE
  /\ UNCHANGED <<account, coins, points, panel, balance, adViewing, panelLoading, panels, purseAsks, settings,
                 blockRows, blockList, untold, askCount, spends>>

(***************************************************************************)
(* The server                                                              *)
(***************************************************************************)
Finished(a, state, value) == purseAsks' = (purseAsks \ {a}) \cup {[a EXCEPT !.state = state, !.value = value]}

AskServed(a) ==
  /\ a.state = "sent"
  /\ \/ a.kind \in {"app", "panel"} /\ Finished(a, "ok", coins) /\ UNCHANGED ServerVars
     \/ /\ a.kind = "claim" /\ ~cooling
        /\ coins' = coins + Reward /\ cooling' = TRUE /\ UNCHANGED blockRows
        /\ Finished(a, "ok", coins')
     \/ /\ a.kind = "gift" /\ coins >= Price
        /\ coins' = coins - Price /\ UNCHANGED <<cooling, blockRows>>
        /\ Finished(a, "ok", coins')
     \/ a.kind = "blocks" /\ Finished(a, "ok", IF blockRows THEN 1 ELSE 0) /\ UNCHANGED ServerVars
     \/ a.kind = "unblock" /\ blockRows' = FALSE /\ Finished(a, "ok", 0) /\ UNCHANGED <<coins, cooling>>
     \/ a.kind = "delete" /\ Finished(a, "ok", 0) /\ UNCHANGED ServerVars
     \/ Finished(a, "refused", -1) /\ UNCHANGED ServerVars
  /\ UNCHANGED <<account, points, settings, blockList, untold, askCount, spends, PanelVars>>

\* The daily grant, a gift received or an admin's adjustment; the price of a search.  Nobody tells the page.
BalanceChanges ==
  /\ account /\ spends < MaxSpends /\ spends' = spends + 1 /\ untold' = TRUE
  /\ coins' \in {coins + Reward} \cup (IF coins >= Price THEN {coins - Price} ELSE {})
  /\ UNCHANGED <<account, cooling, points, purseAsks, settings, blockRows, blockList, askCount, PanelVars>>

(***************************************************************************)
(* Answers                                                                 *)
(***************************************************************************)
\* onBalance outlives the panel; a failed read of App clears its copy, a failed read of the panel only says so.
PurseAnswers(a) ==
  /\ a.state # "sent" /\ Money(a) /\ purseAsks' = purseAsks \ {a}
  /\ LET here == panel # 0 /\ a.from = panel IN
       /\ balance' = IF here /\ a.kind # "app" /\ a.state = "ok" THEN a.value ELSE balance
       /\ points' = IF a.state = "ok" THEN a.value ELSE IF a.kind = "app" THEN -1 ELSE points
       /\ panelLoading' = (panelLoading /\ ~(here /\ a.kind \in {"claim", "gift"}))
       /\ nextClaim' = (nextClaim \/ (here /\ a.kind = "claim" /\ a.state = "ok" /\ cooling))
  /\ UNCHANGED <<account, panel, adViewing, panels, settings, blockList, untold, askCount, spends, ServerVars>>

(***************************************************************************)
(* The account page                                                        *)
(***************************************************************************)
OpenSettings ==
  /\ account /\ settings = "closed" /\ settings' = "open" /\ blockList' = FALSE
  /\ UNCHANGED PanelVars /\ PanelAsks({"blocks"})
  /\ UNCHANGED <<account, points, spends, ServerVars>>

CloseSettings ==
  /\ settings # "closed" /\ settings' = "closed"
  /\ UNCHANGED <<account, points, purseAsks, blockList, untold, askCount, spends, ServerVars, PanelVars>>

Unblock ==
  /\ settings = "open" /\ blockList /\ UNCHANGED PanelVars /\ PanelAsks({"unblock"})
  /\ UNCHANGED <<account, points, settings, blockList, spends, ServerVars>>

\* useConfirm: a question, then the delete or nothing.
AskToDelete ==
  /\ settings = "open" /\ settings' = "confirm"
  /\ UNCHANGED <<account, points, purseAsks, blockList, untold, askCount, spends, ServerVars, PanelVars>>

ConfirmDelete(yes) ==
  /\ settings = "confirm" /\ settings' = "open" /\ UNCHANGED PanelVars
  /\ IF yes THEN PanelAsks({"delete"}) ELSE UNCHANGED <<askCount, purseAsks, untold>>
  /\ UNCHANGED <<account, points, blockList, spends, ServerVars>>

\* clearSession, onDeleted and onClose: the effect of App then clears the balance.
SettingsAnswers(a) ==
  /\ a.state # "sent" /\ ~Money(a) /\ purseAsks' = purseAsks \ {a}
  /\ blockList' = CASE a.state = "refused" \/ settings = "closed" -> blockList
                    [] a.kind = "blocks" -> a.value = 1
                    [] a.kind = "unblock" -> FALSE
                    [] OTHER -> blockList
  /\ IF a.kind = "delete" /\ a.state = "ok"
     THEN account' = FALSE /\ points' = -1 /\ settings' = "closed" /\ panel' = 0 /\ adViewing' = FALSE
     ELSE UNCHANGED <<account, points, settings, panel, adViewing>>
  /\ UNCHANGED <<balance, nextClaim, panelLoading, panels, untold, askCount, spends, ServerVars>>

WalletNext ==
  \/ SignedInTo \/ SignedOut \/ OpenEconomy \/ CloseEconomy \/ WatchAd \/ AdEnds \/ SubmitGift
  \/ CooldownOver \/ BalanceChanges
  \/ OpenSettings \/ CloseSettings \/ Unblock \/ AskToDelete \/ \E yes \in BOOLEAN : ConfirmDelete(yes)
  \/ \E a \in purseAsks : AskServed(a) \/ PurseAnswers(a) \/ SettingsAnswers(a)

-----------------------------------------------------------------------------
(***************************************************************************)
(* PointsAreTrue: with no request about the balance under way, what the    *)
(* page and the panel show is what the server holds, unless the balance    *)
(* changed without the page being told (a search's price, a gift received, *)
(* EconomyPanel.tsx:47-111, App.tsx:191-200) or two answers crossed.       *)
(***************************************************************************)
PointsAreTrue ==
  (account /\ ~untold /\ \A a \in purseAsks : ~Money(a)) =>
    /\ points \in {-1, coins}
    /\ panel # 0 => balance \in {-1, points}
=============================================================================
