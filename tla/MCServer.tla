------------------------------ MODULE MCServer ------------------------------
(***************************************************************************)
(* The parts of the server beside matchmaking for TLC.  They share no      *)
(* state, so a scene explores one of them while the others stand still.    *)
(***************************************************************************)
EXTENDS Admission, Presence, Ledger, Seats, Bonds, Groups, TLC

\* preferences with every kind of value, absent and malformed ones too
MCRawPreferences ==
    [country : {"es", "fr", Malformed}, gender : {"male", "female", Malformed},
     lookingFor : {"male", Malformed}, allowMatchWithSameUsers : {FALSE, Malformed},
     matchPool : {"registered", Malformed}, mode : {"solo", "group"}]

\* two friends with a page each
Owners == (1 :> 1) @@ (2 :> 2)
Friendship == (1 :> {2}) @@ (2 :> {1})

VARIABLE scene

serverVars == <<scene, vars, presenceVars, ledgerVars, seatsVars, bondVars, groupsVars>>

ServerInit ==
  /\ scene \in {"admission", "presence", "ledger", "seats", "bonds", "groups"}
  /\ Init /\ PresenceInit /\ LedgerInit /\ SeatsInit /\ BondsInit /\ GroupsInit
  \* those that stand still do so in one state
  /\ scene # "ledger" => local
  /\ scene # "groups" => keyed /\ Len(roll[1]) = 2

ServerNext ==
  \/ /\ scene = "admission" /\ Next
     /\ UNCHANGED <<scene, presenceVars, ledgerVars, seatsVars, bondVars, groupsVars>>
  \/ /\ scene = "presence" /\ doubted = {} /\ dropped = {} /\ PresenceNext
     /\ UNCHANGED <<scene, vars, ledgerVars, seatsVars, bondVars, groupsVars>>
  \/ /\ scene = "ledger" /\ LedgerNext
     /\ UNCHANGED <<scene, vars, presenceVars, seatsVars, bondVars, groupsVars>>
  \/ /\ scene = "seats" /\ SeatsNext
     /\ UNCHANGED <<scene, vars, presenceVars, ledgerVars, bondVars, groupsVars>>
  \/ /\ scene = "bonds" /\ BondsNext
     /\ UNCHANGED <<scene, vars, presenceVars, ledgerVars, seatsVars, groupsVars>>
  \/ /\ scene = "groups" /\ disturbed = {} /\ late = {} /\ mistaken = {} /\ GroupsNext
     /\ UNCHANGED <<scene, vars, presenceVars, ledgerVars, seatsVars, bondVars>>

ServerSpec == ServerInit /\ [][ServerNext]_serverVars

-----------------------------------------------------------------------------
\* Every variable of the modules keeps its type (TypeOK is Admission's).
ServerTypeOK == PresenceTypeOK /\ LedgerTypeOK /\ SeatsTypeOK /\ BondsTypeOK /\ GroupsTypeOK

\* The rows of games, friend requests and groups say what the people asked for, although
\* no operation on them is a transaction, save for the crossings the parts name
\* (activities.rs, friends.rs, groups.rs).
RecordsAreTrue == SeatsAreTrue /\ BothWishIt /\ GroupsAreTrue
=============================================================================
