------------------------------ MODULE MCClient ------------------------------
(***************************************************************************)
(* The other parts of the browser client for TLC.  They share no state, so *)
(* a scene explores one of them from its initial states while the others   *)
(* stand still, and one search covers them all.                            *)
(***************************************************************************)
EXTENDS Media, Denoise, LinkQuality, TicTacToe, CallParty, CallStage, Identity,
        CallControls, SocialChat, SocialRoster, ProfileEditor, ProfilePage,
        Wallet, Console, Preferences, TLC

\* an adult account, and one that has not given its date of birth
Births == (1 :> "adult") @@ (2 :> "none")

VARIABLE scene

clientVars ==
  <<scene, mediaVars, denoiseVars, linkVars, gameVars, partyVars, stageVars, identityVars,
    controlsVars, chatVars, rosterVars, editorVars, profileVars, walletVars, consoleVars, prefsVars>>

Scenes == {"media", "denoise", "links", "game", "party", "stage", "identity",
           "controls", "chat", "roster", "editor", "page", "wallet", "console", "prefs"}

ClientInit ==
  /\ scene \in Scenes
  /\ MediaInit /\ DenoiseInit /\ LinkInit /\ GameInit
  /\ PartyInit /\ StageInit /\ IdentityInit /\ ControlsInit
  /\ ChatInit /\ RosterInit /\ EditorInit /\ ProfilePageInit
  /\ WalletInit /\ ConsoleInit /\ PreferencesInit
  \* those that stand still do so in one state
  /\ scene # "media" => capable /\ picked.video = 0
  /\ scene # "denoise" => denoiseOn
  /\ scene # "links" => ~meshed
  /\ scene # "game" => seated = Player
  /\ scene # "identity" => server = "cookie" /\ persistent /\ ~verifyLink
  /\ scene # "controls" => signedIn
  /\ scene # "roster" => \A p \in People : bond[p] = "none"
  /\ scene # "page" => viewerIn /\ following = {}
  /\ scene # "prefs" => storing
  /\ scene # "console" => \A p \in Reported : filed[p] = "open"

ClientNext ==
  \/ /\ scene = "media" /\ MediaNext
     /\ UNCHANGED <<scene, denoiseVars, linkVars, gameVars, partyVars, stageVars, identityVars,
                    controlsVars, chatVars, rosterVars, editorVars, profileVars, walletVars, consoleVars, prefsVars>>
  \/ /\ scene = "denoise" /\ DenoiseNext
     /\ UNCHANGED <<scene, mediaVars, linkVars, gameVars, partyVars, stageVars, identityVars,
                    controlsVars, chatVars, rosterVars, editorVars, profileVars, walletVars, consoleVars, prefsVars>>
  \/ /\ scene = "links" /\ LinkNext
     /\ UNCHANGED <<scene, mediaVars, denoiseVars, gameVars, partyVars, stageVars, identityVars,
                    controlsVars, chatVars, rosterVars, editorVars, profileVars, walletVars, consoleVars, prefsVars>>
  \/ /\ scene = "game" /\ GameNext
     /\ UNCHANGED <<scene, mediaVars, denoiseVars, linkVars, partyVars, stageVars, identityVars,
                    controlsVars, chatVars, rosterVars, editorVars, profileVars, walletVars, consoleVars, prefsVars>>
  \/ /\ scene = "party" /\ strayed = {} /\ PartyNext
     /\ UNCHANGED <<scene, mediaVars, denoiseVars, linkVars, gameVars, stageVars, identityVars,
                    controlsVars, chatVars, rosterVars, editorVars, profileVars, walletVars, consoleVars, prefsVars>>
  \/ /\ scene = "stage" /\ StageNext
     /\ UNCHANGED <<scene, mediaVars, denoiseVars, linkVars, gameVars, partyVars, identityVars,
                    controlsVars, chatVars, rosterVars, editorVars, profileVars, walletVars, consoleVars, prefsVars>>
  \/ /\ scene = "identity" /\ IdentityNext
     /\ UNCHANGED <<scene, mediaVars, denoiseVars, linkVars, gameVars, partyVars, stageVars,
                    controlsVars, chatVars, rosterVars, editorVars, profileVars, walletVars, consoleVars, prefsVars>>
  \/ /\ scene = "controls" /\ ControlsNext
     /\ UNCHANGED <<scene, mediaVars, denoiseVars, linkVars, gameVars, partyVars, stageVars,
                    identityVars, chatVars, rosterVars, editorVars, profileVars, walletVars, consoleVars, prefsVars>>
  \/ /\ scene = "chat" /\ ChatNext
     /\ UNCHANGED <<scene, mediaVars, denoiseVars, linkVars, gameVars, partyVars, stageVars,
                    identityVars, controlsVars, rosterVars, editorVars, profileVars, walletVars, consoleVars, prefsVars>>
  \/ /\ scene = "roster" /\ RosterNext
     /\ UNCHANGED <<scene, mediaVars, denoiseVars, linkVars, gameVars, partyVars, stageVars,
                    identityVars, controlsVars, chatVars, editorVars, profileVars, walletVars, consoleVars, prefsVars>>
  \/ /\ scene = "editor" /\ ~crossed /\ EditorNext
     /\ UNCHANGED <<scene, mediaVars, denoiseVars, linkVars, gameVars, partyVars, stageVars,
                    identityVars, controlsVars, chatVars, rosterVars, profileVars, walletVars, consoleVars, prefsVars>>
  \/ /\ scene = "page" /\ ~met /\ ProfilePageNext
     /\ UNCHANGED <<scene, mediaVars, denoiseVars, linkVars, gameVars, partyVars, stageVars,
                    identityVars, controlsVars, chatVars, rosterVars, editorVars, walletVars, consoleVars, prefsVars>>
  \/ /\ scene = "wallet" /\ ~untold /\ WalletNext
     /\ UNCHANGED <<scene, mediaVars, denoiseVars, linkVars, gameVars, partyVars, stageVars,
                    identityVars, controlsVars, chatVars, rosterVars, editorVars, profileVars, consoleVars, prefsVars>>
  \/ /\ scene = "console" /\ ConsoleNext
     /\ UNCHANGED <<scene, mediaVars, denoiseVars, linkVars, gameVars, partyVars, stageVars,
                    identityVars, controlsVars, chatVars, rosterVars, editorVars, profileVars, walletVars, prefsVars>>
  \/ /\ scene = "prefs" /\ ~mislaid /\ PreferencesNext
     /\ UNCHANGED <<scene, mediaVars, denoiseVars, linkVars, gameVars, partyVars, stageVars,
                    identityVars, controlsVars, chatVars, rosterVars, editorVars, profileVars, walletVars,
                    consoleVars>>

ClientSpec == ClientInit /\ [][ClientNext]_clientVars

-----------------------------------------------------------------------------
\* Every variable of the module that a scene explores keeps its type; those of the others
\* keep the value that they have in an initial state of their own scene.
ClientTypeOK ==
  /\ scene = "media" => MediaTypeOK
  /\ scene = "denoise" => DenoiseTypeOK
  /\ scene = "links" => LinkTypeOK
  /\ scene = "game" => GameTypeOK
  /\ scene = "party" => PartyTypeOK
  /\ scene = "stage" => StageTypeOK
  /\ scene = "identity" => IdentityTypeOK
  /\ scene = "controls" => ControlsTypeOK
  /\ scene = "chat" => ChatTypeOK
  /\ scene = "roster" => RosterTypeOK
  /\ scene = "editor" => EditorTypeOK
  /\ scene = "page" => ProfilePageTypeOK
  /\ scene = "wallet" => WalletTypeOK
  /\ scene = "console" => ConsoleTypeOK
  /\ scene = "prefs" => PreferencesTypeOK

\* Every open device is one that stop and mute reach, a muted microphone is never opened
\* live again, save for overlapping acquisitions (useMedia.ts:213-218), and the track that
\* is published carries the microphone that is open (useDenoiser.ts).
MediaIsTrue == DevicesOwned /\ MuteHolds /\ DenoisedMicHeard

\* Whoever has the floor can be heard whenever somebody speaks, the spotlight has a tile
\* unless the floor is with somebody who left, and the quality badge is about a connection
\* kept or being made, save for those a clear() did not find and those that left it behind
\* (useSpeakerFocus.ts, VideoStage.tsx, useWebRTC.ts).
StageIsTrue == FloorIsHeard /\ SpotlightHolds /\ BadgeOfCall

\* The two boards of a game agree once its messages came, unless one went out while a frame
\* was not there, and the party a call shows is that of its own group, save for the answers
\* and the change of room that the part names (tictactoe, useCallParty.ts).
GamesAreTrue == BoardsConverge /\ PartyOfThisCall

\* The page and the server agree on who is signed in once all is quiet, and no match
\* starts before an adult date was given (useSessionBootstrap.ts, clientStorage.ts).
IdentityIsTrue == IdentityAgrees /\ GateKept

\* Badges count what came, the thread is that of the open conversation unless an answer
\* came under another one, and the lists of friends, requests and profiles settle on what
\* the server has (useSocialData.ts, PeoplePanel.tsx).
SocialIsTrue == UnreadIsWhatCame /\ ThreadIsOfItsChat /\ RosterSettles

\* What the profile editor and the preferences show is what they keep and what was typed
\* or chosen there, save for saves that overlap or fail (ProfileEditPage.tsx, App.tsx:66-123).
ChosenIsKept == SavedIsTyped /\ FiltersAreTrue

\* Pages that wait for no answer show what the server has: the follow state of a profile,
\* the points of the account and the lists of the console, save for the overlaps the
\* parts name (ProfileActions.tsx, EconomyPanel.tsx, AdminApp.tsx).
QuietPagesAreTrue == FollowIsTrue /\ PointsAreTrue /\ ConsoleIsTrue
=============================================================================
