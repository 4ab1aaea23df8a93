---------------------------- MODULE Preferences ----------------------------
(***************************************************************************)
(* The match filters of the page and where else they are kept: the browser *)
(* (api.ts loadPrefs and savePrefs, utils/storage.ts), the account         *)
(* (PATCH auth/preferences when the dialog closes, and every answer that   *)
(* names the account), and what is chosen in the dialog, on the deck and   *)
(* in the wizard (PreferencesModal.tsx, ControlDeck.tsx,                   *)
(* StartMatchModal.tsx).  The layout and the language stay in the browser. *)
(* A filter set has three parts that behave differently: the traits an     *)
(* account keeps (country, language, gender, interests), the wants only    *)
(* the browser keeps (lookingFor, matchPool, allowMatchWithSameUsers), and *)
(* the scope (mode, matchScope) the wizard sets and every account resets.  *)
(***************************************************************************)
EXTENDS Naturals, FiniteSets

CONSTANTS Members,                              \* accounts, numbers above 0
          Values,                               \* of each part; 0 is the default
          MaxPicks, MaxPatches, MaxReturns, MaxSignIns, MaxStrays

ASSUME PreferencesConstants ==
  /\ Members \subseteq Nat \ {0} /\ Values \subseteq Nat /\ 0 \in Values
  /\ {MaxPicks, MaxPatches, MaxReturns, MaxSignIns, MaxStrays} \subseteq Nat

VARIABLES
  storing,          \* localStorage works
  prefs, kept,      \* shown by the page; in the browser's storage
  view, keptView,   \* layout and locale: shown, stored
  traitsOf,         \* what the server has for each account
  cookieOf,         \* whom the cookie names
  member,           \* whom the page shows as signed in
  openSheet,        \* "none", "preferences" or "wizard"
  wizardScope,      \* the scope picked in the wizard
  starting,         \* a match is on its way to the queue: from the deck, from the wizard, or "no"
  confirmed,        \* the scope the wizard started it with, or Free
  sought,           \* the filters last sent to the queue, and the scope they were to carry
  questions,        \* per kind of question, the account it is about and, once read, its traits
  patches,          \* saves on their way to the server
  wanted,           \* the wants last chosen (history)
  aside,            \* traits were changed where no save follows (history)
  mislaid,          \* a save or an answer was lost, or overtook another (history)
  picks, sent, returns, signIns, strays

prefCounts == <<picks, sent, returns, signIns, strays>>
browserVars == <<storing, view, keptView>>
filterVars == <<prefs, kept>>
serverVars == <<traitsOf, cookieOf>>
wizardVars == <<wizardScope, starting, confirmed, sought>>
historyVars == <<wanted, aside, mislaid>>
prefsVars == <<browserVars, filterVars, serverVars, wizardVars, historyVars, member, openSheet, questions,
               patches, prefCounts>>

FilterSets == [traits : Values, wants : Values, scope : Values]
Defaults == [traits |-> 0, wants |-> 0, scope |-> 0]
Views == {"layout", "locale"}
Visitor == 0                                  \* nobody is signed in
Free == {}                                    \* no scope was confirmed; else {scope}
NotAsked == [state |-> "none", who |-> Visitor, traits |-> 0]
Questions == {"me", "login"}

PreferencesTypeOK ==
  /\ storing \in BOOLEAN /\ {prefs, kept} \subseteq FilterSets
  /\ {view, keptView} \subseteq [Views -> Values] /\ traitsOf \in [Members -> Values]
  /\ {cookieOf, member} \subseteq Members \cup {Visitor}
  /\ openSheet \in {"none", "preferences", "wizard"} /\ wizardScope \in Values
  /\ starting \in {"no", "deck", "wizard"} /\ confirmed \subseteq Values
  /\ sought.prefs \in FilterSets /\ sought.scope \subseteq Values
  /\ questions \in [Questions -> [state : {"none", "sent", "read"}, who : Members \cup {Visitor},
                                   traits : Values]]
  /\ patches \subseteq [n : 1 .. MaxPatches, who : Members \cup {Visitor}, traits : Values]
  /\ wanted \in Values /\ {aside, mislaid} \subseteq BOOLEAN

\* setJSON: a browser that refuses is left as it was
Saved(old, new) == IF storing THEN new ELSE old

\* setPrefs of App.tsx
SetPrefs(f) == prefs' = f /\ kept' = Saved(kept, f)

PreferencesInit ==
  /\ storing \in BOOLEAN /\ prefs = Defaults /\ kept = Defaults
  /\ view = [v \in Views |-> 0] /\ keptView = view
  /\ traitsOf = [a \in Members |-> 0] /\ cookieOf = Visitor /\ member = Visitor
  /\ openSheet = "none" /\ wizardScope = 0 /\ starting = "no" /\ confirmed = Free
  /\ sought = [prefs |-> Defaults, scope |-> Free]
  /\ questions = [q \in Questions |-> NotAsked] /\ patches = {}
  /\ wanted = 0 /\ aside = FALSE /\ mislaid = FALSE
  /\ picks = 0 /\ sent = 0 /\ returns = 0 /\ signIns = 0 /\ strays = 0

(***************************************************************************)
(* The account                                                             *)
(***************************************************************************)
AllQuiet == patches = {} /\ \A q \in Questions : questions[q] = NotAsked

\* applyUser with applyUserToClient: the traits of the account, the wants of the browser, and
\* the scope of a first visit; the public profile always has traits (auth/session.rs:211)
ApplyTraits(a, traits) ==
  /\ member' = a /\ aside' = FALSE /\ confirmed' = Free
  /\ SetPrefs([traits |-> traits, wants |-> kept.wants, scope |-> 0])

\* The page is loaded again and asks who it is.
Return ==
  /\ returns < MaxReturns /\ returns' = returns + 1
  /\ prefs' = kept /\ view' = keptView /\ member' = IF storing THEN member ELSE Visitor
  /\ openSheet' = "none" /\ starting' = "no" /\ confirmed' = Free
  /\ questions' = [q \in Questions |->
                     IF q = "me" THEN [NotAsked EXCEPT !.state = "sent", !.who = cookieOf] ELSE NotAsked]
  /\ mislaid' = (patches # {} \/ questions["login"] # NotAsked)
  /\ UNCHANGED <<storing, keptView, kept, serverVars, wizardScope, sought, wanted, aside, patches,
                 picks, sent, signIns, strays>>

\* submit of AuthModal
SignIn(a) ==
  /\ member = Visitor /\ questions["login"] = NotAsked /\ signIns < MaxSignIns /\ signIns' = signIns + 1
  /\ questions' = [questions EXCEPT !["login"] = [NotAsked EXCEPT !.state = "sent", !.who = a]]
  /\ mislaid' = (mislaid \/ ~AllQuiet)
  /\ UNCHANGED <<browserVars, filterVars, serverVars, wizardVars, wanted, aside, member,
                 openSheet, patches, picks, sent, returns, strays>>

\* the server reads the account; a login sets the cookie
ReadsAccount(q) ==
  /\ questions[q].state = "sent"
  /\ questions' = [questions EXCEPT ![q].state = "read",
                                    ![q].traits = IF questions[q].who = Visitor THEN 0
                                                  ELSE traitsOf[questions[q].who]]
  /\ cookieOf' = IF q = "login" THEN questions[q].who ELSE cookieOf
  /\ UNCHANGED <<browserVars, filterVars, traitsOf, wizardVars, historyVars, member, openSheet,
                 patches, prefCounts>>

\* the answer names an account, or nobody: the filters then stay
AccountAnswers(q) ==
  /\ questions[q].state = "read" /\ questions' = [questions EXCEPT ![q] = NotAsked]
  /\ IF questions[q].who = Visitor
     THEN member' = Visitor /\ UNCHANGED <<prefs, kept, aside, confirmed>>
     ELSE ApplyTraits(questions[q].who, questions[q].traits)
  /\ UNCHANGED <<browserVars, serverVars, wizardScope, starting, sought, wanted, mislaid,
                 openSheet, patches, prefCounts>>

\* me() fails: nobody, as far as the page can tell
MeLost ==
  /\ questions["me"] # NotAsked /\ strays < MaxStrays /\ strays' = strays + 1 /\ mislaid' = TRUE
  /\ questions' = [questions EXCEPT !["me"] = NotAsked] /\ member' = Visitor
  /\ UNCHANGED <<browserVars, filterVars, serverVars, wizardVars, wanted, aside, openSheet,
                 patches, picks, sent, returns, signIns>>

\* onAuthClick: the filters of the account stay on the page, which locks them
SignOut ==
  /\ member # Visitor /\ member' = Visitor /\ cookieOf' = Visitor /\ mislaid' = (mislaid \/ ~AllQuiet)
  /\ UNCHANGED <<browserVars, filterVars, traitsOf, wizardVars, wanted, aside, openSheet,
                 questions, patches, prefCounts>>

(***************************************************************************)
(* Choosing                                                                *)
(***************************************************************************)
Picks(f) ==
  /\ picks < MaxPicks /\ picks' = picks + 1 /\ f # prefs
  /\ SetPrefs(f) /\ wanted' = f.wants /\ aside' = (aside \/ f.traits # prefs.traits)
  /\ UNCHANGED <<browserVars, serverVars, wizardVars, mislaid, member, openSheet, questions,
                 patches, sent, returns, signIns, strays>>

WithTraits(v) == [prefs EXCEPT !.traits = v]
WithWants(v) == [prefs EXCEPT !.wants = v]

\* MatchPrefsTab: a guest's traits are locked
PickInDialog(v) ==
  /\ openSheet = "preferences"
  /\ \/ member # Visitor /\ Picks(WithTraits(v))
     \/ Picks(WithWants(v))

\* the selects of the deck, locked for a guest
PickOnDeck(v) == member # Visitor /\ openSheet = "none" /\ (Picks(WithTraits(v)) \/ Picks(WithWants(v)))

PickInWizard(v) ==
  /\ openSheet = "wizard"
  /\ \/ member # Visitor /\ Picks(WithTraits(v))
     \/ Picks(WithWants(v))

OpenPreferences ==
  /\ openSheet = "none" /\ openSheet' = "preferences"
  /\ UNCHANGED <<browserVars, filterVars, serverVars, wizardVars, historyVars, member, questions,
                 patches, prefCounts>>

\* however the dialog is closed, a member's filters are sent to the account
ClosePreferences ==
  /\ openSheet = "preferences" /\ openSheet' = "none"
  /\ IF member = Visitor
     THEN UNCHANGED <<patches, sent, aside, mislaid>>
     ELSE /\ sent < MaxPatches /\ sent' = sent + 1 /\ aside' = FALSE
          /\ patches' = patches \cup {[n |-> sent + 1, who |-> cookieOf, traits |-> prefs.traits]}
          /\ mislaid' = (mislaid \/ ~AllQuiet)
  /\ UNCHANGED <<browserVars, filterVars, serverVars, wizardVars, wanted, member, questions,
                 picks, returns, signIns, strays>>

\* auth.rs preferences: the columns of whoever the cookie named
PatchServed(p) ==
  /\ p \in patches /\ patches' = patches \ {p}
  /\ traitsOf' = [a \in Members |-> IF a = p.who THEN p.traits ELSE traitsOf[a]]
  /\ UNCHANGED <<browserVars, filterVars, cookieOf, wizardVars, historyVars, member, openSheet,
                 questions, prefCounts>>

\* nobody hears of a save that fails
PatchLost(p) ==
  /\ p \in patches /\ patches' = patches \ {p}
  /\ strays < MaxStrays /\ strays' = strays + 1 /\ mislaid' = TRUE
  /\ UNCHANGED <<browserVars, filterVars, serverVars, wizardVars, wanted, aside, member,
                 openSheet, questions, picks, sent, returns, signIns>>

Looks(part, v) ==
  /\ openSheet = "preferences" /\ view[part] # v /\ picks < MaxPicks /\ picks' = picks + 1
  /\ view' = [view EXCEPT ![part] = v] /\ keptView' = Saved(keptView, view')
  /\ UNCHANGED <<storing, filterVars, serverVars, wizardVars, historyVars, member, openSheet,
                 questions, patches, sent, returns, signIns, strays>>

ChooseLayout(v) == Looks("layout", v)
ChooseLocale(v) == Looks("locale", v)

(***************************************************************************)
(* Starting a match with them                                              *)
(***************************************************************************)
\* onStartClick, past the age gate: the wizard comes only where storage forgot the gate
StartClick ==
  /\ openSheet = "none" /\ starting = "no"
  /\ IF storing THEN starting' = "deck" /\ UNCHANGED <<openSheet, wizardScope>>
     ELSE openSheet' = "wizard" /\ wizardScope' = prefs.scope /\ UNCHANGED starting
  /\ confirmed' = Free
  /\ UNCHANGED <<browserVars, filterVars, serverVars, sought, historyVars, member, questions,
                 patches, prefCounts>>

PickScope(v) ==
  /\ openSheet = "wizard" /\ wizardScope # v /\ wizardScope' = v
  /\ UNCHANGED <<browserVars, filterVars, serverVars, starting, confirmed, sought, historyVars,
                 member, openSheet, questions, patches, prefCounts>>

\* finish and beginMatch, which awaits the camera before it sends what the page then shows
FinishSolo ==
  /\ openSheet = "wizard" /\ openSheet' = "none" /\ starting' = "wizard" /\ confirmed' = {wizardScope}
  /\ SetPrefs([prefs EXCEPT !.scope = wizardScope])
  /\ UNCHANGED <<browserVars, serverVars, wizardScope, sought, historyVars, member, questions,
                 patches, prefCounts>>

\* finish and onBeginGroupMatch, whose closure holds the filters of the render before
FinishGroup ==
  /\ openSheet = "wizard" /\ openSheet' = "none" /\ SetPrefs([prefs EXCEPT !.scope = wizardScope])
  /\ sought' = [prefs |-> prefs, scope |-> Free]
  /\ UNCHANGED <<browserVars, serverVars, wizardScope, starting, confirmed, historyVars, member,
                 questions, patches, prefCounts>>

CloseWizard ==
  /\ openSheet = "wizard" /\ openSheet' = "none"
  /\ UNCHANGED <<browserVars, filterVars, serverVars, wizardVars, historyVars, member, questions,
                 patches, prefCounts>>

JoinsQueue ==
  /\ starting # "no" /\ starting' = "no" /\ sought' = [prefs |-> prefs, scope |-> confirmed]
  /\ UNCHANGED <<browserVars, filterVars, serverVars, wizardScope, confirmed, historyVars, member,
                 openSheet, questions, patches, prefCounts>>

\* no camera: the deck's start opens the devices tab
NoDevices ==
  /\ starting # "no" /\ starting' = "no"
  /\ openSheet' = IF starting = "deck" /\ openSheet = "none" THEN "preferences" ELSE openSheet
  /\ UNCHANGED <<browserVars, filterVars, serverVars, wizardScope, confirmed, sought, historyVars,
                 member, questions, patches, prefCounts>>

PreferencesNext ==
  \/ Return \/ SignOut \/ MeLost \/ \E a \in Members : SignIn(a)
  \/ \E q \in Questions : ReadsAccount(q) \/ AccountAnswers(q)
  \/ \E v \in Values : PickInDialog(v) \/ PickOnDeck(v) \/ PickInWizard(v) \/ PickScope(v)
                       \/ ChooseLayout(v) \/ ChooseLocale(v)
  \/ OpenPreferences \/ ClosePreferences \/ \E p \in patches : PatchServed(p) \/ PatchLost(p)
  \/ StartClick \/ FinishSolo \/ FinishGroup \/ CloseWizard \/ JoinsQueue \/ NoDevices

PreferencesSpec == PreferencesInit /\ [][PreferencesNext]_prefsVars

(***************************************************************************)
(* Properties                                                              *)
(***************************************************************************)
\* What the browser keeps is what the page shows, so that a reload changes nothing by itself,
\* and the wants survive every sign-in, sign-out and reload (clientStorage.ts:136: only the
\* browser has them).
KeptAsShown == storing => kept = prefs /\ keptView = view /\ prefs.wants = wanted

\* Once all is quiet the account has the traits the page shows, unless they were changed on
\* the deck or in the wizard, which save nothing (AppModals.tsx:186-189 is the only save; the
\* next answer that names the account takes such a change back), or something was mislaid.
AccountAsShown ==
  AllQuiet /\ member # Visitor /\ openSheet # "preferences" /\ ~aside /\ ~mislaid =>
    prefs.traits = traitsOf[member]

\* A solo match asks with the scope the wizard confirmed, unless an answer that named the
\* account came first and reset it (App.tsx:119); a group match does not (App.tsx:299-301).
SoughtAsConfirmed == sought.scope \subseteq {sought.prefs.scope}

\* The three places agree (KeptAsShown, AccountAsShown) and the queue is asked with what was
\* confirmed (SoughtAsConfirmed).
FiltersAreTrue == KeptAsShown /\ AccountAsShown /\ SoughtAsConfirmed
=============================================================================
