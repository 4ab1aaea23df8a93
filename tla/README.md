# TLA+ models of strangertv

strangertv is a random video chat. One Rust process (`rust/src`) serves HTTP and
one WebSocket per browser tab; a React client (`src/`) keeps the camera, the peer
connections and a copy of much of what the server knows; a database (libsql, one
connection shared by all handlers) holds accounts, friendships, groups, points and
games. What makes two strangers meet is the *matchmaking engine*, a set of maps
behind one mutex, driven by the handlers of concurrent connections and by timers.
The models start there, and go on to the server's tables and to the client.

Contents: [inventory](#inventory) · [plan](#plan) · [modules](#modules-and-code) ·
[abstractions](#abstractions) · [runs](#runs) · [properties](#properties) · [bounds](#bounds) ·
[fairness](#fairness) · [proofs](#proofs) · [disagreements](#disagreements-with-the-source) ·
[not modelled](#what-is-not-modelled)

## Inventory

Status: **M** modelled, **P** partly, **–** not.

### The server, `rust/src`

| Component | State | Operations | Hard behaviour | What makes it correct | |
|---|---|---|---|---|---|
| matchmaking policy, `matchmaking/core.rs` 185-420, `proto/common.rs` | none (pure) | normalize and force preferences, pools, blocks, rematch memory, aggregation, scores | a filter applied in one direction only; a room's preferences computed from people who joined in different ways | compatibility is mutual; a guest's filters are gone; the aggregate of a room turns nobody away whom its members accept | M |
| matchmaking engine, `core.rs`, `state.rs` | waiting peers and rooms, group rooms, partners, 1:1 rooms, blocks, recent pairs, counters | join, leave, heartbeat, lobbies, merges, direct match, full removal | ten maps and lists kept in step by hand; a match built while its members leave | maps agree, nobody is matched twice, no room outlives its members, compatible people find each other | P |
| WebSocket handlers, `ws/handlers.rs`, `ws/route.rs` | calls still to make, invite timers | one handler per message, 30 s invite timer, teardown | each engine call takes the lock anew, so handlers interleave between calls; a value read before an await is used after it | blocks separate people, releases are announced, a closed connection leaves no trace | P |
| socket registry and presence, `matchmaking/sockets.rs`, `presence.rs` | sockets, users, outboxes | connect, register, disconnect, overflow, announce | announcements wait for the database while tabs come, go and reconnect | a page shows its friends as they are | P |
| signal and chat relay, `core.rs` 2031-2154 | none of its own | relay to partner or room, under the lock | – | frames reach current partners and members | – |
| points economy, `domain/economy.rs` | balance, ledger | grant, spend, gift, ad claim, daily reward, adjust, backfill | transactions on one shared connection, checks before them, a crash inside | balance = sum of ledger; no overdraft; rewards within cap and cooldown | M |
| friends, follows, invitations, `domain/friends.rs` | relation rows | request, respond, remove | crossing requests, answers to rows that changed | friends are people who both asked | P |
| groups and invites, `domain/groups.rs` | groups, members, invites | create, add, remove, leave, invite, respond | the successor leaves with the admin; somebody enters a group that is being deleted; an admin's account goes | a group has its admin, a deleted one no members | P |
| activities, `domain/activities.rs` | games, seats, codes, tokens | launch, join, exchange, leave, end | seats taken, counted and given back in separate statements | limits hold, a game that is on is played, a code buys one token | P |
| direct messages, `domain/messages.rs` | messages | send, list | push and list cross | every message is shown in its conversation | P |
| sessions and accounts, `auth/*`, `routes/auth.rs` | tokens, credentials, users | register, log in, refresh, delete | registration and deletion in several steps, each of which may fail | an account without points, or points without an account, does not stay | P |
| database, `db.rs` | one connection, at most one open transaction | statements, BEGIN, migrations | a second BEGIN fails; everybody's statements join the open transaction | what was answered is kept | P |
| profiles, media; administration, reports | rows | save, upload; list, resolve, ban | single-row updates | what the pages show is what is kept | P |
| rate limiting; infrastructure (start-up, TURN, mail, files, metrics, alerts) | one map; – | – | I/O | – | – |

### The client, `src/`

| Component | State | Operations | Hard behaviour | What makes it correct | |
|---|---|---|---|---|---|
| match socket, `useMatchSocket.ts` | socket, timers, identity | open, close, reconnect, heartbeat | signing in replaces a socket while the old one closes or reconnects | one live socket, opened by the present identity | M |
| match session, `useMatchSession.ts` | phase, room, invitation, timers | frames, buttons | frames cross clicks; timers outlive what they were set for | the page's search is the server's; a stopped search leaves its room | M |
| peer connections, `useWebRTC.ts` | connections, pending candidates, parked signals | offer, answer, candidates, restart, clear | every handler awaits the browser; another one runs meanwhile | matched ends connect; no connection, no camera outlives the call | P |
| camera, microphone, noise: `useMedia.ts`, `useDenoiser.ts` | stream, tracks, worklet | acquire, switch, mute, publish | acquisitions overlap; callbacks of an old render | every open device is reached by stop; mute holds; peers hear the microphone in use | P |
| link quality, `useWebRTC.ts` 20-295 | tier, samples | sample, connect, reset | statistics of a closed connection come late; a reset meets a call that waits for its ice servers | the badge is about its call | M |
| embedded games: `ActivitySession.tsx`, `activities/*` | frame, codes, boards | announce, join, move | frame and page come up in either order; moves cross | the game gets its code once; boards converge once both players are there | M |
| call party: `useCallParty.ts`, `useActivities.ts` | party group, launcher, games | provision, launch, join, leave, end | an answer of the last call comes in this one; the room changes while a game is open | the party is that of the call | M |
| stage: `VideoStage.tsx`, `useSpeakerFocus.ts` | tiles, pin, floor | join, leave, speak | who left keeps the floor; the meter outlives streams | the floor is heard, the spotlight has a tile | P |
| controls: `CallBar.tsx`, `useTileMenu.ts`, report and block in `App.tsx` | menus, target of a report | tap, key, report, block | the stranger on the tile changes | a report hits whom it was written about | P |
| identity: `useSessionBootstrap.ts`, `AuthModal.tsx` | user, tokens, gate | boot, log in, log out, verify | the boot's answer comes after a login | page and server agree on who it is; no match before an adult date | M |
| preferences: `PreferencesModal.tsx`, `StartMatchModal.tsx`, `clientStorage.ts` | filters on page, in browser, in account | pick, save, sign in | three copies, each answer copies one over another | they agree; the queue is asked with what was chosen | P |
| social pages: `useSocialData.ts`, `socialStore.ts`, `PeoplePanel.tsx` | thread, badges, lists | open, send, load, respond | answers of another conversation or before a change | thread and lists are those of the server | P |
| profile pages: `ProfileEditPage.tsx`, `ProfilePage.tsx` | document, follow state | autosave, photo, follow, block | saves overlap; one page instance shows several profiles | saved is what was typed; the button says what is | P |
| wallet, settings, console | points, lists | claim, gift, filter, ban | answers cross | shown is what the server has | M |
| translations, visuals, static pages; vendored authentication library | – | – | – | – | – |

Interactions: a connection's read loop (`ws/route.rs`) hands each frame to
`handlers.rs::dispatch`, which calls engine methods one after the other, and the database
in between. The engine sends frames through the registry while it holds its lock, except
for `room:matched`. `full_remove` clears the engine when the read loop ends, and only then
does the registry forget the socket. In the client, hooks share a page: `useMatchSession`
owns the socket, the peer connections and the media, `App.tsx` wires their callbacks;
pages and panels ask the HTTP routes and listen to frames through the store.

## Plan

Done: the matchmaking policy, the engine and the handlers that use it, with the invariants of
the engine's data proved for all instances, `Pairing`, what 1:1 matching promises, shown to
be implemented, and no match missed; the server beside matchmaking (`Presence`, `Ledger`, `Seats`,
`Bonds`, `Groups`), each of its properties a theorem; the client from the socket to the pages,
with the safety properties of the calls (`SoloCall`, `MeshCall`, `MatchSession`, `ActivityBridge`)
and of the fifteen parts of `MCClient` as theorems.

Left, in this order:

1. 1:1 matching with group rooms: an abstract specification of rooms next to `Pairing`
   (who sits where, who is told). What it would promise of a single step is proved:
   `EveryReleaseHasItsReason` and `StrangersAreCompatible`.
2. A call end to end: `SoloCall` below `MatchSession`, fed by the frames `Engine` announces, with
   the `room:matched` that follows its own `room:peer-left`.
3. Direct invitations (`social_invitations`) and the match they lead to; blocks across a restart
   (`hydrate_blocks` has no caller, nor has `unblock_pair`).
4. Rate limiting: windows and sweep, the limit per window as a proof.

## Modules and code

The server's matching:

| Module | Models | Correspondence |
|---|---|---|
| `MatchPolicy` | stateless rules of `core.rs` and `proto/common.rs` | one operator per Rust function, same name |
| `Admission` | what `handlers.rs::join` makes of the preferences a client sends | `first`, `second`: the two peers admitted so far |
| `Engine` | `EngineState` and every critical section | an operator from state to state is a Rust method (or its `*_locked` part) as a whole: `join_queue`, `leave_room`, `leave_group`, `remove_from_queue`, `full_remove`, `heartbeat`, `create_group_match_room`, `add_participant_to_group`, `start_group_match`, `try_match_group`, `notify_group_match`, `match_users` |
| `Matchmaking` | the handlers, connections and timers | `engine` is the state behind the mutex; `hub` the registry; `conn[s]` the read loop; `todo[s]` the engine calls the running handler of `s` has still to make; `timers` the spawned invite timers. One action per client message and one per later call |
| `MatchmakingProperties` | the properties | – |
| `Pairing` | what 1:1 matching promises, without queue order, rooms and handlers | `partners` is the engine's map, `waiting` the sockets of `waiting_peers`, `gone` the connections that were removed |
| `PolicyLemmas`, `MatchmakingProofs`; `LedgerProofs`, `PresenceProofs`, `ServerProofs` for the tables below, `CallsProofs` for the calls, `PageProofs` and `ClientProofs` for the page | proofs | see [Proofs](#proofs) |

A message is received when no handler of that connection runs
(`todo[s] = << >>`), because `route.rs` awaits each handler before it reads on. The
first engine call of a handler is part of the receipt; every later one is an action
of its own, since the handler has released the mutex in between. Where a handler
reads the engine and acts on the value later (`report`, `block`), the read is an
action and its result is an argument of the calls that remain in `todo`.

The server's tables and the registry. A request is a record that says which statement
comes next; each statement of the code is an action, and other requests run in between:

| Module | Models | State |
|---|---|---|
| `Presence` | `sockets.rs`, `route.rs::connection`, `presence.rs`, and the store's set of friends online | `conns`: the task of each connection and what it awaits; `linked`, `registered`, `outbox`: the registry; `shownOn`: what each page shows |
| `Ledger` | `domain/economy.rs`, the account steps of `routes/auth.rs`, the charge of a search, `backfill_balances` | `db`: the tables; `open`, `kept`: the transaction and what it started from; `asked`: the requests; `local`: a file or a remote database |
| `Seats` | `domain/activities.rs` | `status`, `seats`, `codes`, `tokens` per game; `lastRow`: `last_insert_rowid` of the connection |
| `Bonds` | requests and answers of `domain/friends.rs` | `rows` of one pair; `bondCalls` with the row each has read |
| `Groups` | `domain/groups.rs` | `standing`: the table of groups; `roll`: members in joining order; `offers`: invitations; `makers`: who created each group, which decides what goes with an account; `errands`: the requests with what they read |

The client. An asynchronous handler is cut at its awaits; what is left of it is a record in
a set of things under way, and any other handler may run before it goes on:

| Module | Models | State |
|---|---|---|
| `SoloCall` | `useWebRTC` for a 1:1 call, both ends | `call`, `pc` and `pcs` (every connection an end made), `pending` candidates, `signals` under way |
| `MeshCall` | `useWebRTC` for a group, every member | `peers`, `links`, `parked` signals (a set: they are taken out all at once, and what is handled starts to await at once), `work`, `rounds` of `createMeshPeers` |
| `MatchSocket` | `useMatchSocket` | `phase` per socket, `cur`, timers, messages `up` and `down`, `upgrade`: whose cookies opened it |
| `MatchSession` | `useMatchSession` on top of `MatchSocket`, and the server's `seat` | `finding`, `matched`, `inGroup`, `invite`, timers `requeue`, `redo`, `decline` |
| `Media`, `Denoise`, `LinkQuality` | `useMedia`; `useDenoiser` and the session's ways to publish; the statistics of `useWebRTC` | `stream` and what is `plugged` and `muted`; `mic`, worklet `input`, `published`; `tier`, `wired`: the connections the page holds, `linking`: the calls that are making some, `sampling` |
| `ActivityBridge`, `TicTacToe` | `ActivitySession` with `activities/client.ts`; the game's own state on both sides | `doc`, `codes`, `exchanged`; `seated` and a `board` per player |
| `CallParty`, `CallStage`, `CallControls` | party and launcher; tiles, layout, speaker; menus, keys, reports | `party`, `creating`, `loading`, `opening`, `parting` (requests under way), `strayed`; `floor`, `pinned`, `metered` (our own tile too); `peer` against the server's `partner` |
| `Identity`, `Preferences` | boot, sign-in, age gate; filters and view | `user` against `cookie`; `prefs`, `kept`, `traitsOf` |
| `SocialChat`, `SocialRoster` | conversations, badges, notifications; lists and the group sheet | `thread`, `loads`, `unread`; `shown`, `reads`, `acts` |
| `ProfileEditor`, `ProfilePage` | autosave and photo; a profile as a visitor sees it | `doc`, `lastKey`, `debounce`; `iFollow`, `edgeRead`, `following` |
| `Wallet`, `Console` | points, settings; the moderators' page | `coins` against `points` and `balance`; `filed`, `banned` against the lists |

`MCMatchmaking`, `MCServer`, `MCCalls` and `MCClient` are the instances for TLC. The last three
hold several modules that share no variables; a variable `scene` picks the one that moves, so
that one run covers them all. `MatchSession` extends `MatchSocket`, and both move in one scene.

A definition named `faulty_X` is a plausible bug in `X`; no specification uses it.
It documents, next to the operator, which mistake the properties notice.

## Abstractions

* A Vec is a set of records with a position `at`; `Compact` renumbers after a
  removal. Where the code takes the first or the first best element, so does
  the model.
* `told[s]` is the last life-cycle frame in the outbox of `s`; chat and signal frames are left out.
  Relayed signals are queues between the ends in `SoloCall` and `MeshCall`.
* The session key of a peer is its socket id: the sockets of these instances are distinct
  browser sessions. `NoSession` is the empty key that a merged room records.
* A connection is signed in to one account for its whole life (`UserOf`, `AccountOf`); signing in
  replaces the socket (`MatchSocket`).
* `peer_meta` is the set of its keys. The rematch memory is a set of keys;
  `PairForgotten` is the cooldown running out for one of them.
* Interests are sets, without the cap of ten; visibility, e-mail, peer ids and time stamps are left out.
* An invitation to a match is not a row, so `invitation:accept` may name any other
  user as the inviter; the database says who may call it. Likewise `create-and-invite` arms its
  timer or not: that depends on whether an invited friend was found online.
* In `Matchmaking` a join is not charged: a refusal for want of points leaves the engine
  alone. The charge itself is a request of `Ledger`.
* The database is modelled as the code uses it: one handle for a local file, on which BEGIN fails
  while a transaction is open and everybody's statements are part of it; a stream per
  transaction for a remote one. Foreign keys may be enforced or not (`groups.rs:387` allows for
  both). Time stamps of members are an order without ties.
* The deletion of an account is part of `Ledger` (points) and of `Groups` (`AccountGoes`: groups, members, invitations);
  the rows of friends, follows and blocks that go with it are not modelled. A model value whose account
  went may stand for the next one.
* The target of a block may be nobody of the room: the room is then left and nothing recorded (`Matchmaking`).
* The second player's frame and its roster come up in one step (`JoinGame`); an update that is relayed
  before is lost to it in the model as in the code.
* The two sides of the group layout are a split of the tiles by a label and are left out; the spotlight is not.
* A message, photo, name, text or code is a number. A document's text is one of a few versions.
* Timers fire at any time after they were set, unless their order matters (`Ledger` counts ticks,
  `CallStage` samples).
* **Histories.** Many of these parts go wrong in known ways when requests overlap. A property
  then says what holds otherwise, and a history variable, marked `(history)` where it is declared,
  records that the case occurred: `crossed`, `raced`, `disturbed`, `late`, `astray`, `strayed`, `cutShort`, `met` and so on.
  Such a property does not catch the case it names; it says that there is no other. The cases are listed under
  [disagreements](#disagreements-with-the-source).

## Runs

| Run | Question | Result |
|---|---|---|
| `Pairs` | Three connections (a guest, two accounts, one of which declines rematches and guests) join, skip, leave, report, block and close: does the server implement `Pairing`, do the maps agree, is nobody matched twice or left behind, is no compatible pair left waiting, do blocks separate? | holds |
| `Rooms` | A host that invites, a guest that joins, leaves, accepts a direct invitation or loses its outbox, a waiting solo, expiring timers: are mappings, seats and queue in step, and is everybody told? | holds |
| `Merge` | Two lobbies of two with pools, genders and blocks that differ: are strangers in one match always compatible? | holds |
| `Search` | Under heartbeats: do a solo and a room, or two rooms, that became compatible stop waiting next to each other? | holds |
| `Server` | Admission, presence, points, games, friendships and groups, each with overlapping requests, faults and crashes: do the tables say what the people did? | holds |
| `Calls` | A 1:1 call, a mesh of three, the page with its socket, the bridge to a game: does what should connect connect, and is everything released? | holds |
| `Client` | Fifteen other parts of the client: do they show, send and hold open what they should? | holds |
| `SilentEnd` | Does a 1:1 match end without telling either side? | it can |
| `Expiry` | Does the invite timer spare a host whose invite was answered? | it does not |
| `QueuedHost` | Does a live match keep two seats? | it does not |
| `Scope` | Does a group-only room meet groups only? | it does not |
| `DoubleClaim` | Can two sockets have the same partner? | they can, after a direct match |

`CHECK_DEADLOCK FALSE` everywhere: when room ids are used up, every connection is closed, or a
user has made its bounded number of clicks, an instance has nothing left to do.

## Properties

Why each can fail in a code like this one.

`Pairs`, `Rooms`, `Merge`, `Search`:

* `PartnersAgree`, `WaitingIsIdle`: `partners`, `rooms_by_socket`, the queue and the group
  mapping are written by different connections in several critical sections.
* `PairingKept`: the server implements `Pairing`: a step makes at most one match and
  ends at most one, for both sides, and nobody is matched once gone. A handler
  whose engine call touched a third person would break it.
* `NoTrace`: a peer's handler can still be running when a connection has been removed.
* `NoMissedMatch`: only the one who joins searches; nothing re-scans the 1:1 queue
  later. It holds because the later arrival has already looked at the earlier.
* `BlockedApart`: `block` records the block and ends the match in separate critical
  sections; in between a match of the two exists, but its end is already on its way.
* `MappingSound`, `QueueSound`, `NoEmptyRoom`: socket → room, room → seats, the flag
  and the list are four copies of two facts.
* `StrangersCompatible`: a merge compares all pairs across two sides; those on one
  side may have come by invitation.
* `ReleasedAreTold`: someone else's departure dissolves a room.
* `SoloFindsGroup`, `GroupFindsGroup`: compatibility that comes later (the end of a
  cooldown) is noticed by heartbeats only.

`Server`:

* `MutualAcceptance`, `GuestFiltersDropped`, `AggregateFaithful`: the policy.
* `PresenceSettles`: when all announcements are through, each page shows the friends that are
  online. Announcements await the database, and tabs of the same person come and go meanwhile.
* `LedgerIsTrue`: `TrailKept` (balance = sum of the ledger outside a transaction), `GiftsCovered`
  (no overdraft except by penalty), `PaidAsOwed` (each reward as often as it is due, everybody
  granted once), `AnswersKept` (what was answered survives other requests' rollbacks).
* `RecordsAreTrue`: no game is overfull, one that is on is played, a code buys one token
  (`SeatsAreTrue`); friends both asked (`BothWishIt`); a group has exactly one admin and a deleted
  group no members (`GroupsAreTrue`). None of these operations is a transaction, and accounts are deleted under them.

`Calls`:

* `NoConnectionLeaks`, `NoCandidateLost`: an end makes, replaces and closes connections in
  handlers that await; candidates overtake the descriptions they belong to.
* `SoloConnects`, `MeshConnects`: offers can cross, or meet an end that has no connection yet.
* `SocketsAgree`: closing, reconnecting and signing in each replace the socket.
* `SessionIsTrue`, `SessionObeys`: frames cross clicks, and timers outlive what they were set for.
* `GameIsServed`: announcements are lost when one side is not up yet; a code works once.

`Client`:

* `MediaIsTrue`: each open device is reached by stop (`DevicesOwned`), muting outlives every
  reacquisition (`MuteHolds`), peers hear the microphone in use (`DenoisedMicHeard`).
* `GamesAreTrue`: boards that validate moves for themselves converge, unless a frame was not there when an update
  went out (`BoardsConverge`); the party is of the call on the page, and a game is open and announced in its own call,
  unless its seat was answered in a later one or the room changed while it was open (`PartyOfThisCall`).
* `StageIsTrue`: whenever a level says that somebody speaks the floor is with a level that can be heard, our own
  among them (`FloorIsHeard`); the spotlight has a tile, or nothing is pinned and the floor is with somebody who left
  (`SpotlightHolds`): a pin that outlived its tile, or a floor whose level is no longer sampled, would break it; an idle
  badge stands over no connection that is kept, and any other badge is about one that is kept or being made
  (`BadgeOfCall`). Its exceptions are connections made by a call that `clear()` met at its await, and badges that a
  connection wrote, or left, that is not kept any more.
* `IdentityIsTrue`, `ReportsHitTheirTile`: answers and strangers that come while the user acts.
* `SocialIsTrue`: badges count what came, a thread is of its conversation, lists settle.
* `ChosenIsKept`: editor and filters keep what was typed and chosen.
* `QuietPagesAreTrue`: follow state, points and console lists are those of the server.

`CallsTypeOK`, `ClientTypeOK`, `ServerTypeOK` and `TypeOK` are the type invariants; they also bound
what may be under way at a time. `ClientTypeOK` speaks of the part that its scene moves.

## Bounds

* `Pairs`, `Rooms`, `Merge`, `Search`: three connections (four in `Merge`). Three is the smallest
  number at which a handler of one connection can act on a stale partner, a room can outlive a
  member, and a solo can meet a room; four are needed for two lobbies of two.
  `MaxRooms = 2` room ids of each kind; a step that may allocate waits for a free
  id (`RoomLeft`). Two ids let a match end and another one form, which is what every stale-id
  hazard needs. The proofs have no such bound. Each connection has a fixed selection of messages
  (`MessagesOf`); together the passing runs use all of them. `CooldownEnds` switches the end of a
  cooldown on.
* `Server`: admission has three values of country and two of the other keys, one always malformed.
  Presence: two friends, three connections, so that one of them can reconnect while its old
  connection is still being taken down; an outbox of two frames, which can overflow. Ledger: two
  accounts, one older than the economy; two requests that overlap, one fault, one crash, three ticks
  over a cooldown of two and a day of three. Seats: three people for two seats and three requests,
  the fewest with which a seat can be taken, counted and given back across each other. Bonds: six
  requests, three of them open. Groups: a group of two or more, a second one to be made,
  three requests, two open at a time.
* `Calls`: two ends with two connections each and one restart; a mesh of three with one rematch and
  one leaver, the fewest with which a member offers to one and answers another; two sockets, two
  clicks and one push of the server; two documents of the frame.
  `RetryBound`: retry is pressed in a call that is not just being set up. `LeaverBound`: of three
  members the second leaves, which both offers and answers.
* `Client`: two of what can be confused (calls, groups, profiles, documents, links, accounts,
  microphones) and three where the third is the stale one (strangers, microphone tracks, reads).
  Two levels, silence and speech, one sample of minimum hold time for the nine of the code, and three samples: a floor
  taken, held against somebody louder and handed over. Two calls that make connections (`MaxLinkings = 2`), so that one
  can meet the other's await, and one sample: loss over a window of two needs a second and is seen by the proof only,
  as `BadgeOfCall` has no such bound there. One leave or end of ours under way at a time (`MaxPartings = 1`).
* Scenes are not explored past a step after which their properties promise nothing
  (`crossed`, `met`, `untold`, `mislaid`, `strayed`, `doubted`, `dropped`, `disturbed`, `late`, `mistaken`).

## Fairness

`FairSpec` (run `Search`) assumes two things of every connection: a handler that has started runs
to its end (the runtime polls every task), and a heartbeat that stays due is read.
The client sends `queue:heartbeat` every 12 s as long as its socket is open
(`src/hooks/useMatchSocket.ts:96`, `shared/constants.ts:640`), and the
server reads frames in order, so other messages of the same client do not starve it.
Weak fairness of `QueueHeartbeat` would be too weak, since each such
message disables it for a while; strong fairness would also
cover heartbeats that are due only now and then. `HeartbeatDue` and `CallDue` spell the enabling
conditions out. The room-id bound is an escape in both liveness properties, because it
would otherwise block a merge for a reason the code does not have.

`CallsSpec` assumes weak fairness of one action, `Progress`: promises settle, signals and messages
arrive, timers that run fire, effects are run; something under way goes on. What the user and the
network decide (clicks, a lost socket, a reload) is outside of it. One fairness condition for
the whole scene is enough because nothing that is under way is disabled for good by the rest,
and each scene's steps are bounded.

## Proofs

### Matchmaking

`MatchmakingProofs` shows six properties of `Spec` for any finite set of
connections, any accounts, preferences and messages and any `MaxRooms`:
`TypeOK`, `MappingSound`, `QueueSound`, `NoEmptyRoom`, `NoMissedMatch` and `StrangersCompatible`;
the others, under hypotheses named below. None of the three invariants of rooms is
inductive alone, nor are they together. The inductive invariant `IInv` adds

* `Finite`: waiting lists and participant lists are finite. Positions and scores are
  cardinalities; without it `Best` and `FirstOf` need not choose a member.
* `FreshIds`: every id in use, in the map of rooms *and* in the waiting list, has been handed
  out by its counter. Without it a new room could find its id already listed, and
  `QueueSound` would break on creation.
* `ValidCalls`: a `start_group` call in progress names an id that was handed out. The room
  may be gone by the time the call runs, and `enqueue_group` then lists an id without a
  room; `QueueSound` survives only because that id can never come back.

`MatchmakingProofs` has one lemma per engine operation (`join_queue`, `leave_group`,
`notify_group_match`, …): from a `Good` state it leads to a `Good` state, and counters
do not run backwards. `MergedGood` carries the merge of two sides, the one operation that
rewrites every room at once. Then it has one case per action.
`ServerProofs` shows the four properties of `Admission` for all preference objects, and
`PolicyLemmas` the aggregation argument for a room of any finite size.

`NoMissedMatch` (theorem `NoMatchIsMissed`) has the invariant `Waits`: nobody stands in the
1:1 queue twice, positions do not exceed its length, and whoever stands behind another there may not be matched with that one
(`InOrder`). The last survives because the join that put the later one there has searched, because the
rest only forbids more matches or takes somebody out, and because of the exceptions the property names (cooldowns that end,
a seeker of groups only). The positions matter: a join that returned early would otherwise stand
ahead of somebody it never looked at. Nothing is assumed about rooms.

One part of `MatchmakingProofs` is about 1:1 matches. Its theorems hold under `PairsOnly`: no connection
sends `group-match:create`, `group-match:create-and-invite` or `invitation:accept`; every
other message may come from anybody (those about lobbies find none). Without that condition they
are false, as the last section shows. The invariant `PairInv` adds to `IInv`

* `Apart`: there is no group room, both maps describe one symmetric pairing, and who waits does
  so once and has no partner. Symmetry alone is not inductive: a join pairs itself with somebody from the
  queue and overwrites that person's entry, which must be empty.
* `Removed`: a connection that was torn down has no calls left and appears nowhere.
* only calls of 1:1 handlers are in progress (`PairCalls`), and no timer is.

Each engine operation is shown to have one of five effects (`Stays`, `Quits`, `Ends`,
`Vanishes`, `Joins`), and these map to a stutter, `Cancel`,
`End`, `Vanish`, and `Wait` or `Meet` of `Pairing`. From that follow `PairingKept`,
`PartnersAgree`, `WaitingIsIdle` and `NoTrace`.

`BlocksSeparate` states `BlockedApart` under `PairsOnly` and `OneTab` (no account is signed in to on two
connections: a block given in one tab does not end the match of the other, so without it the property is
false). Its invariant `BlockInv` says of every match of a blocked pair that one of the two has a call left
that will end it, and that nothing in between can match that side again without having ended it first.

`EveryReleaseHasItsReason` needs no hypothesis: who has a group room before a step and none after it,
and does not hear `room:peer-left`, is the one whose handler or teardown took the step, the sender of
an invite that expired, or somebody a handler makes leave. Each operation is either `Loud` (nobody
but its caller loses a room unheard: `leave_group`, and what contains it) or keeps all seats
(`SeatsKept`: a merge moves people and unmaps none). The one handler that makes another leave is that of a declined
invite, and its host is told only `group-match:invite-declined`. So `ReleasedAreTold` holds where nobody sends
`group-match:invite-decline` (`NoDecline`, as in the run `Rooms`): `NobodyIsReleasedInSilence`, with the invariant
`LeavesItself` on the calls in progress.

`StrangersAreCompatible` rests on two relations between the engine before and after an operation: `Shrinks` (no room
gained a member, no block was forgotten) and `Meets` (two people of one room are one socket, shared a room before, or fit).
What prepares a merge shrinks: leaving the queue, the 1:1 room and the group, taking rooms off the list. The merge itself
joins two `Sides`, each of them one room or one person, of which every pair across was compared; those of one side had
met. What the theorem adds to the run is that nothing between the comparison and the
merge, in the same critical section, brings in a member nobody compared, however large the rooms are, and that the
id a merged room records for a guest (`GuestId`) falsifies neither the block nor the pool. A seat taken by invitation is
the exception the property names (`Comes`); what follows it in `add_participant_to_group` is again a `Meets`.

Assumptions, all of them checked by TLC in the runs: `Sockets` and `Interests` are finite, the null
values are not members of the sets they extend, `"any"` is a country and a language,
`UserOf` and `PrefsOf` have their types. `PairsOnly`, `OneTab` and `NoDecline` are hypotheses of the theorems that need
them; the messages of the run `Pairs` satisfy the first, those of `Pairs` and `Rooms` the last.

### The server beside matchmaking

`ServerProofs` states the properties of the run `Server` for `ServerSpec`. The parts share no
variable, so each has an invariant of its own.

* `PresenceHolds`, for any pages, people, symmetric friendships, `MaxConns` and `Capacity`. `PresenceSettles` speaks of
  states in which nothing is under way; the invariant `PresenceInv` says what holds meanwhile.
  `WillBeRight`: if f is online, a page shows f *once it has taken the frames of its outbox*, or somebody's
  task is still to tell it; if f is not, the reverse. `WillShow` finds the last frame about f and needs no recursion. That an
  announcement is not about the past is `ListsAreTrue` and `PartedIsOffline`, which hold exactly
  for users who are neither doubted nor dropped; `Entered` is why a task that still announces an
  arrival belongs to a registered connection. The run stops once somebody is doubted; the invariant does not.
* `RecordsHold`, for any finite set of people and any limits (`MaxGroupsMade` at least 1), with `SeatsInv`, `BondInv`, `GroupsInv`: what each
  half-done request has read is still so unless the history variable of its part says that somebody disturbed
  it. E.g. `SeatsCounted`: a game's seats without those on trial (sat down and not counted yet) never
  exceed its limit; `LedOrSettling`: a group has one admin or a request that is about to give it one. An account that
  goes takes rows away under every request: the groups it made end as if deleted, and where it was admin, or was relied on, the group is `disturbed`.
* `LedgerHolds`, for any accounts and amounts, with `LedgerInv`:
  * `BooksKept`: between its two statements the open transaction has moved its user's balance and not
    posted it, or the reverse, by the amount of its operation; the tables at its BEGIN balance exactly. Both are
    needed, since a rollback returns to the second. Sums of rows are a recursive function:
    `Counting` proves induction over the naturals as the absence of a least counterexample
    (`WFMin`), and `TrailAdded` what a further row adds.
  * `SignedUpOnce`, `UnbornUnknown`, `GrantToCome`: an account that is still to be created has no row anywhere, so that creating
    it cannot find an old trail.
  * `PaidSoFar`, `ClaimsChecked`: a claim past its checks finds its cooldown over in the tables now *and*
    in those a rollback returns to. This is where `PaidAsOwed` as it was first stated failed: on a local
    database a claim can be checked while a deletion's open transaction has cleared the
    user's rows; the rollback brings them back, and a second reward is paid within the cooldown. The run's
    two requests are too few for it. The exception of the property (`raced`) now includes claims
    checked against uncommitted rows.
  * `NothingHidden`: on a remote database what an open transaction hides from the other requests is no ad
    reward but its own.
* `ServerTypes`: the type invariant, from all of these.

### Calls

`CallsProofs` states the safety properties of the run `Calls` for `CallsSpec` without its bounds:
any number of members, rematches, connections, clicks, pushes, sockets, documents and seatings. A
step of the composition is a step of one part and a stutter of the others (`CallsStepOfSolo` and
its like), so each part has an invariant of its own.

* `SocketsAgreeAlways`, `SessionIsTrueAlways` and the action property `SearchingGroupKeepsItsCall`, with
  `SessionInv`. `SocketInv` says which sockets may still speak (`NothingElsewhere`): a property that
  looks at the current socket is inductive only if the others are known to be over. `SearchIsReal` is
  about states in which nothing is under way; `Founded` says what holds before: a page that shows
  a search has a place, or its request is in `up` with no leave after it (`AskStands`), or a message that
  ends the search is in `down`, or a timer will ask. Two cases in which that fails were found by the
  proof and not by the run, whose clicks were too few for them; see
  [below](#calls-1).
* `NoCandidateIsLost` and the 1:1 half of `NoConnectionEverLeaks`, with `SoloInv`: the numbers an end
  handles exist (`OwnNumbers`, `FarNumbers`); one run of `createPeer` makes one connection, which is the
  current one until the end leaves (`OneRun`); before an end has run it, a candidate stands behind an offer
  in its signals (`OfferFirst`), so that the handler that creates the connection runs ahead of it; and a
  candidate is gathered, on its way, kept, or added (`Followed`).
* The mesh half of `NoConnectionEverLeaks`, with `MeshInv`: an open connection is the one kept for its peer
  (`KeptLinks`), a member that left has no mesh on its way (`LeftAlone`), and each announced match lets
  `createMeshPeers` run once (`RoundsDue`, which bounds `rounds` and needs the cardinality of what is
  announced and prepared). The loop over participants numbers connections by the rank of the
  member (`Place`); that ranks of a finite set of numbers are a bijection is `Ranks`.
* `CodesAndRostersHold`, the safety half of `GameIsServed`, with `BridgeInv`: a launch code is minted
  before it is posted, posted once and not posted again once the server has it (`CodesFresh`);
  the last thing on its way to the game is the host's roster (`LastIsRoster`), the last one pushed the
  server's (`LastIsSeating`).
* `CallsTypesHold`: the type invariant, from the four.

Assumptions: `SoloBounds`, `SocketBounds`, `SessionBounds` (numbers, positive where a first
connection or socket needs it); `MeshBounds`: `Members` is a finite set of positive numbers with 1 and
2 among them; `BridgeBounds`: numbers, and a seating exists.

### The page

`ClientProofs` states the safety properties of the run `Client` for `ClientSpec`, without its bounds. A
step of one scene is a stutter of the other parts (`ScenesApart`), so each part has an invariant
over its own variables; `PageProofs` and the first sections of `ClientProofs` show that it starts true,
that each of the part's steps keeps it and what it means.

* `IdentityIsTrueAlways`, with `IdentityInv`. The property is about a page that waits for nothing; the invariant
  says what is known meanwhile: whom each question under way asks about and what its answer may be
  (`AskedInv`), that a bearer token belongs to the account shown (`BearerInv`), and that nobody without an adult
  date is past the gate, nor about to be by an answer that is still to come (`GateInv`).
* `ReportsHitTheirTileAlways`, with `ControlsInv`: requests are served in the order they were
  sent (`FairOrders`), and an open dialog knows the tile it was opened on (`AtDialog`).
* `QuietPagesAreTrueAlways`, with `FollowInv` (reads come back in the order of their questions, and for each kind of
  visitor what they will bring), `WalletInv` (one answer that moves money is under way, and `PointsAwait` says
  what the balance will be after it), `ConsoleInv` (a screen shows the view of the server or a read that will renew it is on its way).
* `StageIsTrueAlways`, with `StageInv` (only participants and our own tile have streams and meter entries; the floor is
  with an entry of the last sample, a pin on a tile that is there) and `BadgeInv` (while the badge is idle, the calls that
  make connections and are still waiting are those a `clear()` cut short, so what they make is known to be theirs).
* `MediaIsTrueAlways`, with `MediaInv` (one acquisition unless two overlapped; what each callback under way still sees, `CallSees`)
  and `ChainInv` (`Attaching`: while a worklet is being attached nobody has its track yet).
* `ChosenIsKeptAlways`, with `PrefsInv` (one question or one save at a time, and what it will bring) and
  `EditorInv` (an upload brings a photo nobody has seen; a document's own save is the only one and is followed by
  another if the draft moved on; "saved" means stored).
* `SocialIsTrueAlways`, with `ChatInv` and `RosterInv`: each list agrees with the server or will be read again, also
  after the removals and requests that are under way (`RemovesMeant`, `OutgoingKnown`).
* `GamesAreTrueAlways`, with `PartyInv` and `GameInv`. `PartyInv`: the party is of this call (`PartyIsOurs`), an opening
  knows the group of its game (`OpeningIs`), an open game that did not stray is of the party (`OpenHere`), and one that did
  not stray was announced at home only (`SentHome`). `GameInv` assumes that no update was missed; until the second player
  comes nothing has then been done that it will not see (`Awaited`). Updates are relayed to both players in one order and each validates
  them alone, so `BoardsConverge` needs to know what the boards are while moves and rematches cross. There are three cases
  (`GameOn`): they are equal and nothing under way counts (`Fine`); one player is exactly one legal move behind (`Behind`);
  or one player still has the end of the last game before a reset and the other the begin of the next one, which is the empty
  board or the first move on it (`Outdated`). The proof hinges on why a reset that crosses another is void: it reaches a board
  with at most two marks of each player (`Young`), and such a board is not finished, since a line has three cells and there are nine
  (`YoungGameOpen`, by cardinalities). A player who is behind may not move, because the turn passes with every move
  (`TurnPasses`), so there is never a second move under way.

Assumptions, all checked by TLC in the run: accounts are numbered from 1 and finitely many, `Profiles` is not empty,
`Speakers` holds neither -1 nor 0 (the marks for nobody and for oneself), and the other constants are numbers.

### Only model-checked

`ClientTypeOK` (the bounds of the run's counters; the proofs above carry the types they need), the first conjunct of `SessionObeys` (`StrayRoomLeft`, a leads-to), and all
liveness properties (`SoloFindsGroup`, `GroupFindsGroup`, `SoloConnects`, `MeshConnects`,
`SessionObeys`, `GameIsServed`): liveness and `ENABLED` are out of the prover's reach, as are the library's induction
theorems over an operator.

## Disagreements with the source

Found while modelling. The first five are runs that end in a counterexample; for the others the
property of the part names the case as its exception, so that it says what holds otherwise.

### Matchmaking

1. `SilentEnd`: `report` and `block` end with `leave_room(partner, false)` for a
   partner read several engine calls earlier. If that partner has been
   matched again since, its new match ends and neither side gets `room:peer-left`.
2. `Expiry`: the invite timer counts the members of the room id it was armed with. An accepted
   invite has moved the room to a new id, so the timer takes the host out of the live match.
3. `QueuedHost`: `create_group_match_room` leaves its host in the solo queue. The
   host of a live match can be matched again; the one left behind
   keeps a live match of one.
4. `Scope`: `notify_group_match` looks the old room up after it removed it, so a mesh that
   keeps searching has scope `all` although its lobby was group-only.
5. `DoubleClaim`: `match_users` takes nobody out of the solo queue; a join then claims a person
   who is already matched, and two sockets have the same partner.
6. A direct match can pair a socket whose connection was torn down after the
   handler read the registry: `match_users` does not look again (`core.rs:1911`).
7. A socket that joins a second lobby keeps its seat in the first: the comment at
   `core.rs:923` says it is cleared, and nothing clears it.
8. When a group match starts around a 1:1 match, one end of the pairing is removed from
   `partners` and the other stays (`core.rs:1264-1276`): the loop skips a participant whose room is gone.
9. `aggregate_group_preferences` takes the last country and language a member chose; the comment
   above it speaks of the first (`core.rs:1394`, `1406`).
10. A decline that comes late takes the host out of whatever room it is in by then.

11. `room:matched` is sent after the lock was released and the database was asked for the
    relationship (`core.rs:746`), so it can follow the `room:peer-left` of the same match.

Because of 5, 6 and 8 the 1:1 invariants are stated for instances without direct matches and
group rooms (`Pairs`).

### Tables of the server

* One connection for all handlers (`db.rs:115`): on a local database BEGIN fails while another
  transaction is open; other handlers' statements join it and are lost when it rolls back. Every
  daily reward that was already paid, and every gift or search that is not covered, rolls back.
* An account's deletion that breaks off after its ledger is gone leaves a balance without a
  trail, and the next start grants it points again (`routes/auth.rs:1264`); "can never drift"
  says `economy.rs:8`.
* `claim_ad` looks at cooldown and cap before its transaction (`economy.rs:190`): overlapping claims
  are both paid. On a local database the checks also read what another request's open transaction has written:
  rows cleared by a deletion that is then rolled back do not count.
* `last_insert_rowid` belongs to the connection: an insert by any handler between the two makes a
  launch return another row's id (`activities.rs:198`), seats a group's creator in another group
  (`groups.rs:178`), and likewise in `messages.rs` and `media.rs`.
* A launcher is seated without being counted; a player who joins again while somebody over the limit
  is being counted loses the seat ("Re-joining is seat-idempotent", `activities.rs:225`); two who
  overfill a game can both give back and leave it on with nobody in it; two exchanges that read
  a code before either marks it both get a token ("single-use", `activities.rs:311`).
* First friend requests that cross leave two rows, since UNIQUE sees two different pairs
  (`friends.rs:163`); two tabs of one person can accept that person's own request.
* The only admin and the successor it has read leave at once: the group goes on without an admin, or
  without members (`groups.rs:371-410`). Somebody added while the last member deletes the group
  stays a member of nothing if foreign keys are off. An invitation that was overtaken by a
  direct addition stays open and lets a removed member in again. The deletion of an account removes its member
  rows and the groups it created, and no more (`routes/auth.rs:1209-1210`): an admin who came to it by succession and
  deletes the account leaves the others without one, although "Leaving hands the admin role to the next-oldest member"
  (`groups.rs:368`).
* `hub.push` forgets a connection whose outbox is full, and its friends are never told that it went
  (`sockets.rs:206`). Lists and late announcements can cross a reconnect. New friends see each other's
  dots only after a reconnect.
* Blocks are not loaded at start (`hydrate_blocks`), and an unblocked person stays blocked in the
  engine (`unblock_pair`): neither has a caller. A search that was paid for is not refunded when it
  then finds the engine refusing it or the process ends.

### Calls

* An offer that arrives during `onMatched`'s awaits makes `createPeer` run twice
  (`useWebRTC.ts:297`); one that meets neither connection nor stream is dropped (496). A `createPeer`
  that finishes after stop publishes the camera.
* `clear()` at the start of `createMeshPeers` drops signals that were parked for it (389); a peer closed
  during `await createOffer` ends the loop over the others (413). Glare is decided by the
  comparison at 444, the opposite of what 442 says. A stale answer can be accepted after a rematch.
* The requeue timer set when a partner leaves is not cancelled by stop (`useMatchSession.ts:285`); a
  late `queue:waiting` revives a search, also from a group call whose place in the queue is gone
  (177); the flag of an earlier invitation that `peer-left` meets (267) suppresses the requeue, and
  the page searches without a seat; `invite-declined` leaves the page searching without a
  seat; nothing is joined again after a reconnect; a request made while connecting is dropped.
* Statistics of a closed connection may badge the next (`useWebRTC.ts:60`). `createPeer` and `createMeshPeers` set the
  badge to connecting and then wait for the ice servers (295-296, 390-391). A `clear()` in that wait sets it to
  idle, and the connection that is made afterwards stands under it. A mesh whose last peer leaves keeps the badge it had (264-289).

### The page

* `setDenoiseEnabled` publishes with the switch of its render (`useMatchSession.ts:701`, against
  the comment at 704). Overlapping `ensureStream` calls leave a camera open that nothing
  refers to (`useMedia.ts:213`).
* Entries of the level meter outlive their participant, since nobody calls `setStream(id, null)` for one who left
  (`useSpeakerFocus.ts:66`): such an entry may keep the floor (105), and the spotlight, which finds no tile for it, gives
  way to the two sides (`VideoStage.tsx:325`, 333).
* The seat of a game asked for in one call opens the game in the next (`useActivities.ts:77`). When the room changes
  without a hang-up between (`useMatchSession.ts:442`), the effect that resets `sentInvites` (`useCallParty.ts:106-117`)
  is followed in the same flush by the announcing one (170-176), whose render still has the old session: the old
  party's game is announced in the new room ("only the launcher's own client invites the room, and only once per game", 168).
* A game whose frame reloads has lost its moves. The first player may move while the page says that it waits for the
  second (`TicTacToe.tsx:101`, 106, 121); the second one's board starts empty and waits for X, who waits for O,
  although the boards are said to converge (`activities/tictactoe/logic.ts:4`).
* The boot's `me()` can overtake a login or logout; a logout that fails leaves the cookie.
* A report from a guest's tile carries no id and hits whoever is the partner by then
  (`App.tsx:322`). Escape that closes a menu also ends the call (`CallBar.tsx:94`,
  `useCallKeyboard.ts:58`).
* Late answers to `loadMessages` and `loadMembers` land in the conversation that is open by then
  (`useSocialData.ts:63`). Notifications are capped at 50, and unread counts with them. A
  declined or ended friendship is pushed to nobody (`FriendDeclined` and `FriendRemoved` have no sender).
* Saves of the profile editor are not ordered (`ProfileEditPage.tsx:260`); undoing while a save is under
  way skips the save (258); an upload that outlives its editor deletes the saved photo
  (`AvatarCard.tsx:31`); a failed load lets sample links be saved over real ones (245).
* A follow toggled before its state was read is overwritten (`ProfileActions.tsx:59`); `blocked` is carried
  to the next profile.
* Filters chosen on the deck or in the wizard never reach the account (`AppModals.tsx:186`); after
  sign-out the account's filters stay and can be saved into the next one; a group match from the
  wizard is created with the filters of the previous render. The offer of a shared link is never
  shown: its state is initialised before the link is read (`App.tsx:224`).
* The console shows answers of an older filter or key (`AdminApp.tsx:100`); balances in App, panel
  and server differ until the next question.

## What is not modelled

* `hydrate_blocks`, `unblock_pair` and `purge_stale` of the engine have no caller.
* Rate limiting: one map of fixed windows under one lock, without interaction with the rest. A
  refusal by it is a request that did not happen.
* The relay of signals and chat reads the engine under its lock and changes nothing in it; its
  effect, queues between the ends, is part of `SoloCall` and `MeshCall`.
* `room:matched` after `room:peer-left` (11 above): the frames are announced late in `Matchmaking`, but no
  client module is fed by it; `SoloCall` starts each end with `room:matched`.
* Invitations to a direct match as rows, chat inside a call, expiry of codes and tokens, what
  happens to a mute before its track arrives, the recovery timers of a failed connection.
* Names, descriptions and images of groups; Markdown; files of uploads; schema migrations.
* Profiles and reports on the server beyond what the pages show of them: single-row updates.
* Alerts, mail, TURN, OAuth, hashing, static files, metrics and start-up: I/O.
* Translations, shaders, icons and static pages; the vendored authentication library.
