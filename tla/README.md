# Browserland in TLA+

Models of the browserland broker (`webterm/broker`) and of the page it serves,
checked with TLC and, for the nine models where a theorem can be had,
proved with TLAPS. Every definition follows the code; `PROJECT.json` maps it to
the lines it stands for.

## The system

One **broker** (a single asyncio loop, Sanic with `single_process`) sits between
terminals and browsers. **Agents** (`webterm/agent`) own a PTY each and connect to
`/browserland`; a **page** (the `NN_js_*.js` fragments) opens `/ws?session=` per
terminal window, one `/control?clientId=` channel per host, and uses HTTP routes such
as `/state`; **MCP** clients use `/mcp/*` and the desktop relay. A **supervisor**
relaunches the broker, an updater replaces its checkout, **mods** are installed and
removed at run time and run inside the page, and a peer proxy reaches other brokers.

| component | state | operations | hard because | right when |
|---|---|---|---|---|
| producer registry, terminal control (`registry.py`, `relay.py`) | `_entries`; per entry controller, gen, subscribers, revoked, published view; publisher tasks and sections | register, replace, deregister, attach, drive, claim, release, take back, publish | every send is an await; sockets attach, stall and die between the steps; producers reconnect | one party drives; grants end with their socket; every socket rests on the live view |
| lease and desktop relay (`app.py`, `64_js`) | active client, lease generation, `/control` sockets and their senders; the page's socket in charge and its replacement; pending calls | connect, become_active, release, ping, relay, answer | statuses are built late and sent per socket; half-dead sockets; late answers | no page acts on a lease it lost; a call's "ok" belongs to its holding |
| shared state (`app.py` `/state`, `52_js`, `84_js`) | `ctx.state`, its file, lock; the page's mutation record, parked edit, channel, view epoch | GET, PUT; edit, push, pull, park, flush, adopt | lost requests and replies, cancelled handlers, crashes, views torn down under a request | memory is the file; old intent yields; a page at rest is in step |
| per-mod store, save chain (`app.py`, `86e_js`, `86c_js`) | per-mod record, its revision ring, the chain's queue, batch, timer, waiters | get, put, save, flush, retry, die | conflicts, late PUTs, teardown under a save, marking as secret races a write | no winner is lost; nothing secret in the ring; every flush is answered |
| mod loader (`86_js`, `86b_js`) | registrations, active set, choices, pins, packages' scripts | boot, toggle, cascade, late registration, re-ask after login | failing inits, cycles, scripts after the deadline, a boot without `/info` | nothing runs without what it requires; no choice is forgotten |
| tiling and windows (`57`–`62a`, `66`, `67`, `73`) | columns, rows, cells, tabs, the front window, what is open | open, close, drag, tab, split, float, adopt | gestures on targets captured earlier; layouts of other browsers and versions | a well-formed strip; no window lost |
| workspaces mod | the named groups beside the columns, floats' homes, remembered columns | switch, add, remove, send, stack, drag | dialogs and drags across a peer's layout; two browsers repairing each other | acts on what it named; two browsers settle |
| update mod | per-host catalog, last writes, gates, applies under way | read, check, write, consent, apply, restart | answers in any order, re-pointed host ids, a broker that goes away | rows show the newest write; "restarted" is proven |
| detached and controlled views (`84a`, `84b`, `73`) | lock, frames, the record of what is out; who drives, by four channels | detach, claim, return, heal; push, poll, take back | documents die and reload; channels overtake and lose | one writer per terminal; the truth shows in the end |
| heartbeat (`75`, `76`) | polls, mutex, misses, parked windows, layout grace | tick, refresh, sweep, park, restore, catch up | watchdog, restarts, launches under way, lease flips | closes only what is dead |
| hosts, peer proxy, passwords (`56`, `63`, `83`, `peers.py`) | host records, pairings, `/info` memo, login form, requests out | ask, log in, switch, edit, re-pair | stale reads, a peer that moves, refusals by either broker | a password reaches only its machine |
| per-window MCP facts, restart and quiesce, supervisor, agent, launcher, mod installation, recording, PTY, MCP tool | see `PROJECT.json` | | | not modelled |

The components call each other in one process or meet on the wire: a lease move
closes terminals (4409) and gates `/state` writes; the registry's control section
orders what the relay sends; the page tears its view down when its `/control` channel
says so, which parks the owed edit and empties the heartbeat's park.

## Modules

| module | what it is | run | theorems in |
|---|---|---|---|
| `TerminalControl` | `registry.py`, `relay.py` and `POST /session/control` | `control_*` | `TerminalControlProofs` |
| `DriveRights` | what terminal control promises about who may drive, with no sockets' lives, locks or publication | `control_drive` | `TerminalControlProofs` (the refinement) |
| `LeaseChannel` | `/control`, the desktop relay and the page's half | `lease` | `LeaseChannelProofs` |
| `StateSync` | `/state` and the page's push and pull | `state_*` | `StateSyncProofs` |
| `SaveChain` | a mod's record, the chain that saves to it | `mods` | `SaveChainProofs` |
| `ModLoader` | boot, toggles, packages, pins | `mods` | – |
| `Tiling` | the strip and its mutators, repair and adoption | `desk` | – |
| `Workspaces` | the workspaces mod | `desk` | – |
| `UpdateFleet` | the update mod's rows and switches | `views` | `UpdateFleetProofs` |
| `UpdateApply` | its applies and restarts | `mods` | `UpdateApplyProofs` |
| `DetachView` | a terminal in a browser window of its own | `views`, `detach_writers` | – |
| `ControlledView` | who drives, as the page learns it | `views` | `TerminalControlProofs` |
| `Heartbeat` | the polls, the parked windows, the sweep | `hosts`, `beat_fast` | `HeartbeatProofs` |
| `HostDoor` | the door every request goes through | `hosts` | `HostDoorProofs` |
| `MC*` | the instances TLC checks | | |

An action is the code from one await to the next, since the broker and each page run on
one event loop. An action's comment names its handler where the name differs. Some
helpers come with a second operator next to them (`NeverHeldBy`, `AnyNews`,
`RePairedKept`, `DisappearedEarly`, ...): the same helper with a plausible mistake. No
action uses them; `PROJECT.json` "mutants" says which property each one breaks, which
shows that the property depends on that code.

### TerminalControl and DriveRights

`Register`/`SweepOne` are `register()` with its sweep of the replaced entry's
sockets, one await each; `RegisterCancelled` is its handler cancelled in that sweep:
`except Exception` lets the cancellation through, the rest of the list is never closed,
and the session, which had not been given its entry yet, deregisters nothing
(`"stranded"`). `ProducerExits`/`ProducerEnds`/`Deregister` are the ends
of `run_producer_session`; `Dial`, `EnterAttach`, `TellAttached`, `SocketEnds` are
`handle_browser_ws`; `AdmitFrame`/`SendFrame` are the gate before and after the wait
for the producer's send lock; `Claim`, `ReleaseFrame`, `TakeBack` the control
operations; `StartPublication`, `SendRevoked`, `SendView`, `FinishPublication` the
publisher task; `BroadcastFails`, `DropStalled` the sends that fail. History
variables: `lost` (sockets that lost an entry) and `drove` (the frame the last step
delivered). Two facts the model states as the code has them: during the broadcast
of an `exit` frame a grant may outlive its socket until `deregister`, and that
broadcast is not time-bounded.

- `SocketsRestOnTheTruth`: with no publication pending every subscriber has seen the
  live view (`RestsOnLiveView`), and one whose entry was replaced is closed or about to
  be (`ReplacedSocketsAreSwept`), but for those a cancelled sweep left in its list. They
  rest on a dead entry, as do those of a producer that ended first: `NobodyFrozen`, the
  comment of the sweep taken at its word, is violated both ways (`control_frozen`).
- `GenerationsOrder`: views only get newer on a socket, and a take-back frees the claim
  it was sent for or nothing.
- `GrantNeverOutlivesSocket`, `OnlyTheLiveEntryIsControlled`.
- `DriveRightsHold`: the module implements `DriveRights`, with "silenced" refined to
  the losers that still subscribe.
- `EveryChangeIsPublished`, `EveryAttachIsAnswered`: liveness.

### LeaseChannel

Broker: `Connect`, `BecomeActive`, `Disconnect` under `lease_lock` (never held over
an await, so one step each), `SendLease`/`StallLease`/`Ping` the per-socket sender,
`Relay`/`TrySocket`/`EndCall`/`DesktopResult` the desktop relay. Page: `Dial`,
`SocketGone`, `HearLease`, `Click`, `HearRpc`, `Answer`. A status is built when it is
sent, so `owed` only says that one is due. The model allows a little more than the
code: a handler does not wait for its own round of statuses, a status and a pong due
on one socket are one frame, and a timeout may fire at any time.

- `HolderIsKnown`: the holder is connected, a generation names one holder, no page at
  rest believes it holds a lease it lost, and a click cannot make two pages fight over
  the lease.
- `PageNeverGoesBack`: two sockets of a page may deliver in either order.
- `RelayAnswersAreTrue`: what an agent is told of its desktop call.

### StateSync

Broker: `AnswerGet`; `TakePut` (refused, conflicting, or its write starts), `WriteLands`
or `WriteFails` in the executor, `Commit` back on the loop; `Crash` between any two.
The page's requests share one channel (`wire`); `GiveUp` is the deadline, a lost
connection or a lost reply, and leaves behind a PUT the broker may still read
(`strays`) or the shielded section that outlives its handler. Page: `Edit`,
`TimerFires`, `PushSends`, `PushReply`, `PullPolls`, `PullReply`, and the view's
`Teardown` (which parks the owed edit), `Rebuild`, `Flush`, `PullsAtRebuild`. The
operators over a page record are the functions of the mutation record one for one
(`SendBase` is `_stateSendBase`, ...). Other tabs are `TakePeer`. That another browser
holds the lease is a conflict `TakePut` may always answer. Who waits for the channel
gets it in the order they came (`FlushesBefore`). History variables: `lastPeer` (the
last peer's write; one of content the page itself sent, before it or since, is no
news), `origin` (the first base of old intent), `slipped`.

- `MemoryIsDurable`: no cancelled request, late PUT or failed write leaves a state
  that only the file or only the memory has.
- `RestsInStep`: a page at rest on the broker's revision shows the broker's state.
  Edits of the kind the finding `state_owed` is about (`slipped`) are excepted.
- `IntentsAreOrdered`: the page's revision only grows, across broker crashes, and a
  parked edit, or one whose PUT was lost, never overwrites a peer's write its base did
  not include.

### SaveChain

One mod's record on one broker, the chains of its activations and other browsers
(`PeerWrites`). A stored value is the set of the writes whose reducers made it, which
is all that "no write is lost" can tell apart. `Save`, `DebounceFires`, `Flush`,
`Unload` are the chain's calls and its timer; `ServeGet`, `ServePut`, `ServeStray` the
broker's side, with the ring, the `noHistory` flag and the de-duplication of equal
values (`Put`); `HearGet`, `HearPut` what the chain does with an answer (rebase on the
winner it was shown, retry within `Budget`, report); `Fail` a lost request or reply;
`MoveLease` a lease elsewhere (403).

- `WinnersSurvive`: no write loses what another one stored.
- `SecretsStayOutOfTheRing`: nothing written while the record is without history is
  ever a past revision.
- `EveryFlushResolves`: every flush is answered.

### ModLoader

`BootStart`, `BootInfo`, `BootInfoFails`, `RunScript`, `ChainEnds`, `WaitOver`,
`BootFinish` are the boot; `LateRegister` a script after the deadline; `SetModEnabled` a
click with its cascade (`BringUp`, `TakeDown`); `LoginAsks` to `LoginApplies` the re-ask
after a login, which reads the pins again if the boot could not. `TopoSort`,
`ResolvePins`, `Kahn` and the cascades are the code's functions over one record of the
active mods.

- `TeardownsComeInOrder`: no mod is unloaded under an active mod that requires it.
- `ChoicesSurvive`: only a click drops a choice for a mod this broker has.

### Tiling

The layout as sequences of columns, rows and cells. `Commit` is every way a drop, a
menu or an RPC ends (`Target` says where), on a target captured earlier: so any slot,
column, window and group. `Reconcile` is the repair with its migrations, `Adopt` a
layout from `/state`. `Ops` says which operations an instance exercises.

What the page leaves to the next animation frame is in `later`, in the order it was
asked for: the relayout (`requestRelayout`, once per frame), the second turn of
`bringToFront` for a tab that was not drawn, the focus of a window that was tabbed or
dropped as a group, and the focus a minimized or closed window hands on. `Frame` runs
what is there; what that asks for waits for the frame after; and any operation may come
in between, on a list of up to `MaxLater`. `ToFront` is `bringToFront`: of a hidden tab it
shows the tab and returns (`Revealed`), and its second turn concedes when another tab
has come up meanwhile. `MovedNow` and `MovedLater` are the two ways a mutator ends,
`HandOn` is `reconcileTiledFocus`.

- `NothingToHeal`: every mutator leaves what `Reconcile` returns unchanged.
- `AdoptLosesNothing`: at every layout this page can have reached when one arrives from a
  peer, an older version or a damaged store, the columns afterwards hold the windows it
  mentions and no other; a window tiled here that it leaves out floats if it is still
  listed as open; and no operation before or after leaves a window that is up, tiled
  and listed as open in no column (`NoneVanishes`).
- `FrontIsSeen`: whatever operation comes, and whatever waits for a frame at that time,
  three frames later nothing waits and the front window shows. So tabs that ask for the
  focus at once do not fight over their strip for ever. Not so, and excepted, when a
  window that waited for its turn was minimized or closed first: its tab had been made
  the active one, the strip falls to another tab, and that one is not put in front; and
  a switch of workspace. What follows such a state is held to it again once the front
  window shows.

### Workspaces

The mod's own functions on a layout (`Heal`, `SwitchL`, `RemoveL`, `MoveTo`, `StackL`,
...); `Open`, `Act`, `Cancel` are a menu, a dialog or a drag that is opened and acts
later; `OpenFloat`, `CloseFloat`, `Reveal`, `Chip`, `FocusTile`, `Refocus`, `Relayout`
the core's calls into it; `Push`, `Poll`, `Reload`, `Peer` the other browsers, whose
layouts may arrive at any time. Names and colours are one tag; new ids are any unused
ones; a conflicting push adopts.

- `ActsOnTheNamed`, `ReturnsToItsColumn`, and `AgreesInTheEnd`: a browser with the mod
  and one without stop saving at each other.

### UpdateFleet and UpdateApply

`UpdateFleet`: `PollTick`, `PanelRead`, `Click`, `OfferConsent`, `Confirmed` send;
`Serve*` and `Lose` are the broker and the network; `LandRead`, `LandCheck`, `LandWrite`
use the answer; `EditHosts` re-points an id, `Elsewhere` is another browser. A host's
url stands for its machine; rows repaint whenever facts change; the dialog is one.
`StandingWriteIsNewest` assumes what `update.js` assumes, that writes to one machine are
committed in the order they were sent; their answers are in no order. `told` is the
newest view the page has heard per id, since the id was last forgotten (a poll that no
longer finds the host drops its last write with everything else it knew,
`update.js:790`): a host taken out and put back while two writes are out may be
repainted by the older.

- `StandingWriteIsNewest`: an older write's late answer repaints nothing.
- `GrantsAreCurrent`: a grant never asks for a gate that was open or locked on the
  facts it was sent from, and goes to the machine its dialog named.

`UpdateApply`: `ClickApply`/`ConfirmApply`/`Ask`/`Answer` and the same for restart;
`Accept` the 202, `SameBoot`/`NewBoot`/`HostMoved`/`WaitRanOut` the polls of `/info`;
`Reboot`, `EditHosts`, `Unload` from outside.

- `DoneProvesReboot`: "restarted" is never a 202, nor another machine's answer.
- `EveryWaitEnds`: no row waits for ever.

### DetachView and ControlledView

`DetachView`: the desktop's record of what is out, the child's Web Lock and frames, the
lock queries whose answer is used later (`QueryAnswered`), and everything that dials a
socket: `OpenTerm`, `ReturnDetached`, `Heal`, `LoginHeals`, `Rehome`, `TicketComes`,
`ChildDials`. Documents die (`ChildDies`), reload and lose the lease at any point. Not
in it: a child's own ticket delay, the `return` frame, the WindowProxy focus shortcut.

- `YieldsToTheOwner`: a desktop does not stay attached beside a child that owns the
  terminal, whatever frames crossed, as long as its window is not marked as out.
- `TakesBackOnlyFromTheGone`: no answer, frame or grant takes a terminal back from the
  instance it was yielded to while that one owns it. Excepted is the late answer to a
  restore click, which nothing guards (84a:308); a `ready` frame then repairs it.
- `ComesBack`: what no child owns any more comes back, also a window that was closed
  meanwhile.
- `StaysAway`: a window marked as out dials nothing while its child owns the terminal.
  Violated (`detach_writers`).

`ControlledView`: the broker's view `ctl`, and the four ways it reaches the page, each
with its own delay and loss: the window's socket, the push, the poll, the answer to
Take back. `Apply` is the one function they end in. Replacement of the control socket
within one broker run is `LeaseChannel`'s.

- `NeverShowsOlder`, `RestsOnTheTruth`.

### Heartbeat

`Refresh`, `SettleEnds`, `Watchdog` are the mutex; `Applies` is the whole of
`refreshTaskbarInner` after its wait; `Served`, `Breaks`, `PollLands` a poll; `Launches`,
`LaunchAnswered`, `FrameArrives` launches; `Teardown`, `Rebuild`, `ChainStep` the lease;
`Catch*` `_catchUpSessions`. Clocks are guards: an agent is back within 10 s of a restart,
so at most `MissClose` - 1 slow ticks see it gone; a park lasts 15 s, the layout's grace
120 s; a page that slept (budget `sleep`) is the exception. One restart per behaviour.

- `SweepsAreJustified`, `MutexIsOwned`, `CatchUpMerges`.

### HostDoor

`pg` is the page; the operators on it are the synchronous pieces of `63`, `56`, `83`:
`Published`, `RePaired`, `Commit` (re-pairing on every read of `/info`), `SetHostMode`,
`Edited`, `Stores`, `Refused`. `Start*`/`Submit` send, `Gate`/`Serve` are the two brokers
a relayed request passes, `Land` is the answer, `AskLands`/`AskServed` the `/info` memo;
`HubMoves` (only with a restart) and `Rotate` come from outside. A broker that cannot
proxy publishes no peer; microtasks run first; a user types the right password of the
machine the form shows, and wrong ones arise by rotation. Chips for refusals, the bound
of the mint queue and how the form is laid out are left out; edits under the modal
login form are allowed although the form covers the list.

- `TokenReachesItsMachine`: a password is only ever handed to the machine it is kept
  for. Excepted (`late`) is the password a login stores after its host's address was
  edited under the probe: `63:1024` notices only a switch.
- `NewPasswordKept`: a late refusal does not erase a newer password, for one move of
  the peer.
- `AsksOnlyForABadPassword`: no answer opens a login form for a password that fits, but
  when an edit that keeps a password, a switch and a move of the peer follow each other.

## Runs

| run | instances and bounds | distinct states | shows |
|---|---|---|---|
| `control_drive` | 1 window, 2 producer connections, 2 sockets (one with the lease's clientId, one without), claims and take-backs up to generation 3, a registration cancelled at any point of its sweep | 3.0 M | every safety property of terminal control, and the refinement |
| `control_live` | 1 producer connection, claims up to generation 2, `LiveSpec` | 28 k | its liveness |
| `lease` | 2 browsers with a page each, 2 + 1 sockets, one click, ping or call (`OneRequest`) | 1.8 M | the lease and the relay, under connects and ends in any order |
| `state_sync` | 3 values and one the broker refuses, 2 edits, peers up to revision 3, 2 view changes, 1 stray PUT, `RetryFast` 0 | 4.5 M | shared state |
| `mods` | loader: `boot` (four dependency graphs, cycles, a failing init), `login` (two logins, an operator, misattributed registrations); chain: `chain` (two activations), `ring` (history options), `live` (a save that cannot be composed, fairness); update mod: `applies` (two operations), `ends` (one, a third machine to re-point at, fairness) | 1.0 M | the loader, the save chain, applies and restarts |
| `desk` | strip: `drag` (3 windows, drops, groups and menus at rest), `tabs` (3 windows, drops and clicks between frames), `alone` (2 windows, 2 workspaces), `sync` (17 layouts of peers, 3 of older versions or damaged); workspaces: `return`, `acts`, `peers`, `float`, `settle` | 0.45 M | the layout and its workspaces |
| `views` | detached: `hands` (two children), `both` (two desktops), `mints` (proxied); controlled: `order`, `lost`, `again` (restart); fleet: `writes` (two switches), `rival` (another browser), `moves` (a re-pointed id), `consent` | 0.9 M | who holds a terminal, what the update mod's rows show |
| `hosts` | heartbeat: `grace`, `death`, `flips`, `catches`; door: `tokens`, `nags`, `twins`, `grants` | 0.8 M | the heartbeat and the passwords |
| `control_frozen`, `state_owed`, `detach_writers`, `beat_fast` | one property each, violated | | the findings |

**Runs with parts.** `mods`, `desk`, `views` and `hosts` check several
instances in one run: the variable `part` says which instance a behaviour exercises,
the other half stays as it began. The state space is the sum of the instances, not a
product, and each property is stated for the parts whose bounds make it interesting.
Where two halves share no state this loses nothing: the loader does not read a mod's
record, the update mod keeps its operations in the page's memory, the two views of a
terminal have sockets of their own, and to the heartbeat a poll is an answer or none,
whichever door it went through.

**Bounds.** They are constants of the modules, spent by guards (`MaxGen`, `MaxClick`,
`MaxPing`, `MaxRev`, `MaxEpoch`, `MaxStrays`, `MaxSaves`, `MaxLeases`, `MaxClicks`,
`MaxOps`, `MaxWrites`, `MaxReads`, `MaxEdits`, `MaxOutside`, `MaxBoots`, `MaxOpens`,
`MaxLater`) or
records saying how often each outside event happens (`Budget`, `Left0`, `Starts`);
`OneRequest`, `TwoOps` and `OneOp` bound one part of a run. Nothing else is bounded.
They reach the cases in question: a claim superseded, taken back and claimed again with
the first take-back still under way; every order of replacing and ending with sockets
on both entries; a control socket with its replacement and a rival; an edit lost in one
view and retried in another with a peer's write on either side; two saves and a
conflict for each, one of them from a dead activation; two switches with answers in
either order; a hand-over that crosses a lock answer, a reload and a loss of the lease;
a park, a launch and a watchdog around one run of the heartbeat; a read of `/info` from
before a restart used after it. The mutants show it: each property fails under its own
run when the code it is about is changed.

**Symmetry**, with no liveness property affected: the two entries (`control_drive`),
the two sockets of one page (`lease`), the two values nobody starts with
(`state_sync`), and the three windows only the parts `drag` and `tabs` open (`desk`).

`CHECK_DEADLOCK FALSE` stands where the system may really stop: a page with every
socket used up (`lease`), out of edits (`state_sync`, `state_owed`), a mod, a desk or a
host list nobody touches any more, a terminal that ended.

**Fairness**, each kind with what the code grants it:

- `control_live`: the event loop runs every ready task (weak fairness of a publisher's
  next send and of a socket's end); `asyncio.Lock` is FIFO (strong fairness of entering
  a section that is free again and again). The publisher's sends are bounded by
  `CONTROL_SEND_TIMEOUT`. The attach's own two sends are not: `WF(TellAttached)` rests on
  the transport's keepalive ending a dead peer.
- `mods`: the debounce timer fires, a request is answered or fails, an answer is heard;
  `Progress`, an apply's next poll; `RunsOut`, the deadline that is checked on every poll
  (strong: polls and answers alternate).
- `desk`: infinitely often no relayout, no push and no pull is due
  (`[]<>`, in the part `settle`): timers that are always set again after they fire.
- `views`: the browser hands a free lock on and refuses or grants a child's request, the
  desktop gets to lock answers, grants and frames, and an attached child says `ready`
  every five seconds (84a's tick); polls, pushes and re-dials of a page that is open
  come. Users, crashes and the lease owe nothing.

## Findings

1. `control_frozen` (`registry.py:588`): a producer whose connection ends *before* it
   registers again leaves its browsers' sockets open on the dead entry; only a
   replacement while the old entry is registered closes them, and only to the end of its
   list: a registration cancelled in between leaves the rest, and itself registered.
2. `state_owed` (`52_js_state_sync.js:291`): a push called in one view and sent in the
   next, and a push refused because of the page's own earlier write, can end with an
   edit that reached nobody and that the page no longer counts as owed.
3. `beat_fast` (`75_js_taskbar_hosts.js:1154`): while anything is parked, the fast poll
   counts towards `MISSING_POLLS_CLOSE` too, so a launch during a broker restart closes
   every window of that broker.

4. `detach_writers` (`73_js_window_runtime.js:50`): a desktop that yielded a terminal to a
   browser window of its own can attach beside it, with the ticket it was waiting for,
   after a login (`63:1111`) or when its host is re-homed (`56:320`). Nothing closes that
   socket again, since to the child's `ready` the window is out already.

`PROJECT.json` "findings" quotes the lines each one contradicts.

**Divergences** met while modelling, that the models have as the code has them and that
no run is about:

- `registry.py:335`: a failed broadcast drops a subscriber with its entry in
  `revoked`; its relay loop still reads frames. `app.py:5123`: a connection that claims
  a free lease tells only itself, other sockets of that client rest on "inactive".
- `84a:308`: a lock answer after a restore click takes back without asking whose the
  terminal is by then; `84a:369`: a prune deletes the record it finds after its await;
  and it passes over a record whose child lives, which nobody then watches: the window
  closed before a reload does not come back when that child dies.
- `66:188`: a hidden tab is made the active one before its second turn puts it in front;
  minimized or closed in between, it leaves the front window behind another tab of the
  strip.
- `63:1024`: a login's probe is discarded after a switch of the host, not after an edit
  of its address (`late`).
- The client of a chain that has given up reports an idle flush by its last result
  (`86e:341`), and `64:1838` marks a launch as seen before it knows the park outlives the
  lease.

## Proofs

For every value of the constants, from the assumptions the modules name about them
(`WindowAssumption`, `ClientAssumption`, `NullAssumption`, `BoundAssumption`,
`LeaseAssumption`, `ValueAssumption`, `ApplyAssumption`, `ChainAssumption`,
`HostDoorAssumption`, `FleetAssumption`, `ControlledAssumption`: what maps to what, that
nulls are nothing else, that bounds are numbers). TLC evaluates all of them in its runs.
Every invariant was an invariant of a run before it was proved.

**Terminal control.** `TypeOK` is not inductive alone: a publisher's section names
sockets and a pending list it relies on, so `TInv` adds `Dialled` (a socket past its
dial has an entry) and `Publishing` (a section that publishes has a publication
pending): `TypeCorrect`. `CInv` (`ControlInvariant`) says that what is registered under
an id is an entry of that id whose session is running or exiting; that a controlled
entry is registered; that every generation is at most `seq`, which is why a later
entry's is greater; that losers had got past their attach and, while they subscribe,
are in `revoked`. `GrantEndsWithSocket` and `OnlyLiveControlled` follow.

`ImplementsDriveRights` (`Spec => DriveRightsHold`): the steps fall into those that are
none of the promise's business, frames, sockets that leave, claims, releases and
take-backs, and terminals that end. The frame is the step with content: it needs that a
loser still subscribing is in `revoked`, because the promise is about `lost` and the
gate reads `revoked`.

`PublicationInvariant` adds what the publisher relies on. `QueueInv`: pending views are
in order, a change of the live entry is the last of them or told already, generation 0
is the free one. `GenInv`: no generation is used twice, and a take-back under way names
a claim there was. `SockInv`: where an attaching socket stands between joining, taking
the section and being told; a subscriber has been told what was published, or is in a
list that is going to tell it. `SweepInv`: the sockets of a replaced entry are in a
sweep, or in one that was cancelled. `SocketsRest` and `GenerationsInOrder` follow.

**Lease.** `LeaseInv` (`LeaseInvariant`): a status on the wire with the live generation
names the live holder, and so does a page's belief (`LeasesNamed`); a page that believes
in a lease it lost is owed a status or has one on the way (`LossesTold`), whatever
socket it changes to (`SocketsWired`); the holder has a serving socket. With
`TakeoversPaidFor` (asks and wanting pages are at most two per click) it gives
`LeaseHolderIsKnown`. `PagesNeverGoBack` needs the types alone. `RelayAnswersTruly` needs
`RelayInv`: a call names the holding it was made in, what was not handed out is on no
wire, an op is applied once at most, and a success on the wire was applied.

**Shared state.** `SyncInv` (`SyncInvariant`): memory follows the disk; the channel, the
lock and the shielded section belong together; a reply on the wire tells a revision
that was; a push names the edit it carries and the base it knew; the page's base is
what that revision holds; an edit nobody covered is owed, parked, on the wire or
`slipped`. `SyncMemoryIsDurable`, `SyncRestsInStep` and `SyncRevNeverGoesBack` (the first
half of `IntentsAreOrdered`) follow.

The other half, that old intent yields, needs a second invariant on top,
`SyncInv /\ IntentInv` (`SyncIntent`). Until the last edit is old intent, no PUT of it was
built on more than the base its next PUT would name (`UnnotedSeen`), so that this base
bounds them all at the moment the edit is parked or a reply is lost. Once a peer's write
passes an old intent's base, the PUTs of it that are out were built on less than the
peer's revision (`GenYields`), so the broker answers 409, and so will be those to come
(`PageYields`): as long as it may still be sent it is parked or failed (`OldIntentKept`),
and its base moves up only to a revision whose content the page itself had sent, which a
peer's news is not (`NewsUnsent`). A rebuilt view flushes what was parked before anything
else (`FlushFirst`, `FlushOwes`). `SyncIntentsAreOrdered` follows.

**Applies.** `ApplyInv` (`ApplyInvariant`): a waiting row has its run, a run and its row
agree on the machine and the boot id of the 202, and both are of the past.
`RestartedIsProven` follows, since a machine's boots only grow.

**Fleet.** `FleetTypeCorrect` needs, besides the shapes, that ids are used once
(`OneEach`) and that a check under way has a request of its own in flight (`Awaited`),
which a superseding read or a re-pointed host could break. `GrantsStayCurrent`: a grant
and the machine it goes to are facts about the step that sends it, and no request
changes later. `WriteOrder`
(`WritesInOrder`) follows the writes: of two writes to one machine the older is answered
first, with the smaller revision (`AnsweredInOrder`), no answer is ahead of the machine
(`NoneAhead`), and what was heard lies between the answers to the writes sent before and
after the one the page's stamp `lws` names (`Beside`). So a late answer is either newer
than all that was heard or recognised as older: `StandingIsNewest`.

**Save chain.** `StoreInv` (`StoreInvariant`): of every request under way, late or
answered, if the record is still at the revision it was built on, what it holds extends
the record (`PutsExtend`, `RepliesExtend`, `StraysExtend`): that is compare-and-swap as
an invariant, and nothing about queues, timers or waiters is needed but their types.
`SecretsMarked` says that a revision without history is current only while the record
is marked. `SaveTypeCorrect`, `NoLostWrites` and `SecretsStay` follow.

**Door.** `DoorInv` (`DoorInvariant`): a record's password is kept for the machine it
leads to (or it leads nowhere, or its host is `late`), and a request's for the one it is
on its way to; `LoginWay` says which way a login goes. Nothing about the memo, the reads
of `/info` under way or what the broker publishes is needed, so no order of restarts,
switches and stale reads matters: `PasswordsReachTheirMachine`. `DoorTypeCorrect` is the
types. They do rest on the memo: whoever waits for what is published waits for a read
that is under way or answered, each read has a waiter or is the memo, and so, with no
more requests than places, a read always finds one.

**What the page shows.** `DeskInv` (`DeskInvariant`, at the end of
`TerminalControlProofs`, which has `ControlledView` as `Desk`): nothing recorded, shown or
on its way to the page is of a generation the broker has not reached (after a restart:
beyond the bound), and `PollNoOlder`: the answer of a poll under way is no older than the
record, unless the record was written since the poll was sent. Every change of control
takes a larger generation, so a poll answered now is no older than anything recorded
before it. `DeskNeverShowsOlder` is the step property `NeverShowsOlder` of the run;
`DeskTypeCorrect` is the types, restarts included.

**Heartbeat.** `HeartInv` (`HeartbeatInvariant`) is the types, `MutexIsOwned` and two
facts it needs. `WaitsForOwner`: a catch-up waits for no run but the owner of the mutex,
so one that finds it free can take it (`MutexStaysOwned`). `AnswersCounted`: a window has
missed no more ticks than its host answered without it, and a fresh answer not yet
counted is still on top, so a sweep always rests on `MissClose` answers of the window's
own host (`SweptOverAnswers`), whatever tick, catch-up or retired run counted them. That
the session is dead by then is a matter of clocks, and not so while the fast loop runs
(`beat_fast`).

**Only model-checked**, and why:

- liveness (`EveryChangeIsPublished`, `EveryAttachIsAnswered`, `EveryFlushResolves`,
  `EveryWaitEnds`, `YieldsToTheOwner`, `ComesBack`, `RestsOnTheTruth`, `AgreesInTheEnd`):
  fairness and ENABLED are out of the prover's reach;
- `NothingToHeal`, `AdoptLosesNothing`, `FrontIsSeen`, `TeardownsComeInOrder`,
  `ChoicesSurvive` and the workspaces' properties: they say what folds and recursive
  functions over layouts and graphs compute, which needs induction over data;
- `TakesBackOnlyFromTheGone`: it rests on which frames can still be under way to a
  desktop, and its proof would be as long as the model;
- `AsksOnlyForABadPassword`, `NewPasswordKept`: not true for every constant. The first
  breaks when an edit that keeps a password, a switch and a move of the peer follow each
  other; the second when the peer moves away and back under a login with the password the host already had:
  the refusal heard in between is of that very password and pairing, and erases it again
  (63 compares just those). The runs' bounds leave those cases out;
- of `SweepsAreJustified` that the session is dead, which rests on clocks, and
  `CatchUpMerges`: the model lets a catch-up's last step come any time after the run it
  waited for, so more may fall in between than the runs' bounds allow.

## Not modelled, and what is next

Left out of the modelled components: labels and times of claims, bytes of streams,
sizes in layouts, the first load of `/state` and the detached surface's copy of it,
broker restarts as the lease sees them (`bootId`), the `not_active` hint, the revisions
a mod lists and restores, direct `ctx.serverStore` calls, another tab's `localStorage`,
pointer handling and rendering. A component with no model is listed with its reason in
`PROJECT.json`: per-window MCP facts, restart and quiesce, the supervisor, the agent,
the launcher and mod installation keep state of their own and are worth a model; the
PTY backends, the MCP tool, the recorder and snapshots are I/O or conversions.

Hazards with no property, nearly all in components left out: the attach's own two sends
hold the section without a deadline (`relay.py:122`); a state file that cannot be read
at start is revision 0 again (`app.py:1193`); a prune while hellos come in
(`mcp_windows.py:482`) and writers with working copies of that store (`app.py:4485`); a
drain that races new work and one restart authorized twice (`app.py:1943`,
`app.py:1502`); a management RPC whose entry is replaced (`app.py:6815`); a deploy
concluded twice across a crash (`supervise.py:658`); output queued across a reconnect
(`agent/client.py:166`); a crash between the renames of an installation
(`modinstall.py:1646`); a ticket redeemed twice or late (`peer_sockets.py:167`).

Next: models of the restart with the supervisor's journal, of `mcp_windows`, and of the
agent's session.
