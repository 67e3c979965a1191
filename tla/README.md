# TheCrantalianCrystal: specifications

TLA+ models of TheCrantalianCrystal, a desktop for the river compositor, with
the TLC runs that check them, and machine-checked proofs of what the runs check,
except for liveness. Every definition is translated from the code;
`PROJECT.json` says which lines each one stands for.

## The system

Several programs make up the desktop. They talk over Wayland (with river),
D-Bus (with logind, portals and tray icons) and varlink (with each other).

| Component | State it keeps | Operations | Talks to |
|---|---|---|---|
| session lock (`shell/lock`: `TCCLock`, `TCCPamAuth`, `TCCLogind`) | lock state, deferred unlock, pending sleep, lock surfaces, dialog, password, PAM conversation, sleep inhibitor | lock and unlock (idle, key, varlink, logind), answer of the compositor, sleep and resume, output and pointer events, password entry | compositor, logind, PAM (own thread), varlink thread, window manager, screensaver loader |
| window manager (`shell/client`: `TCCClient`) | outputs, windows of each output, minimized and orphaned windows, seats with focus, bindings and operations, main output | river's events, the manage and the render sequence | river, session lock, desktop |
| desktop (`shell/desktop`) | icons of the minimized windows | click on an icon | window manager |
| screensaver (`shell/lock/screensaver.cpp`, `screensaver/`) | shell: per surface buffers, imports, frame callback; loader: per output size, buffers, which are in use | configure, buffer, ready, frame, release, remove, death of the loader | session lock, compositor |
| registry (`registry/`) | daemon: key/value store, subscribers; library: a connection, a subscription | get, set, list, subscribe, notify, reconnect | every program |
| portal (`portal/`) | service: dark theme, subscribers; bridge: calls in flight | D-Bus calls forwarded to varlink, signals forwarded back | registry, D-Bus |
| tray icons (`systray/src/dbus`) | watcher or host mode, items, their owners, pending property fetches, menus being fetched | name ownership, registration, refresh, property replies, items' signals | D-Bus, systray |
| systray (`systray/src`) | icons, the open menu or mixer; per volume item: devices, default device, streams, whether a refresh is under way | clicks, scrolling, sliders, the sound server's events and answers, reconnection | PulseAudio, D-Bus, sysfs |
| snip, clock, progman, bluescreen, icon and loader libraries | nothing shared | | |

What is hard about it:

* **Threads.** Locking may be asked for from the varlink thread, and passwords
  are checked on a thread of their own; both meet the main loop through a flag
  and an eventfd.
* **Answers that take time.** The compositor answers a lock request later, or
  refuses; logind waits only so long; PAM answers seconds later. Meanwhile the
  user unlocks, locks again, suspends, or unplugs a monitor.
* **Deferred work.** The window manager may only act in a manage sequence.
  Requests of windows, clicks, unplugged outputs and closed windows pile up in
  flags until then, in any combination.
* **Raw pointers.** Outputs, windows, seats and lock surfaces are deleted while
  other structures point at them, and vectors are erased from in loops over
  them.
* **Other processes.** The loader and the registry's daemon may die between any
  two steps, and are started again or not; sockets fill up; the same buffer ids
  mean other buffers after a resize.
* **Copies.** The dark theme is held by the registry, the portal and every
  program, tray items by their watcher and the tray, volumes by the sound
  server, the item and a slider. Each copy is read at one moment and kept up to
  date by notifications of another.

What makes each component correct:

* *session lock*: one lock surface per usable output and none without its
  output; nothing of a lock outlives it; nothing but the three authorised ways
  unlocks it; logind is told to wait exactly while a lock is on its way; no
  request, password or deferred unlock is forgotten.
* *window manager*: each window is in exactly one list; what is deleted is no
  longer pointed at; maximized windows follow their output; requests are granted
  by the next sequence; windows survive the loss of all outputs; focus passes on.
* *screensaver*: no frame of the wrong size is presented, a buffer is not drawn
  into while the compositor shows it, frames keep coming, a dead loader leaves
  black surfaces and no pointers to them.
* *registry*: calls take effect between being made and returning, with what the
  retry costs stated; subscribers are told every change in order.
* *portal*: once things settle everybody has the registry's value; each call
  gets exactly one answer.
* *tray icons*: the items shown are those of the current watcher, as they are.
* *systray*: what is shown ends at what the sound server has, and clicks act on
  what is shown; one popup, of an item that exists.

## Modules

| Module | Contents |
|---|---|
| `SessionLock` | the session lock with its threads, the compositor and logind |
| `SessionLockProofs` | TLAPS proofs about it |
| `ScreensaverIpc` | the shell's and the loader's ends of the screensaver, during one lock |
| `ScreensaverIpcProofs` | TLAPS proofs about it |
| `WindowManager` | the window manager with one seat, and the desktop's icons |
| `MCWindowManager` | symmetry for its runs |
| `WindowManagerProofs` | TLAPS proofs about it |
| `Register` | what the registry promises of a key: the abstract specification |
| `Registry` | the daemon and its client library, which implement it |
| `RegistryProofs` | TLAPS proofs about them, the refinement among them |
| `Settings` | `Registry` composed with the portal and a program |
| `SettingsProofs` | TLAPS proofs about it, on top of `RegistryProofs` |
| `StatusNotifier` | the tray as watcher or as mirror of another watcher |
| `StatusNotifierProofs` | TLAPS proofs about it |
| `PulseVolume` | the tray's volume item and the sound server |
| `Systray` | `PulseVolume` composed with the tray's loop, popups and one item with a menu |
| `SystrayProofs` | TLAPS proofs about it and `PulseVolume` |
| `SequenceLemmas` | what the proofs need to know about sequences |

Each module has a section of variants named `Definition_Mistake`. They are what
a definition would be with a plausible mistake, and show that each property
notices one; nothing else refers to them.

### SessionLock

One iteration of `TCCClient::run` is: poll, dispatch Wayland events, then
`TCCLock::process`. `pc` follows it:

```
poll --Wake--> dispatch --DrainWakeFd--> request --TakeLockRequest--> pam
  --PollPamResult--> logind --HandleSignal*--> FinishIteration --> poll
```

A handler is one action, since nothing runs in the middle of one on the main
thread. `process()` is split where another thread can run between two accesses
to what they share: the eventfd, `mLockRequested`, `mDone`. `request_lock` is
two actions (`RequestLock`, `RequestLockWrite`) and so is the end of the PAM
thread (`PamChecked`, `PamNotify`). Compositor events are enabled while the main
loop polls or dispatches.

`DoLock`, `Unlock`, `SleepReady` and `EndLock` are the code's shared helpers.
`DoLock` has three disjuncts, for its early return, for its failure path and
for locking. The arguments `sp` and `ow` carry what the caller has just set.
`CONSTANT Prereqs` says whether the tests at the head of `do_lock` succeed,
fail, or may do either each time; `Inhibits` does the same for logind's answer
to `Inhibit`.

systemd-logind is external: it queues `Lock`, `Unlock`, `PrepareForSleep` and
`Resumed`, waits while the inhibitor is held, but not for ever, and nothing runs
while the machine is asleep. `graceful`, `owed` and `stale` are history
variables that only properties read.

### WindowManager

The manage sequence is one handler, but its interest lies in its loops. They are
split into one action per element: `VisitOutput`, `CloseOrRestore`,
`VisitOrphan`, `ManageWindow`, with `pc` naming the loop and `cursor` or `work`
its position. No event is handled between `ManageStart` and the return to
`"idle"`. Loops over a copy use a set (`work`), since their order has no effect
that a property sees; loops over a vector that is erased from underneath them
use `cursor` and `tail`, which is what `erase` leaves in the storage behind the
vector's end.

Flags of windows and outputs are sets of those that have them
(`maximized`, `removed`); pointers are values or `None`. Coordinates are
abstracted to one fact, which output a window was last made to fill (`fills`),
and pointer positions to a choice of output, made once per sequence (`under`):
no event moves the pointer or changes the outputs between
`output_adopt_orphans`, the first to ask for the output under it, and
`seat_manage`. `dropped`, the window that the end of a sequence has put on
another output, is history that only `FocusTakenOver` reads. Use of freed
memory, where the code commits it, leads to `pc = "crashed"`.

`CONSTANT Uses` selects what windows and users do, so that each run explores
one corner of the interplay to the bottom instead of all of them to a shallow
depth. Events that every run needs (announcing, moving and resizing outputs,
opening and closing windows, clicking on them, an operation's end) are always
possible.

Assumptions about river: the pointer enters only windows that are open and
have been managed, and leaves a window before the window's `closed` is sent;
requests name outputs that still exist; there is one seat at a time. Windows and
outputs appear once each; a new one is another element.

### ScreensaverIpc

The shell is event driven: its actions are `surface_configure`, a message of
`scr_process`, the answers of the buffer import, `frame_done`,
`buffer_release`, the end of an output or of the lock. The loader is a loop,
and `loader` its place in it: `"recv"` blocks for a message, `"more"` reads what
else there is, `"draw"` visits the outputs (`todo`). Between them are two
queues, of which the one to the loader holds `Room` messages and drops what does
not fit (`scr_send`); a send to a loader that has exited fails, which from
inside any handler leads to `screensaver_failed`. A buffer is a generation and
an id, because the loader makes new buffers with the same ids whenever a size
changes; messages carry the id only. `drawn`, `hadSizes`, `returned` and
`dropped` are history that only properties read.

### Register and Registry

`Registry` follows one key. A call of the library is `Call`, then `Send`
(`attempt`, which connects if need be), then one of `Receive`, `ConnectionLost`
(with the one retry, if there was a connection to begin with) and `Timeout`.
`SetValue` in the daemon is three steps, the commit, the reply and the
notification, and `Crash` may come between any two. What a dead daemon has
written to a socket can still be read. A request whose caller has hung up may
still be carried out (`orphans`). The daemon takes the requests of different
connections in any order.

`Register` is the promise that remains: a `SetValue` that returned true was
written between call and return, a `GetValue` found a value the key had
meanwhile, and the key changes through nothing else, except that a `SetValue`
may write twice (the retry), and that one which returned false may write later.
`KeepsPromise` is the refinement, with `stored` for `value` and `orphans` for
`stray`.

### Settings

The portal is one thread: `place` names where in `portal/main.cpp`'s loop it is,
with each call of `GetValue` split into call and return, since the registry goes
on meanwhile. The portal's varlink service and the bridge run in the same loop,
so that their order is fixed by it: what `poll` found (`ready`), then the
service, the registry, the bridge. Of `Registry` the portal's client and its
subscription are kept; everybody else is `SomebodySets`.

### StatusNotifier

The tray's actions are the messages of its inbox, in the bus's order, and the
refresh, whose blocking call takes its reply out of that order. `line` is the
bus's queue for the watcher's name. Programs are items; a `Named` one can start
again under the same name and another connection (`instance`). A reply to a
fetch that has been cancelled still arrives, as a message that libdbus does not
know a call for and that the tray's filter leaves alone (`UnexpectedReply`).

### PulseVolume and Systray

A refresh of `PulseVolume` is three requests, each sent by the callback of the
one before; requests and answers keep their order, and the server may change
between any two. `Systray` is the loop around it: poll, relayout, input, where
`phase = "input"` handles any number of clicks. A poll reads 64 messages at
most, so that input may be handled with some still in the inbox.

The item with a menu is there for the popups: its layout arrives some time after
the click that asked for it. `ItemAdded`, `ItemRemoved` and `PropertiesReply`
are what `StatusNotifier` does to one item, at any time and in any order that
its list allows. `menuPath` says whether the watcher knows the path of the
item's menu. It does not from `addItem` until a reply to `GetAll` names one, and
meanwhile `sendMenuEvent` sends the program nothing (`CanTell`). `told` is the
last event that the item's program was sent, and `crossed` history that only
`ToldAsShown` reads. An item that is listed again may be that of the program
that was told, or of a new one, which has been told nothing.

## Runs

| Run | Checks | Bounds |
|---|---|---|
| `session_lock` | safety of the lock | one output, two queued signals, both answers of `Prereqs` and `Inhibits` |
| `session_lock_live` | liveness of the lock | no output, two queued signals |
| `wm_outputs` | lists, geometry, adoption, focus after a drag | one window, two outputs; fullscreen, unplugging, dragging |
| `wm_focus` | minimizing and focus | three windows, one output; minimize, restore, unplugging |
| `wm_input` | dangling pointers of the seat | one window, one output; maximize, resize, buttons, bindings, a seat that goes and comes back |
| `screensaver` | frames shown, buffers in use, cleaning up; frames keep coming | one surface, two sizes, three configures, two buffers, room for three messages |
| `registry` | the promise, subscribers, nobody waits in vain | two clients, one subscriber, two values, one crash, one timeout, two unread changes |
| `settings` | who knows the theme; the subscription comes back | the portal and a program, two values, one crash, one timeout |
| `status_notifier` | list, icons, replies, registrations; everybody is shown in the end | two items, one of them named, two watchers, two icons, three events |
| `systray` | volumes, popups, menus told open and closed | two devices, one stream, levels 0 to 2 of which 1 is 100%, two changes or replies to `GetAll`, two layouts being fetched; the item is removed and listed any number of times |
| `sleeps_locked`, `settings_program_follows` | a comment of the source each, which the code contradicts | as small as shows it |

Why these bounds are enough to be interesting: the lock treats each output by
itself, so that one that comes and goes meets every state of the lock, and the
proofs cover any number. Two signals are what it takes for an unlock to be
queued behind a sleep; three queue a whole sleep cycle plus a user's request
(used where a violation is sought). The liveness run has no outputs because no
liveness property mentions them, and its signals are bounded by
`MaxSignals`, which always leaves room for the one that ends a sleep. Two
outputs let a window be moved by a drag, by a fullscreen request's hint, by
unplugging and by adoption; skipping one of three in the erase loop takes three
(`WindowManagerUnplug.cfg`). Three windows let focus go while one is left to take
over, and another is closed or minimized in the same sequence, before or after
the focused one; one window and two outputs are what it takes to be dropped on
the pointer's output after `seat_manage` has looked there.

Surfaces of the screensaver share the socket and nothing else; three configures
are a size, another and the first again. Room for three messages lets the socket
fill up while the loader draws; the loader has three buffers and the run two,
which already lets one be shown, one be drawn and none be free. Two clients are
what it takes for a retry to overwrite another's value; with one crash every
step of a call can be cut, and the proofs cover any number of each. In
`settings` a second crash would only repeat the first, after which the
subscription has been got back. Three events let a watcher exit and a named
program restart, or an icon change while a fetch fails; two watchers let the
name pass to another before the tray gets it. Two changes of the sound server
let one fall into a refresh and another, or the user's, into the next.

The window manager's runs set `CHECK_DEADLOCK FALSE` because a shell that has
crashed stops, `screensaver` because a lock ends, and `status_notifier` because
events run out. The others are checked for deadlock.

### Fairness

`FairSpec` assumes weak fairness of the main loop (it is a loop around `poll`),
of a varlink thread between its store and its write, and of the PAM thread
(`pam_authenticate` returns). The compositor's answer to a lock is strongly
fair: the protocol obliges it to send `locked` or `finished`, and an event that
has been sent is dispatched in the next iteration, but the action is enabled
only at the points of the loop where events are dispatched, so that weak fairness
would not do. Nothing is assumed of users, of logind or of outputs. As a
suspended machine runs nothing and need not ever be woken, each promise may also
be cut short by sleep.

`ScreensaverIpc.FairSpec`: both loops run, the compositor imports buffers,
sends frame callbacks and releases buffers that it no longer shows; that it
releases the one it shows is not assumed. `SettingsFairSpec`: the portal's loop
and the daemon's run, and somebody starts the daemon again; serving the portal's
requests is strongly fair, because other clients' requests disable it again and
again. `StatusNotifier.Fairness`: the tray connects and reads its messages, a
refresh gets its answer from another watcher, or times out if it is the tray's
own, and programs register; that programs answer `GetAll` is not assumed.
Nothing is assumed of crashes, timeouts, users or anything
else that merely may happen.

### What the runs find

* `sleeps_locked`: an unlock noted while the lock is pending survives a later
  `PrepareForSleep`; `lock_locked` lets logind go on and then unlocks.
* `settings_program_follows`: the portal's check after resubscribing does not
  cover all that may have happened. A `GetValue` may be served before the
  `Subscribe`; a program may have read a value meanwhile that has changed back
  since; the `GetValue` may fail; the bridge may send a newer signal before an
  older answer. `ProgramFollowsUnless`, which passes, says that it takes one of
  these.

The following are kept beside the list of runs. Each is a property of its
module, and `tlc -config <file> <module>` finds it violated:

* `SessionLockReadyForNextSleep.cfg` (`SessionLock`): resuming while the lock is
  pending leaves the shell without an inhibitor once the compositor answers,
  against `lock.cpp:103`, "Woke back up, get ready for the next time."
* `SessionLockAnswerUnlocksItsLock.cfg` (`SessionLock`): a password check that
  outlives its lock unlocks the next one. It was a correct password, but not one
  typed into that lock (`lock.hpp:25-26`).
* `WindowManagerStranded.cfg` (`MCWindowManager`): `mMainOutput` outlives its
  output; windows opened afterwards are put on the deleted one and not among the
  orphans (`client.hpp:298-299`). `ListedOnce` says that there is no other way to
  be on no list.
* `WindowManagerHiddenFocus.cfg` (`MCWindowManager`): a window that is minimized
  in the sequence in which it was opened or clicked is focused although hidden
  (`windowmanagement.cpp:740-741`).
* `WindowManagerUnplug.cfg` (`MCWindowManager`): erasing in the loop over
  `mOutputs` skips the neighbour of a removed output (`windowmanagement.cpp:40`).
* `WindowManagerCleanup.cfg` (`MCWindowManager`): removing a seat with bindings
  runs past the end of the vector being erased from (`windowmanagement.cpp:40`).

### What the properties excuse

Several properties hold only with an exception, which is behaviour of the code
that a reader may not expect.

* Screensaver. A surface that goes from size A to B and back to A accepts
  `BUFFER`, `READY` and `RELEASE` of the older buffers, since messages carry no
  generation: `BusyWhileInUse` and `DrawnBeforeShown` except such surfaces
  (`returned`). A message dropped because the socket was full is not sent again,
  although the loader may only have been slow, where `scr_send`'s comment
  assumes that it hangs: `FramesKeepComing` excepts it (`dropped`).
* Registry. The retry may overwrite another client's newer value, and a
  `SetValue` that returned false may yet write: `Register` says so (`Write`,
  `StrayWrite`).
* Portal. `PortalFollows` excepts a `GetValue` that failed or overtook the
  `Subscribe` (`unsure`).
* Tray icons. A refresh that fails is not repeated, and leaves the list empty
  until something else changes it (`unanswered`). A failed fetch of properties
  is not repeated either (`failed`). Signals are recognised by their sender's
  unique name, so that an item registered under a well-known name is not updated
  while the tray does not know the right one (`owner[i] # instance[i]`): after a
  first fetch that fails, and after the program has restarted within a refresh,
  which keeps the item and the name of its former connection. A tray that inherits the
  name while it refreshes calls itself and stands still for a second. A listed
  item that registers again is not fetched again.
* Menus. `ToldAsShown` excepts replies that cross (`crossed`): a second layout
  that arrives while the menu is open tells the item "opened" and then "closed"
  with the menu open; one for an item that is collapsed or passive by now tells
  it "opened" with no menu. It also excepts programs that cannot be told: nothing
  is sent for an item that is gone, nor for one that is listed again until a reply
  to `GetAll` names its menu's path, nor after one that says there is no menu,
  although a menu may be open by then or its layout on its way; and a new
  program's item can be listed while the menu of the one before is still open.
  The next menu that opens or closes with its program told ends the exception.
* Focus. `seat_manage` looks for a window to focus on the pointer's output before
  it has put there the window that is dropped: `FocusTakenOver` excepts that
  window, if it is what `window_update_output` has moved in this sequence and to
  this output (`dropped`, `under`), and windows that have been opened since the
  sequence. With no output under the pointer there is none at all, and new ones
  show only windows opened since.
* Volume. Between the replies of a refresh the device that a click acts on need
  not be the one whose level is shown: `ActsOnShown` excepts `mRefreshing`. Two
  scrolls before the next refresh both start from the old level, so that one
  step is lost.

## Proofs

Every safety invariant and action property of the passing runs, and the
refinement of `Register`, is a theorem, for every value of the constants that
the modules' assumptions allow. These are:

* `None` is none of the values it stands beside (in every module); sets named as
  subsets of others are; numbers used as bounds are natural numbers.
* `SessionLock`: `Prereqs` and `Inhibits` are non-empty sets of Booleans.
* `ScreensaverIpc`: the loader has at least one buffer.
* `PulseVolume`: devices are natural numbers, as PulseAudio's indices are, and
  100% is a level there can be.
* `Registry`: the default is a value, and values, words for results and `None`
  are different things.
* `Settings`: the one client and subscriber that is followed is the portal's.
* `StatusNotifier`: there are finitely many programs, since lists of them are
  sent in one message; the tray is none of the other watchers.

The bounds that keep TLC's runs finite (`MaxSignals`, `MaxEvents` and so on) are
arbitrary in the proofs.

### SequenceLemmas

The elements of a concatenation and of a sequence with an element appended or
removed (`RemoveFirst`, `RemoveAt`); what keeps elements from occurring twice;
that a finite set has an enumeration (`SetToSeq`), and that it is a sequence of
just that set.

### SessionLockProofs

1. `TypeCorrect`: each action preserves `TypeOK`. Lemmas about the helpers
   (`DoLock`, `EndLock`, `Unlock`) are proved once and used by every action that
   calls them.
2. The lock's invariants. Some are not inductive alone: `LockLifecycle` needs
   `configured \subseteq surfaces` from the type invariant, and what it says of
   the surfaces of an unlocked session is what makes `OutputsCovered` hold again
   when the next lock begins. `NoLostLockRequest` and `PamHandover` each carry the
   position of the main loop, because that is what takes the place of
   the wakeup between draining the eventfd and taking the request.
3. `LockedUntilUnlock` goes through the actions that may change `lockState`.

### WindowManagerProofs

The loops of a manage sequence make the difficulty: between two of their steps
most of what is true of an idle shell is not. The inductive invariant `Inv` has
these parts besides the types.

* `OutputsListed`: each output is in `mOutputs` once and until it is deleted, and
  what windows a deleted one has are new (`river_wm_window` put them there).
* `WindowsListed`: every window that is allocated is on one list, once, list by
  list rather than by counting as `ListedOnce` does; `Lifetimes`: what is
  deleted has no flag left.
* `Visits`: what each loop has left is still where the loop will look for it.
  The loop over the orphans runs past what has been erased, so its `tail` may
  hold windows that are destroyed already; the loops over copies may not.
* `Pointers`: `SeatPointersAlive`, and that a window under the pointer is
  neither closed nor new, that one being dragged has been managed.
* `UnderListed`: once it has been read, the output under the pointer is one of
  those there are, and none only if there are none.
* `MinimizedListed`, which decides the list `window_minimize` and a click on an
  icon take a window from.

`TypeOK`, `ListedOnce`, `MinimizedListed`, `SeatPointersAlive` and
`FocusLeavesHidden` follow from it. The others need one more fact each, which
says how far a sequence has got: `FillsInv` is `FillsItsOutput` between the loops
as well; by `AdoptedInv` there are no orphans once the outputs have been
visited; `GrantedInv` names the windows that the loops have been past;
`FocusTakenOver` is decided in the step that manages the seat: the focus is left
empty only if the pointer's output, by `UnderListed` a listed one, shows nothing
when `seat_manage` looks, and what it then drops is the only window it can show
at the end.

### RegistryProofs

There are two inductive invariants.

* `CallsInv` is about calls: types, `NobodyWaitsInVain`, and `InFlight`, which
  ties what is on a connection to the call it is for: a request is its caller's,
  nobody is sent an answer who does not wait for one, a value answers a
  `GetValue`, and `"ok"` a `SetValue` that has written. `KeepsPromise` follows:
  every step is a step of `Register` or leaves its variables alone, and
  `InFlight` is what makes `Receive` a `Written` or a `Found`.
* `FollowInv` adds the subscribers: their types, and `Following`, which says
  that the latest change told or sent to a registered subscriber is the stored
  value except between the commit and the notification of a change, when it is
  the one being handled that is stored; and that a subscription under way starts
  from an empty queue.

### SettingsProofs

`Settings` takes the registry's steps, and `SomebodySets`, which commits as they
do, so that `FollowInv` holds of it too. On top of it, `ThemeInv`:

* `Reading`: what the places of the portal's loop say about the answers,
  signals and the program that they serve.
* `Themed`: the portal's theme is what it was last told, unless a change is
  waiting to be read; while it calls `GetValue`, the same of the value that is
  about to be answered. With `Following` this is `PortalFollows`.
* `Followed`: what the program has, or is being answered, is the portal's theme,
  or a signal is on its way, or the portal has a change to read that differs and
  will send one. With `Themed` this is `ProgramFollowsUnless`.

`Resubscribes` is checked under `SettingsFairSpec`, which implies the
`SettingsSpec` of these theorems.

### ScreensaverIpcProofs

`PresentedFits` and `NothingLeftBehind` need one more fact, `NothingYet`: a
surface to which nothing has been committed shows no buffer, without which
turning the configured surfaces black would not be seen to cover all. The
comparison of sizes in three places (`Fits`) is all that `PresentedFits` rests
on; no fact about messages on their way is needed, because none is trusted. The
free buffer that `OutputDraw` takes exists because a non-empty set of numbers
has a least.

`BusyWhileInUse` and `DrawnBeforeShown` are about messages. `UseInv` says of
every surface that has not gone back to an earlier size:

* `Sizes`: a size then names a generation of buffers, so that comparing sizes
  is comparing generations; the newest `CONFIGURE` is the last.
* `Orders`: a `RELEASE` is read before the `CONFIGURE` that makes other buffers,
  and a `READY` about older buffers before the `BUFFER`s that replace them.
* `Tokens`: each buffer of the current generation is announced, waiting for its
  frame, shown, or on its way back, one of these at most and never twice; if any,
  the loader has it as busy.

### StatusNotifierProofs

The four invariants are proved in turn, each with those before it.

1. `Ready` (types, `Offline`, `Replies`): a fetch that has been answered has one
   reply in the inbox and any other none, which is what cancelling has to
   ensure. Then `RepliesAreExpected`.
2. `NameInv`: the tray in watcher mode owns the name, and as a host it is to read
   that it acquires it before it reads any registration (`Announced`). Then
   `RegistrationsHeard`.
3. `ListInv`: what the tray lists is not what is true now but what will be once
   its messages are read, so the invariant is about that list (`Final`): of the
   last message about an item, and as a host only of what the current watcher has
   said (`EndsSince`), because a change of owner starts over. A refresh under way
   counts as the list already (`Mirrored`), since messages that arrive during it
   are read after its reply. `CallInv` says which calls there can be;
   `BeforeConnect` and `ToldInv` carry what is true before the tray connects and
   before it has been told that the name is its own. When the inbox is empty this
   is `ListIsTrue`.
4. `OwnersInv` and `HeardInv` tie owners and messages to the starts of programs.
   `IconInv` says that an item is shown as it is, or excused, or a change of it is
   still to be read (`Good`), and of every reply in the inbox that it is
   current or followed by a change (`Current`). That the
   items are alive when all is read comes from `ListIsTrue`. Then `IconsFollow`.

The inbox is concatenated with, filtered and rewritten in a dozen actions. What
that does to the predicates above is proved once for each way (`Joined`,
`SameNews`, `Muted`), so that actions only say which way they are.

### SystrayProofs

* `PopupInv`: no popup but of an item there is, until something changes while
  the loop polls, and then a relayout is due before the next input. `OnePopup`
  and, with `ToldInv`, `ToldAsShown`.
* `FetchInv`: of a refresh one request or reply is under way, in one queue or the
  other, exactly while the tray says that it is refreshing (`OneFetch`), what the
  queues may hold in each state of the connection (`Connection`), and that the
  item is drawn from what is known except during a refresh (`Drawn`).
  `ActsOnShown` needs no more.
* `Levels`: every device has a level in each state of the server, including those
  in replies on their way.
* `KnowledgeInv`, for `VolumeFollows`: either another refresh is bound to follow
  (`Stale`), or what is known, and what is in the replies on their way, is what
  the server has, as far as the refresh has got (`Current`). `Unsubscribed` is
  what makes this true from the start: `subscribe` is sent before the first
  `get_server_info`. The slider has the item's level, or the request that sets
  it is on its way (`SliderFollows`).

### What is only model-checked

Liveness, which is out of reach of the prover (`LogindNotKeptWaiting`,
`LockRequestHandled`, `PamAnswered`, `DeferredUnlock`, `FramesKeepComing`,
`Resubscribes`, `ShowsAll`), and the violations, which a run shows by an example.
The type invariants are proved, and no run checks them.

## Plan

The lock, the window manager, the screensaver, the registry with its abstract
specification, settings, tray icons and the tray are modelled as described
above, and what their runs check is proved, except for liveness. What is left, in
this order:

1. *Lock*: an abstract session lock (unlocked, locking, locked; covered
   outputs) that `SessionLock` implements under a refinement mapping.
2. *PortalBridge*: exactly one answer per call, over connections that close at any
   point.
3. *ShellOutputs*, the output life cycle of the window manager and the lock
   composed.
4. Whether river shows a window (`river_window_v1_hide` and `_show`), as a variable
   of `WindowManager`: centering shows windows that were minimized in the same
   sequence.

## Not modelled

Most lines of the repository are data or generated: `bg_image.c` is a picture,
the `*-protocol` files come from wayland-scanner. They have no behaviour of
their own, so that the definitions stand for a small share of all lines.

Drawing, decorations, fonts, icons, cursor shapes; key symbols and text; process
launch and session environment; snip, clock and progman, which share no state
with the rest.

Of the parts that are modelled:

* Removing a Wayland seat from the lock is its pointer leaving; closing the shell
  over varlink is left out.
* The registry follows one key. `ListKeys`, subscribers that hang up, and a
  failing read of the database, after which `SetValue` compares with the
  default, are left out; an unknown key or a value of a wrong type is an error
  as any other.
* The black buffer of a lock surface can always be made (`create_black_buffer`),
  and a status notifier item answers `Activate` without an error, after which the
  code would ask for its menu, as a click with the other button does.
* When a subscriber of the registry registers, the history `told` starts at the
  value stored, although the daemon sends nothing then: what it has missed until
  then, over a crash for instance, is not `SubscribersFollow`'s subject. In
  `Settings`, where it matters, the portal asks for it.
* Of the portal the Settings interface is modelled; of the bridge, not what
  becomes of a call whose connection breaks.
* The tray's list of hosts, `NameLost`, muting, stream volumes, middle clicks,
  battery and keyboard layout are left out. A sound server's context that cannot
  be created when reconnecting is not tried again by the code; in the model it
  always can be.

`PROJECT.json` lists every component and its reason.
