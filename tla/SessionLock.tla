---------------------------- MODULE SessionLock ----------------------------
(***************************************************************************)
(* The session lock of the shell (shell/lock): TCCLock on the main thread, *)
(* its PAM worker thread, the varlink thread that asks for a lock, and     *)
(* what they share with the compositor and with systemd-logind.            *)
(*                                                                         *)
(* One iteration of the main loop (TCCClient::run) is poll, Wayland        *)
(* dispatch, then TCCLock::process, whose steps are separate actions here  *)
(* because the other threads run between them.  A handler is one action:   *)
(* nothing on the main thread runs in the middle of it.                    *)
(***************************************************************************)
EXTENDS Naturals, Sequences, FiniteSets

CONSTANTS
  Output,      \* the outputs the compositor may announce
  None,        \* "no surface"
  Prereqs,     \* what the prerequisite tests of do_lock may answer
  Inhibits,    \* how logind may answer Inhibit: TRUE, or FALSE for an error
  MaxSignals   \* bound on the D-Bus signals queued for the shell

ASSUME NoneAssumption == None \notin Output
ASSUME PrereqsAssumption == Prereqs \in SUBSET BOOLEAN /\ Prereqs # {}
ASSUME InhibitsAssumption == Inhibits \in SUBSET BOOLEAN /\ Inhibits # {}
ASSUME MaxSignalsAssumption == MaxSignals \in Nat

VARIABLES
  pc,               \* where the main loop is
  lockState,        \* mState
  unlockWhenLocked, \* mUnlockWhenLocked
  sleepPending,     \* mSleepPending
  screensaver,      \* is the screensaver loader running (mScrFd >= 0)?
  outputs,          \* how far the window manager is with each output
  surfaces,         \* the outputs that have a lock surface (mSurfaces)
  configured,       \* those whose surface has been configured
  mapped,           \* those whose dialog is mapped (egl_window)
  pointerSurface,   \* the seat's pointer_surface
  dialogShown,      \* mDialogShown
  fieldFocused,     \* mFieldFocused
  password,         \* has a password been typed (mPasswordLen > 0)?
  lockRequested,    \* mLockRequested, shared with the varlink thread
  wake,             \* is the eventfd mWakeFd readable?
  varlink,          \* the varlink thread inside request_lock
  pamBusy,          \* mPam.mBusy
  worker,           \* the PAM worker thread; "notifying" once mDone is set
  pamOk,            \* mStatus == PAM_SUCCESS
  inhibitor,        \* is the delay inhibitor held (mInhibitFd >= 0)?
  hint,             \* logind's LockedHint for the session
  signals,          \* signals from logind not dispatched yet
  batch,            \* how many of those this iteration has read
  sleep,            \* the machine, as logind sees it
  graceful,         \* history: this sleep began because we let go
  owed,             \* history: PrepareForSleep has been handled, and since
                    \* then nobody asked to unlock and locking did not fail
  stale             \* history: the password being checked was typed into a
                    \* lock that has ended since

lock   == <<lockState, unlockWhenLocked, screensaver>>
ui     == <<surfaces, configured, mapped, pointerSurface, dialogShown,
            fieldFocused, password>>
thread == <<lockRequested, wake, varlink>>
pam    == <<pamBusy, worker, pamOk, stale>>
logind == <<signals, batch, sleep, graceful>>
vars   == <<pc, lock, sleepPending, outputs, ui, thread, pam, inhibitor,
            hint, logind, owed>>

ValuesOK ==
  /\ pc \in {"poll", "dispatch", "request", "pam", "logind"}
  /\ lockState \in {"unlocked", "pending", "locked"}
  /\ outputs \in [Output -> {"absent", "unnamed", "named", "removed"}]
  /\ surfaces \in SUBSET Output
  /\ configured \in SUBSET surfaces
  /\ mapped \in SUBSET surfaces
  /\ pointerSurface \in Output \cup {None}
  /\ varlink \in {"idle", "stored"}
  /\ worker \in {"none", "checking", "notifying", "exited"}
  /\ signals \in Seq({"Lock", "Unlock", "PrepareForSleep", "Resumed"})
  /\ batch \in 0..Len(signals)
  /\ sleep \in {"awake", "delayed", "asleep"}

LockFlags   == {unlockWhenLocked, screensaver} \subseteq BOOLEAN
UiFlags     == {dialogShown, fieldFocused, password} \subseteq BOOLEAN
ThreadFlags == {lockRequested, wake} \subseteq BOOLEAN
PamFlags    == {pamBusy, pamOk, stale} \subseteq BOOLEAN
SleepFlags  == {sleepPending, inhibitor, hint, graceful, owed} \subseteq BOOLEAN

BooleansOK == LockFlags /\ UiFlags /\ ThreadFlags /\ PamFlags /\ SleepFlags

TypeOK == ValuesOK /\ BooleansOK

\* After start(): connected to logind, which gave us the inhibitor or not.
Init ==
  /\ pc = "poll"
  /\ lockState = "unlocked"
  /\ unlockWhenLocked = FALSE
  /\ sleepPending = FALSE
  /\ screensaver = FALSE
  /\ outputs = [o \in Output |-> "absent"]
  /\ surfaces = {} /\ configured = {} /\ mapped = {}
  /\ pointerSurface = None
  /\ dialogShown = FALSE
  /\ fieldFocused = FALSE
  /\ password = FALSE
  /\ lockRequested = FALSE
  /\ wake = FALSE
  /\ varlink = "idle"
  /\ pamBusy = FALSE
  /\ worker = "none"
  /\ pamOk = FALSE
  /\ inhibitor \in Inhibits
  /\ hint = FALSE
  /\ signals = <<>>
  /\ batch = 0
  /\ sleep = "awake"
  /\ graceful = FALSE
  /\ owed = FALSE
  /\ stale = FALSE
-----------------------------------------------------------------------------
(* What the definitions they are named after would be with a mistake that  *)
(* could have been made in the code.                                       *)

SleepReady_KeepsPending(sp) ==
  /\ sleepPending' = sp
  /\ inhibitor' = IF sp THEN FALSE ELSE inhibitor

SleepReady_KeepsInhibitor(sp) == sleepPending' = FALSE /\ UNCHANGED inhibitor

Lockable_Unnamed == {o \in Output : outputs[o] \in {"unnamed", "named"}}

CannotLock_EndsLock(sp) ==
  /\ FALSE \in Prereqs
  /\ lockState' = "unlocked"
  /\ SleepReady_KeepsInhibitor(sp)
  /\ owed' = FALSE
  /\ UNCHANGED <<unlockWhenLocked, screensaver, ui>>

EndLock_KeepsPointer ==
  /\ lockState' = "unlocked"
  /\ screensaver' = FALSE
  /\ surfaces' = {} /\ configured' = {} /\ mapped' = {}
  /\ password' = FALSE
  /\ fieldFocused' = FALSE
  /\ UNCHANGED <<pointerSurface, dialogShown>>

EndLock_KeepsState ==
  /\ screensaver' = FALSE
  /\ surfaces' = {} /\ configured' = {} /\ mapped' = {}
  /\ pointerSurface' = None
  /\ password' = FALSE
  /\ fieldFocused' = FALSE
  /\ UNCHANGED <<lockState, dialogShown>>

MayMap_Unconfigured(S) == \E M \in SUBSET surfaces : mapped' = mapped \cup M

RequestLockWrite_Silent ==
  /\ varlink = "stored"
  /\ varlink' = "idle"
  /\ UNCHANGED <<pc, lock, sleepPending, outputs, ui, lockRequested, wake, pam,
                 inhibitor, hint, logind, owed>>

PamNotify_Silent ==
  /\ worker = "notifying"
  /\ worker' = "exited"
  /\ UNCHANGED <<pc, lock, sleepPending, outputs, ui, thread, pamBusy, pamOk,
                 stale, inhibitor, hint, logind, owed>>
-----------------------------------------------------------------------------
(* The helpers the handlers share.  sp is mSleepPending at the call, ow    *)
(* the value the history variable owed has by then.                     *)

\* Let logind carry on with going to sleep, if it was waiting on us.
SleepReady(sp) ==
  /\ sleepPending' = FALSE
  /\ inhibitor' = IF sp THEN FALSE ELSE inhibitor

\* create_surface for every output that has a name and has not been removed.
Lockable == {o \in Output : outputs[o] = "named"}

AlreadyLocking(sp, ow) ==
  /\ lockState # "unlocked"
  /\ sleepPending' = sp
  /\ owed' = ow
  /\ UNCHANGED <<lock, ui, inhibitor>>

\* "not locking the session": something needed to unlock again is missing.
CannotLock(sp) ==
  /\ lockState = "unlocked"
  /\ FALSE \in Prereqs
  /\ SleepReady(sp)
  /\ owed' = FALSE
  /\ UNCHANGED <<lock, ui>>

StartLocking(sp, ow) ==
  /\ lockState = "unlocked"
  /\ TRUE \in Prereqs
  /\ lockState' = "pending"
  /\ unlockWhenLocked' = FALSE
  /\ screensaver' \in BOOLEAN
  /\ surfaces' = surfaces \cup Lockable
  /\ dialogShown' = FALSE
  /\ fieldFocused' = FALSE
  /\ password' = FALSE
  /\ sleepPending' = sp
  /\ owed' = ow
  /\ UNCHANGED <<configured, mapped, pointerSurface, inhibitor>>

DoLock(sp, ow) ==
  AlreadyLocking(sp, ow) \/ CannotLock(sp) \/ StartLocking(sp, ow)

\* What unlock() and lock_finished() both do once the lock object is gone.
EndLock ==
  /\ lockState' = "unlocked"
  /\ screensaver' = FALSE
  /\ surfaces' = {} /\ configured' = {} /\ mapped' = {}
  /\ pointerSurface' = IF pointerSurface \in surfaces THEN None
                                                      ELSE pointerSurface
  /\ password' = FALSE
  /\ fieldFocused' = FALSE
  /\ UNCHANGED dialogShown

Unlock ==
  \/ /\ lockState = "unlocked"
     /\ UNCHANGED <<lock, ui, hint>>
  \/ /\ lockState = "pending"
     /\ unlockWhenLocked' = TRUE
     /\ UNCHANGED <<lockState, screensaver, ui, hint>>
  \/ /\ lockState = "locked"
     /\ EndLock
     /\ hint' = FALSE
     /\ UNCHANGED unlockWhenLocked

\* History: a password being checked outlives the lock it was typed into.
NoteStale ==
  stale' = IF pamBusy /\ lockState # "unlocked" /\ lockState' = "unlocked"
           THEN TRUE ELSE stale
-----------------------------------------------------------------------------
(* Events from the compositor, dispatched by the main loop.                *)

Dispatching ==
  /\ sleep # "asleep"
  /\ pc \in {"poll", "dispatch"}
  /\ pc' = "dispatch"

LockLocked ==
  /\ Dispatching
  /\ lockState = "pending"
  /\ SleepReady(sleepPending)
  /\ unlockWhenLocked' = FALSE
  /\ \/ /\ unlockWhenLocked
        /\ EndLock
        /\ hint' = FALSE
     \/ /\ ~unlockWhenLocked
        /\ lockState' = "locked"
        /\ hint' = TRUE
        /\ UNCHANGED <<screensaver, ui>>
  /\ NoteStale
  /\ UNCHANGED <<outputs, thread, pamBusy, worker, pamOk, logind, owed>>

\* Refused while pending, or unlocked some other way while locked.
LockFinished ==
  /\ Dispatching
  /\ lockState # "unlocked"
  /\ EndLock
  /\ unlockWhenLocked' = FALSE
  /\ hint' = IF lockState = "locked" THEN FALSE ELSE hint
  /\ SleepReady(sleepPending)
  /\ owed' = FALSE
  /\ NoteStale
  /\ UNCHANGED <<outputs, thread, pamBusy, worker, pamOk, logind>>

\* idle_idled: the seat has been idle for long enough.
Idled ==
  /\ Dispatching
  /\ DoLock(sleepPending, owed)
  /\ UNCHANGED <<outputs, thread, pam, hint, logind>>

OutputAnnounced(o) ==
  /\ Dispatching
  /\ outputs[o] = "absent"
  /\ outputs' = [outputs EXCEPT ![o] = "unnamed"]
  /\ UNCHANGED <<lock, sleepPending, ui, thread, pam, inhibitor, hint,
                 logind, owed>>

\* river_output_wl_output: output_added, which creates the lock surface.
OutputNamed(o) ==
  /\ Dispatching
  /\ outputs[o] = "unnamed"
  /\ outputs' = [outputs EXCEPT ![o] = "named"]
  /\ surfaces' = IF lockState # "unlocked" THEN surfaces \cup {o}
                                           ELSE surfaces
  /\ UNCHANGED <<lock, sleepPending, configured, mapped, pointerSurface,
                 dialogShown, fieldFocused, password, thread, pam, inhibitor,
                 hint, logind, owed>>

\* river_output_removed only marks the output.
OutputMarkedRemoved(o) ==
  /\ Dispatching
  /\ outputs[o] \in {"unnamed", "named"}
  /\ outputs' = [outputs EXCEPT ![o] = "removed"]
  /\ UNCHANGED <<lock, sleepPending, ui, thread, pam, inhibitor, hint,
                 logind, owed>>

\* output_maybe_destroy at the next manage sequence: output_removed.
OutputDestroyed(o) ==
  /\ Dispatching
  /\ outputs[o] = "removed"
  /\ outputs' = [outputs EXCEPT ![o] = "absent"]
  /\ surfaces' = surfaces \ {o}
  /\ configured' = configured \ {o}
  /\ mapped' = mapped \ {o}
  /\ pointerSurface' = IF pointerSurface = o THEN None ELSE pointerSurface
  /\ UNCHANGED <<lock, sleepPending, dialogShown, fieldFocused, password,
                 thread, pam, inhibitor, hint, logind, owed>>

\* dialog_map can fail, and then the dialog stays unmapped.
MayMap(S) == \E M \in SUBSET S : mapped' = mapped \cup M

SurfaceConfigured(o) ==
  /\ Dispatching
  /\ o \in surfaces
  /\ configured' = configured \cup {o}
  /\ MayMap(IF dialogShown THEN {o} ELSE {})
  /\ UNCHANGED <<lock, sleepPending, outputs, surfaces, pointerSurface,
                 dialogShown, fieldFocused, password, thread, pam, inhibitor,
                 hint, logind, owed>>

PointerMoved(o) ==
  /\ Dispatching
  /\ o \in surfaces \cup {None}
  /\ pointerSurface' = o
  /\ UNCHANGED <<lock, sleepPending, outputs, surfaces, configured, mapped,
                 dialogShown, fieldFocused, password, thread, pam, inhibitor,
                 hint, logind, owed>>

ShowDialog ==
  \/ /\ dialogShown
     /\ UNCHANGED <<dialogShown, mapped>>
  \/ /\ ~dialogShown
     /\ dialogShown' = TRUE
     /\ MayMap(configured)

\* A key: brings the dialog up, then types, erases or submits (submit()),
\* unless a password is being checked.
KeyPressed ==
  /\ Dispatching
  /\ lockState = "locked"
  /\ ShowDialog
  /\ \/ /\ ~pamBusy
        /\ password' \in BOOLEAN
        /\ UNCHANGED pam
     \/ /\ ~pamBusy /\ password
        /\ password' = FALSE
        /\ pamBusy' = TRUE
        /\ worker' = "checking"
        /\ stale' = FALSE
        /\ UNCHANGED pamOk
     \/ /\ pamBusy \/ ~password
        /\ UNCHANGED <<password, pam>>
  /\ UNCHANGED <<lock, sleepPending, outputs, surfaces, configured,
                 pointerSurface, fieldFocused, thread, inhibitor, hint,
                 logind, owed>>

\* Pointer motion, scrolling or a click while the dialog is hidden.
PointerWakesDialog ==
  /\ Dispatching
  /\ lockState = "locked"
  /\ pointerSurface # None
  /\ ~dialogShown
  /\ ShowDialog
  /\ UNCHANGED <<lock, sleepPending, outputs, surfaces, configured,
                 pointerSurface, fieldFocused, password, thread, pam,
                 inhibitor, hint, logind, owed>>

\* A press on the dialog focuses the password box or takes the focus away.
PointerPressed ==
  /\ Dispatching
  /\ lockState = "locked"
  /\ pointerSurface # None
  /\ dialogShown
  /\ fieldFocused' \in BOOLEAN
  /\ UNCHANGED <<lock, sleepPending, outputs, surfaces, configured, mapped,
                 pointerSurface, dialogShown, password, thread, pam,
                 inhibitor, hint, logind, owed>>

\* The close button is released: hide_dialog.
DialogClosed ==
  /\ Dispatching
  /\ lockState = "locked"
  /\ pointerSurface # None
  /\ dialogShown
  /\ dialogShown' = FALSE
  /\ fieldFocused' = FALSE
  /\ password' = FALSE
  /\ mapped' = {}
  /\ UNCHANGED <<lock, sleepPending, outputs, surfaces, configured,
                 pointerSurface, thread, pam, inhibitor, hint, logind,
                 owed>>
-----------------------------------------------------------------------------
(* The rest of an iteration of the main loop.                              *)

\* poll returns because one of the lock's descriptors is readable.
Wake ==
  /\ sleep # "asleep"
  /\ pc = "poll"
  /\ wake \/ signals # <<>>
  /\ pc' = "dispatch"
  /\ UNCHANGED <<lock, sleepPending, outputs, ui, thread, pam, inhibitor,
                 hint, logind, owed>>

\* process(): the eventfd is drained before the flags are looked at.
DrainWakeFd ==
  /\ sleep # "asleep"
  /\ pc = "dispatch"
  /\ pc' = "request"
  /\ wake' = FALSE
  /\ UNCHANGED <<lock, sleepPending, outputs, ui, lockRequested, varlink,
                 pam, inhibitor, hint, logind, owed>>

TakeLockRequest ==
  /\ sleep # "asleep"
  /\ pc = "request"
  /\ pc' = "pam"
  /\ lockRequested' = FALSE
  /\ \/ /\ lockRequested
        /\ DoLock(sleepPending, owed)
     \/ /\ ~lockRequested
        /\ UNCHANGED <<lock, sleepPending, ui, inhibitor, owed>>
  /\ UNCHANGED <<outputs, wake, varlink, pam, hint, logind>>

\* poll_result joins the thread, so it waits for its write to the eventfd.
PollPamResult ==
  /\ sleep # "asleep"
  /\ pc = "pam"
  /\ pc' = "logind"
  /\ \/ /\ pamBusy /\ worker = "exited"
        /\ pamBusy' = FALSE
        /\ worker' = "none"
        /\ pamOk' = FALSE  \* not read again before the next answer
        /\ stale' = FALSE
        /\ \/ pamOk /\ Unlock /\ owed' = FALSE
           \/ ~pamOk /\ UNCHANGED <<lock, ui, hint, owed>>
     \/ /\ worker \in {"none", "checking"}
        /\ UNCHANGED <<lock, ui, pam, hint, owed>>
  /\ batch' = Len(signals)
  /\ UNCHANGED <<sleepPending, outputs, thread, inhibitor, signals,
                 sleep, graceful>>

\* mLogind.process dispatches every signal that has been read.  The blocking
\* Inhibit call on resuming may read some more.
HandleSignal ==
  /\ sleep # "asleep"
  /\ pc = "logind"
  /\ batch > 0
  /\ signals' = Tail(signals)
  /\ batch' \in (batch - 1) .. IF Head(signals) = "Resumed"
                              THEN Len(signals) - 1 ELSE batch - 1
  /\ \/ /\ Head(signals) = "Lock"
        /\ DoLock(sleepPending, owed)
        /\ UNCHANGED <<pam, hint>>
     \/ /\ Head(signals) = "Unlock"
        /\ Unlock
        /\ owed' = FALSE
        /\ NoteStale
        /\ UNCHANGED <<sleepPending, pamBusy, worker, pamOk, inhibitor>>
     \/ /\ Head(signals) = "PrepareForSleep"
        /\ \/ /\ lockState = "locked"
              /\ SleepReady(TRUE)
              /\ owed' = TRUE
              /\ UNCHANGED <<lock, ui>>
           \/ /\ lockState # "locked"
              /\ DoLock(TRUE, TRUE)
        /\ UNCHANGED <<pam, hint>>
     \/ /\ Head(signals) = "Resumed"
        /\ \E answer \in Inhibits :
             inhibitor' = IF answer THEN TRUE ELSE inhibitor
        /\ UNCHANGED <<lock, sleepPending, ui, pam, hint, owed>>
  /\ UNCHANGED <<pc, outputs, thread, sleep, graceful>>

\* Nothing left to dispatch; scr_process may find the loader gone
\* (screensaver_failed).  Back to poll.
FinishIteration ==
  /\ sleep # "asleep"
  /\ pc = "logind"
  /\ batch = 0
  /\ pc' = "poll"
  /\ screensaver' = FALSE \/ UNCHANGED screensaver
  /\ UNCHANGED <<lockState, unlockWhenLocked, sleepPending, outputs, ui,
                 thread, pam, inhibitor, hint, logind, owed>>

MainLoop ==
  \/ Wake \/ DrainWakeFd \/ TakeLockRequest \/ PollPamResult
  \/ HandleSignal \/ FinishIteration
-----------------------------------------------------------------------------
(* The other threads of the shell.                                         *)

\* request_lock, from the varlink thread: the flag first, then the eventfd.
RequestLock ==
  /\ sleep # "asleep"
  /\ varlink = "idle"
  /\ varlink' = "stored"
  /\ lockRequested' = TRUE
  /\ UNCHANGED <<pc, lock, sleepPending, outputs, ui, wake, pam, inhibitor,
                 hint, logind, owed>>

RequestLockWrite ==
  /\ sleep # "asleep"
  /\ varlink = "stored"
  /\ varlink' = "idle"
  /\ wake' = TRUE
  /\ UNCHANGED <<pc, lock, sleepPending, outputs, ui, lockRequested, pam,
                 inhibitor, hint, logind, owed>>

\* The PAM thread: mStatus, then mDone, then the eventfd.
PamChecked ==
  /\ sleep # "asleep"
  /\ worker = "checking"
  /\ worker' = "notifying"
  /\ pamOk' \in BOOLEAN
  /\ UNCHANGED <<pc, lock, sleepPending, outputs, ui, thread, pamBusy, stale,
                 inhibitor, hint, logind, owed>>

PamNotify ==
  /\ sleep # "asleep"
  /\ worker = "notifying"
  /\ worker' = "exited"
  /\ wake' = TRUE
  /\ UNCHANGED <<pc, lock, sleepPending, outputs, ui, lockRequested, varlink,
                 pamBusy, pamOk, stale, inhibitor, hint, logind, owed>>

OtherThreads == RequestLockWrite \/ PamChecked \/ PamNotify
-----------------------------------------------------------------------------
(* systemd-logind (external).  There is always room left in the queue for  *)
(* the signal that ends a sleep.                                           *)

Room(n) == Len(signals) + n <= MaxSignals

\* loginctl lock-session and unlock-session.
UserSignal ==
  /\ sleep # "asleep"
  /\ Room(IF sleep = "awake" THEN 1 ELSE 2)
  /\ \E s \in {"Lock", "Unlock"} : signals' = Append(signals, s)
  /\ UNCHANGED <<pc, lock, sleepPending, outputs, ui, thread, pam, inhibitor,
                 hint, batch, sleep, graceful, owed>>

\* Somebody asked for sleep: logind waits for whoever holds an inhibitor.
LogindPrepares ==
  /\ sleep = "awake"
  /\ Room(2)
  /\ signals' = Append(signals, "PrepareForSleep")
  /\ sleep' = IF inhibitor THEN "delayed" ELSE "asleep"
  /\ UNCHANGED <<pc, lock, sleepPending, outputs, ui, thread, pam, inhibitor,
                 hint, batch, graceful, owed>>

\* The inhibitor is gone, or InhibitDelayMaxSec is over.
LogindSuspends ==
  /\ sleep = "delayed"
  /\ sleep' = "asleep"
  /\ graceful' = IF inhibitor THEN FALSE ELSE TRUE
  /\ UNCHANGED <<pc, lock, sleepPending, outputs, ui, thread, pam, inhibitor,
                 hint, signals, batch, owed>>

LogindResumes ==
  /\ sleep = "asleep"
  /\ sleep' = "awake"
  /\ signals' = Append(signals, "Resumed")
  /\ graceful' = FALSE
  /\ owed' = FALSE
  /\ UNCHANGED <<pc, lock, sleepPending, outputs, ui, thread, pam, inhibitor,
                 hint, batch>>

Logind == UserSignal \/ LogindPrepares \/ LogindSuspends \/ LogindResumes
-----------------------------------------------------------------------------
OutputEvent(o) ==
  \/ OutputAnnounced(o) \/ OutputNamed(o)
  \/ OutputMarkedRemoved(o) \/ OutputDestroyed(o)

UserInput ==
  \/ KeyPressed \/ PointerWakesDialog \/ PointerPressed \/ DialogClosed
  \/ \E o \in Output \cup {None} : PointerMoved(o)

Next ==
  \/ LockLocked \/ LockFinished \/ Idled
  \/ \E o \in Output : OutputEvent(o) \/ SurfaceConfigured(o)
  \/ UserInput
  \/ MainLoop
  \/ RequestLock
  \/ OtherThreads
  \/ Logind

(***************************************************************************)
(* The main loop and the threads keep running.  ext-session-lock-v1 has    *)
(* the compositor answer every lock with locked or finished, and whatever  *)
(* it has sent is dispatched by the next iteration, but the main loop is   *)
(* only now and then where it dispatches: hence strong fairness.  Nothing  *)
(* is assumed of the user, of logind, or of the outputs.                   *)
(***************************************************************************)
Fairness ==
  /\ WF_vars(MainLoop)
  /\ WF_vars(RequestLockWrite)
  /\ WF_vars(PamChecked)
  /\ WF_vars(PamNotify)
  /\ SF_vars(LockLocked \/ LockFinished)

Spec == Init /\ [][Next]_vars

FairSpec == Spec /\ Fairness
-----------------------------------------------------------------------------
(* Safety.                                                                 *)

\* The loader, the lock surfaces, what has been typed and the logind hint
\* live exactly as long as the lock they belong to, whichever of unlock,
\* a deferred unlock and the compositor's finished ends it.
LockLifecycle ==
  /\ lockState = "unlocked" => ~screensaver /\ surfaces = {}
  /\ unlockWhenLocked => lockState = "pending"
  /\ hint <=> lockState = "locked"
  /\ password \/ fieldFocused => lockState = "locked" /\ dialogShown
  /\ mapped # {} => dialogShown
  /\ mapped \subseteq configured

\* While the session is locked or about to be, every usable output is
\* covered by a lock surface, however outputs come and go, and no lock
\* surface outlives its output.
OutputsCovered ==
  /\ lockState # "unlocked" => Lockable \subseteq surfaces
  /\ \A o \in surfaces : outputs[o] \in {"named", "removed"}

\* Pointer events are handled through seat->pointer_surface: it never
\* points at a lock surface that destroy_surface has deleted.
PointerSurfaceAlive == pointerSurface \in surfaces \cup {None}

\* logind is only kept waiting while the compositor has yet to answer.
SleepPendingWhilePending == sleepPending => lockState = "pending"

\* The worker is joined before its result is used or another one starts,
\* and a finished worker leaves the eventfd readable, or the main loop
\* past draining it, until its result is taken.
PamHandover ==
  /\ pamBusy <=> worker # "none"
  /\ worker = "exited" => wake \/ pc \in {"request", "pam"}

\* A lock that was asked for from another thread is never left with the
\* main loop asleep in poll and nothing about to wake it.
NoLostLockRequest ==
  lockRequested => wake \/ varlink = "stored" \/ pc = "request"

\* Nothing takes a locked session back to unlocked but logind's Unlock, a
\* password PAM accepted, and the compositor's finished; in particular no
\* output change, input, sleep or lock request does.
LockedUntilUnlock ==
  [][lockState = "locked" /\ lockState' = "unlocked" =>
       \/ LockFinished
       \/ HandleSignal /\ Head(signals) = "Unlock"
       \/ PollPamResult /\ pamOk]_vars
-----------------------------------------------------------------------------
(* Liveness.  A suspended machine runs nothing, so each promise may also   *)
(* be cut short by a sleep that did not wait.                              *)

\* logind's wait for the inhibitor ends: the session gets locked, or it is
\* found that it cannot be.
LogindNotKeptWaiting == sleep = "delayed" ~> ~inhibitor \/ sleep # "delayed"

\* A lock asked for from another thread is acted on.
LockRequestHandled == lockRequested ~> ~lockRequested \/ sleep = "asleep"

\* Every submitted password gets an answer, so the keyboard comes back.
PamAnswered == pamBusy ~> ~pamBusy \/ sleep = "asleep"

\* An unlock that had to wait for the compositor happens.
DeferredUnlock == unlockWhenLocked ~> lockState = "unlocked" \/ sleep = "asleep"
-----------------------------------------------------------------------------
(* What the comments in the source say, and the code does not do.          *)

\* logind.hpp: the inhibitor is held "so we can lock before the system
\* sleeps".  When logind waited and the shell let it go on, the session is
\* locked, unless unlocking was asked for meanwhile or locking failed.
SleepsLocked == sleep = "asleep" /\ graceful /\ owed => lockState = "locked"

\* lock.cpp, on resuming: "get ready for the next time".  Awake, with
\* nothing left to handle, the inhibitor is held again.
ReadyForNextSleep ==
  pc = "poll" /\ sleep = "awake" /\ signals = <<>> /\ lockState # "pending"
    => inhibitor

\* lock.hpp: TCCLock locks the session and "unlocks it again once the
\* user's password checks out".  The answer about a password typed into an
\* earlier lock does not unlock a later one.
AnswerUnlocksItsLock ==
  [][PollPamResult /\ stale =>
       UNCHANGED <<lockState, unlockWhenLocked>>]_vars
=============================================================================
