--------------------------- MODULE ScreensaverIpc ---------------------------
(***************************************************************************)
(* The screensaver behind the lock dialog: shell/lock/screensaver.cpp and  *)
(* the surface handling of shell/lock/lock.cpp on one side, the main loop  *)
(* of screensaver/loader/main.cpp on the other, and the socket pair        *)
(* between them (scr_ipc.hpp).                                             *)
(*                                                                         *)
(* The module covers one lock, from start_screensaver to                   *)
(* stop_screensaver; the next lock starts another loader on another        *)
(* socket.  A surface that is created later is one that is configured      *)
(* later, since surface ids are never reused (mNextSurfaceId).             *)
(*                                                                         *)
(* Left out: what is drawn, and BLUR and MODIFIERS, which say how.  A      *)
(* buffer is <<generation, id>>: the loader's buffers are made anew, with  *)
(* the same ids, whenever the size of an output changes.                   *)
(***************************************************************************)
EXTENDS Naturals, Sequences, FiniteSets

CONSTANTS
  Surface,       \* lock surfaces
  Size,          \* what the compositor may configure one to
  NBuffers,      \* SCR_MAX_BUFFERS
  None, Black,   \* no size or buffer; the black buffer
  MaxConfigures, \* bound: sizes the compositor hands out
  Room           \* bound: messages the socket to the loader holds

ASSUME ConstantsOK ==
  /\ None \notin Size /\ NBuffers \in Nat \ {0}
  /\ MaxConfigures \in Nat /\ Room \in Nat \ {0}
  /\ None \notin Nat \X Nat /\ Black \notin Nat \X Nat

VARIABLES
  \* The shell.
  scrFd,     \* mScrFd >= 0
  live,      \* mSurfaces
  size,      \* Surface::width and height, None until configured
  slot,      \* Surface::scr_buffers
  callback,  \* surfaces with a frame_callback
  \* The socket pair.
  toLoader, toShell,
  \* The loader.
  loader,    \* "recv", "more", "draw": the place in its main loop; "exited"
  todo,      \* outputs the loop that draws has yet to visit
  loSize,    \* Output::width and height, None for an output it does not have
  gen,       \* how many times an output's buffers have been created
  busy,      \* Buffer::busy
  wanted,    \* outputs with frame_wanted
  \* The compositor.
  shown,     \* the content last committed, and its size
  reading,   \* the loader's buffers it has not released
  configures,
  \* History, for properties only.
  drawn,     \* buffers a frame has been drawn into
  hadSizes,  \* sizes a surface has had before
  returned,  \* surfaces that went back to a size they had before
  dropped    \* surfaces about which a message to the loader has been dropped

shell == <<scrFd, live, size, slot, callback>>
socket == <<toLoader, toShell>>
loaderVars == <<loader, todo, loSize, gen, busy, wanted>>
compositor == <<shown, reading, configures>>
history == <<drawn, hadSizes, returned, dropped>>
vars == <<shell, socket, loaderVars, compositor, history>>

Id == 0 .. NBuffers - 1
Buffer == Nat \X Id
Slot == [buffer : Buffer, size : Size, imported : BOOLEAN, ready : BOOLEAN]
NoSlots == [i \in Id |-> None]

ToLoader ==
  [type : {"CONFIGURE"}, output : Surface, size : Size]
    \cup [type : {"REMOVE", "FRAME"}, output : Surface]
    \cup [type : {"RELEASE"}, output : Surface, buffer : Id]

\* A BUFFER carries the dmabuf's fd.  The generation in a READY is not in the
\* message: it tells which frame the loader meant.
ToShell ==
  [type : {"BUFFER"}, output : Surface, buffer : Buffer, size : Size]
    \cup [type : {"READY"}, output : Surface, buffer : Buffer]

Init ==
  /\ scrFd \in BOOLEAN \* start_screensaver may give up
  /\ live = Surface
  /\ size = [s \in Surface |-> None]
  /\ slot = [s \in Surface |-> NoSlots]
  /\ callback = {}
  /\ toLoader = <<>> /\ toShell = <<>>
  /\ loader = IF scrFd THEN "recv" ELSE "exited"
  /\ todo = {}
  /\ loSize = [s \in Surface |-> None]
  /\ gen = [s \in Surface |-> 0]
  /\ busy = [s \in Surface |-> {}]
  /\ wanted = {}
  /\ shown = [s \in Surface |-> [buffer |-> None, size |-> None]]
  /\ reading = [s \in Surface |-> {}]
  /\ configures = 0
  /\ drawn = [s \in Surface |-> {}]
  /\ hadSizes = [s \in Surface |-> {}]
  /\ returned = {} /\ dropped = {}

(***************************************************************************)
(* Definitions with a mistake.                                             *)
(***************************************************************************)
Fits_Always(s, sz) == TRUE

Released_Always(s, b) == TRUE

Imported_Forgets(s, i) == FALSE

Imported_Always(s, i) == TRUE

CleanedUp_Not(s) == slot

(***************************************************************************)
(* The shell.                                                              *)
(***************************************************************************)

\* The comparison of handle, scr_handle_buffer and scr_present.
Fits(s, sz) == sz = size[s]

Configured(sizes) == {s \in Surface : sizes[s] # None}

\* show_black on each of the surfaces, whose sizes are given.
Blackened(there, sizes) ==
  [s \in Surface |-> IF s \in there \cap Configured(sizes)
                     THEN [buffer |-> Black, size |-> sizes[s]] ELSE shown[s]]

\* stop_screensaver.
StopScreensaver ==
  /\ scrFd' = FALSE
  /\ slot' = [s \in Surface |-> NoSlots]
  /\ callback' = {}
  /\ toShell' = <<>>
  /\ UNCHANGED toLoader

\* screensaver_failed, from a state in which the surfaces have these sizes.
ScreensaverFailed(there, sizes) ==
  /\ StopScreensaver
  /\ shown' = Blackened(there, sizes)
  /\ UNCHANGED dropped

\* scr_send: nothing without a screensaver; a full socket loses the message.
ScrSend(m) ==
  \/ ~scrFd /\ UNCHANGED <<scrFd, socket, dropped>>
  \/ /\ scrFd /\ loader # "exited"
     /\ IF Len(toLoader) < Room
        THEN toLoader' = Append(toLoader, m) /\ UNCHANGED dropped
        ELSE dropped' = dropped \cup {m.output} /\ UNCHANGED toLoader
     /\ UNCHANGED <<scrFd, toShell>>

\* scr_send to a loader that has hung up.
SendFails == scrFd /\ loader = "exited"

\* surface_configure.  A configure with the size it has only commits.
SurfaceConfigured(s, sz) ==
  /\ s \in live /\ size[s] # sz /\ configures < MaxConfigures
  /\ configures' = configures + 1
  /\ size' = [size EXCEPT ![s] = sz]
  /\ hadSizes' = [hadSizes EXCEPT ![s] = @ \cup {sz}]
  /\ returned' = IF sz \in hadSizes[s] THEN returned \cup {s} ELSE returned
  /\ \/ /\ ScrSend([type |-> "CONFIGURE", output |-> s, size |-> sz])
        /\ slot' = [slot EXCEPT ![s] = NoSlots]
        /\ callback' = callback \ {s}
        /\ shown' = Blackened({s}, size')
     \/ SendFails /\ ScreensaverFailed(live, size')
  /\ UNCHANGED <<live, loaderVars, reading, drawn>>

\* The slots of a surface after scr_destroy_buffers in destroy_surface.
CleanedUp(s) == [slot EXCEPT ![s] = NoSlots]

\* output_removed, through destroy_surface.
OutputRemoved(s) ==
  /\ s \in live
  /\ live' = live \ {s}
  /\ \/ /\ ScrSend([type |-> "REMOVE", output |-> s])
        /\ slot' = CleanedUp(s)
        /\ callback' = callback \ {s}
        /\ UNCHANGED shown
     \/ SendFails /\ ScreensaverFailed(live, size)
  /\ UNCHANGED <<size, loaderVars, reading, configures, drawn, hadSizes, returned>>

\* unlock and lock_finished: stop_screensaver and destroy_surfaces.
Unlock ==
  /\ scrFd \/ live # {}
  /\ StopScreensaver
  /\ live' = {}
  /\ UNCHANGED <<size, loaderVars, compositor, history>>

\* scr_present: attach, ask for a frame callback unless there is one, commit.
\* Called with the slots as they are once the handler is done.
ScrPresent(s, b) ==
  IF Fits(s, b.size)
  THEN /\ shown' = [shown EXCEPT ![s] = [buffer |-> b.buffer, size |-> b.size]]
       /\ reading' = [reading EXCEPT ![s] = @ \cup {b.buffer}]
       /\ callback' = callback \cup {s}
  ELSE UNCHANGED <<shown, reading, callback>>

\* scr_handle_buffer: replaces the slot and starts importing.
HandleBuffer(m) ==
  /\ m.type = "BUFFER"
  /\ slot' = IF m.output \in live /\ Fits(m.output, m.size)
             THEN [slot EXCEPT ![m.output][m.buffer[2]] =
                     [buffer |-> m.buffer, size |-> m.size,
                      imported |-> FALSE, ready |-> FALSE]]
             ELSE slot
  /\ UNCHANGED <<callback, shown, reading>>

\* The READY case of scr_handle.
HandleReady(m) ==
  /\ m.type = "READY"
  /\ LET s == m.output
         b == slot[s][m.buffer[2]]
     IN IF s \notin live \/ b = None \/ ~Fits(s, b.size)
        THEN UNCHANGED <<slot, callback, shown, reading>>
        ELSE IF b.imported
             THEN ScrPresent(s, b) /\ UNCHANGED slot
             ELSE /\ slot' = [slot EXCEPT ![s][m.buffer[2]].ready = TRUE]
                  /\ UNCHANGED <<callback, shown, reading>>

\* One message of scr_process.
ScrHandle ==
  /\ scrFd /\ toShell # <<>>
  /\ toShell' = Tail(toShell)
  /\ HandleBuffer(Head(toShell)) \/ HandleReady(Head(toShell))
  /\ UNCHANGED <<scrFd, live, size, toLoader, loaderVars, configures, history>>

\* scr_process finds that the loader is gone.  It need not have read everything
\* before: a socket closed with unread messages resets the connection.
ScrGone ==
  /\ scrFd /\ loader = "exited"
  /\ ScreensaverFailed(live, size)
  /\ UNCHANGED <<live, size, loaderVars, reading, configures, drawn, hadSizes, returned>>

\* Whether params_created presents the buffer.
Imported(s, i) == slot[s][i].ready

ParamsCreated(s, i) ==
  /\ slot[s][i] # None /\ ~slot[s][i].imported
  /\ slot' = [slot EXCEPT ![s][i] = [@ EXCEPT !.imported = TRUE, !.ready = FALSE]]
  /\ IF Imported(s, i)
     THEN ScrPresent(s, slot[s][i])
     ELSE UNCHANGED <<callback, shown, reading>>
  /\ UNCHANGED <<scrFd, live, size, socket, loaderVars, configures, history>>

ParamsFailed(s, i) ==
  /\ slot[s][i] # None /\ ~slot[s][i].imported
  /\ ScreensaverFailed(live, size)
  /\ UNCHANGED <<live, size, loaderVars, reading, configures, drawn, hadSizes, returned>>

\* frame_done.
FrameDone(s) ==
  /\ s \in callback
  /\ \/ /\ ScrSend([type |-> "FRAME", output |-> s])
        /\ callback' = callback \ {s}
        /\ UNCHANGED <<slot, shown>>
     \/ SendFails /\ ScreensaverFailed(live, size)
  /\ UNCHANGED <<live, size, loaderVars, reading, configures, drawn, hadSizes, returned>>

\* Whether the wl_buffer of b still exists, for buffer_release to be called.
Released(s, b) ==
  /\ slot[s][b[2]] # None
  /\ slot[s][b[2]].buffer = b /\ slot[s][b[2]].imported

\* The compositor is done with a buffer, when something else is shown or when it
\* has taken a copy.
BufferRelease(s, b) ==
  /\ b \in reading[s]
  /\ reading' = [reading EXCEPT ![s] = @ \ {b}]
  /\ \/ /\ Released(s, b)
        /\ ScrSend([type |-> "RELEASE", output |-> s, buffer |-> b[2]])
        /\ UNCHANGED <<slot, callback, shown>>
     \/ Released(s, b) /\ SendFails /\ ScreensaverFailed(live, size)
     \/ ~Released(s, b) /\ UNCHANGED <<scrFd, slot, callback, socket, shown, dropped>>
  /\ UNCHANGED <<live, size, loaderVars, configures, drawn, hadSizes, returned>>

(***************************************************************************)
(* The loader.                                                             *)
(***************************************************************************)

\* output_configure.  Sending to a shell that has hung up makes it exit.
OutputConfigure(m) ==
  /\ m.type = "CONFIGURE"
  /\ LET s == m.output
         Made(i) == [type |-> "BUFFER", output |-> s,
                     buffer |-> <<gen[s] + 1, i - 1>>, size |-> m.size]
     IN IF loSize[s] = m.size
        THEN /\ loader' = "more"
             /\ UNCHANGED <<toShell, loSize, gen, busy, wanted>>
        ELSE IF scrFd
        THEN /\ loSize' = [loSize EXCEPT ![s] = m.size]
             /\ gen' = [gen EXCEPT ![s] = @ + 1]
             /\ busy' = [busy EXCEPT ![s] = {}]
             /\ wanted' = wanted \cup {s}
             /\ toShell' = toShell \o [i \in 1 .. NBuffers |-> Made(i)]
             /\ loader' = "more"
        ELSE /\ loader' = "exited"
             /\ UNCHANGED <<toShell, loSize, gen, busy, wanted>>

\* output_remove, FRAME and RELEASE.
OtherMessage(m) ==
  /\ m.type # "CONFIGURE"
  /\ loader' = "more"
  /\ LET s == m.output
         known == loSize[s] # None
     IN /\ loSize' = IF m.type = "REMOVE" THEN [loSize EXCEPT ![s] = None] ELSE loSize
        /\ wanted' = CASE m.type = "REMOVE" -> wanted \ {s}
                       [] m.type = "FRAME" /\ known -> wanted \cup {s}
                       [] OTHER -> wanted
        /\ busy' = CASE m.type = "REMOVE" -> [busy EXCEPT ![s] = {}]
                     [] m.type = "RELEASE" /\ known -> [busy EXCEPT ![s] = @ \ {m.buffer}]
                     [] OTHER -> busy
  /\ UNCHANGED <<toShell, gen>>

\* recv and handle_msg: one message to wake up, then all there are.
LoaderReceives ==
  /\ loader \in {"recv", "more"} /\ toLoader # <<>>
  /\ toLoader' = Tail(toLoader)
  /\ OutputConfigure(Head(toLoader)) \/ OtherMessage(Head(toLoader))
  /\ UNCHANGED <<shell, todo, compositor, history>>

LoaderCaughtUp ==
  /\ loader = "more" /\ toLoader = <<>> /\ scrFd
  /\ loader' = "draw" /\ todo' = wanted
  /\ UNCHANGED <<shell, socket, loSize, gen, busy, wanted, compositor, history>>

\* The buffers output_draw may take.
FreeBuffers(s) == Id \ busy[s]

\* output_draw: draws into the first buffer that is not busy, if there is one.
OutputDraw(s) ==
  /\ loader = "draw" /\ s \in todo
  /\ todo' = todo \ {s}
  /\ IF FreeBuffers(s) = {}
     THEN UNCHANGED <<toShell, loader, busy, wanted, drawn>>
     ELSE LET id == CHOOSE i \in FreeBuffers(s) : \A j \in FreeBuffers(s) : i <= j
              b == <<gen[s], id>>
          IN /\ busy' = [busy EXCEPT ![s] = @ \cup {id}]
             /\ wanted' = wanted \ {s}
             /\ drawn' = [drawn EXCEPT ![s] = @ \cup {b}]
             /\ IF scrFd
                THEN /\ toShell' = Append(toShell,
                          [type |-> "READY", output |-> s, buffer |-> b])
                     /\ UNCHANGED loader
                ELSE loader' = "exited" /\ UNCHANGED toShell
  /\ UNCHANGED <<shell, toLoader, loSize, gen, compositor, hadSizes, returned, dropped>>

LoaderDrawn ==
  /\ loader = "draw" /\ todo = {}
  /\ loader' = "recv"
  /\ UNCHANGED <<shell, socket, todo, loSize, gen, busy, wanted, compositor, history>>

\* die, a crash in the screensaver's own code, SIGTERM, or the end of the socket.
LoaderExits ==
  /\ loader # "exited"
  /\ loader' = "exited"
  /\ UNCHANGED <<shell, socket, todo, loSize, gen, busy, wanted, compositor, history>>

Next ==
  \/ ScrHandle \/ ScrGone \/ Unlock
  \/ LoaderReceives \/ LoaderCaughtUp \/ LoaderDrawn \/ LoaderExits
  \/ \E s \in Surface :
       \/ OutputRemoved(s) \/ FrameDone(s) \/ OutputDraw(s)
       \/ \E sz \in Size : SurfaceConfigured(s, sz)
       \/ \E i \in Id : ParamsCreated(s, i) \/ ParamsFailed(s, i)
       \/ \E b \in reading[s] : BufferRelease(s, b)

Spec == Init /\ [][Next]_vars

\* The shell's loop and the loader's run, and the compositor imports buffers,
\* shows frames and releases what it no longer shows.
FairSpec ==
  /\ Spec
  /\ WF_vars(ScrHandle) /\ WF_vars(ScrGone)
  /\ WF_vars(LoaderReceives) /\ WF_vars(LoaderCaughtUp) /\ WF_vars(LoaderDrawn)
  /\ \A s \in Surface :
       /\ WF_vars(OutputDraw(s)) /\ WF_vars(FrameDone(s))
       /\ \A i \in Id : WF_vars(ParamsCreated(s, i))
       /\ \A b \in (1 .. MaxConfigures) \X Id :
            WF_vars(b # shown[s].buffer /\ BufferRelease(s, b))

(***************************************************************************)
(* Properties.                                                             *)
(***************************************************************************)

\* Every variable has the kind of value the code gives it.
TypeOK ==
  /\ scrFd \in BOOLEAN /\ live \subseteq Surface /\ callback \subseteq Surface
  /\ size \in [Surface -> Size \cup {None}]
  /\ slot \in [Surface -> [Id -> Slot \cup {None}]]
  /\ toLoader \in Seq(ToLoader) /\ toShell \in Seq(ToShell)
  /\ loader \in {"recv", "more", "draw", "exited"}
  /\ todo \subseteq Surface /\ wanted \subseteq Surface
  /\ loSize \in [Surface -> Size \cup {None}]
  /\ gen \in [Surface -> Nat]
  /\ busy \in [Surface -> SUBSET Id]
  /\ shown \in [Surface -> [buffer : Buffer \cup {None, Black}, size : Size \cup {None}]]
  /\ reading \in [Surface -> SUBSET Buffer]
  /\ configures \in 0 .. MaxConfigures
  /\ drawn \in [Surface -> SUBSET Buffer]
  /\ hadSizes \in [Surface -> SUBSET Size]
  /\ returned \subseteq Surface /\ dropped \subseteq Surface

\* What a lock surface shows has the size the compositor gave it last, anything
\* else being a protocol error that ends the shell (scr_present): whatever frames
\* of older sizes are still on their way, and whenever their import is done.
PresentedFits == \A s \in live : shown[s].size = size[s]

\* Whatever ends the screensaver or a surface, in the middle of whichever exchange,
\* leaves nothing behind: without a screensaver the surfaces are black
\* (screensaver_failed), and the listeners of buffers and of frame callbacks, which
\* hold a pointer to their surface, are gone before it is (destroy_surface).
NothingLeftBehind ==
  /\ ~scrFd => \A s \in live : shown[s].buffer \in {None, Black}
  /\ \A s \in Surface : ~scrFd \/ s \notin live => slot[s] = NoSlots /\ s \notin callback

\* The buffers of an output that the shell shows, or is about to, or is going to
\* read of.
InUse(s) ==
  reading[s]
    \cup {toShell[k].buffer : k \in {n \in DOMAIN toShell :
            toShell[n].type = "READY" /\ toShell[n].output = s}}
    \cup {slot[s][i].buffer : i \in {n \in Id : slot[s][n] # None /\ slot[s][n].ready}}

\* "Shown (or about to be) by the shell, so not to be drawn into" (Buffer::busy):
\* the loader knows which of its buffers are in use, as long as the surface does not
\* go back to a size it had before.
BusyWhileInUse ==
  \A s \in live \ returned :
    scrFd => \A b \in InUse(s) : b[1] = gen[s] => b[2] \in busy[s]

\* Nothing is shown that the loader has not drawn: a READY is about the buffer the
\* shell takes it for, as long as the surface does not go back to an older size.
DrawnBeforeShown ==
  \A s \in Surface \ returned : reading[s] \subseteq drawn[s]

\* A configured surface does not stop changing: it comes to wait for the next frame
\* to be shown, again and again, while its screensaver runs, unless a message to the
\* loader was lost because the loader had stopped reading (scr_send).  In particular
\* it does not stay black after a resize.
FramesKeepComing ==
  \A s \in Surface :
    size[s] # None /\ s \notin callback
      ~> \/ s \in callback \/ s \in dropped \/ s \notin live
         \/ ~scrFd \/ loader = "exited"

=============================================================================
