--------------------------- MODULE WindowManager ---------------------------
(***************************************************************************)
(* The window manager of the shell (TCCClient, shell/client).  River sends *)
(* events between two manage sequences; their handlers mostly write down   *)
(* what happened.  river_wm_manage_start then destroys what is gone, keeps *)
(* every window on an output, and carries out what was asked for.          *)
(*                                                                         *)
(* manage_start is one handler that runs loops over vectors.  It is split  *)
(* here into one action per element visited; pc says which loop runs, and  *)
(* no event is handled before it is "idle" again.                          *)
(*                                                                         *)
(* Positions are abstracted to "fills output o" and "the output the point  *)
(* happens to be on"; the stacking order of an output's windows is left    *)
(* out, so that its front or back may be any of them.                      *)
(***************************************************************************)
EXTENDS Naturals, SequencesExt

CONSTANTS
  Window,   \* the windows clients may open, each once
  Output,   \* the outputs that may be announced, each once
  None,     \* nullptr
  Uses      \* what windows and users do

Kinds == {"maximize", "fullscreen", "minimize", "move", "resize", "button",
          "restore", "binding", "unplug", "reseat"}

ASSUME NoneAssumption == None \notin Window \cup Output
ASSUME UsesAssumption == Uses \subseteq Kinds

VARIABLES
  pc,       \* "idle", or the loop of manage_start that is running
  cursor,   \* its position in the vector it iterates over
  tail,     \* what erase has left in the vector's storage behind its end
  work,     \* the windows of the copy that are still to be visited
  under,    \* the output under the pointer, in this sequence or the last
  mOutputs, mMainOutput, mMainOutputChanged,
  freed,    \* outputs that have been deleted
  removed, geometryChanged,     \* flags of Output
  windows, minimizedWindows, mOrphanedWindows,
  allocated, destroyed,         \* windows created so far; deleted again
  isNew, closed, maximized, minimized, fullscreen,   \* flags of Window
  wantMaximized, wantMinimized, wantFullscreen, wantFullscreenOutput,
  queueMinimize,
  pendingNav,                   \* pending_nav_action
  moveRequested, resizeRequested,  \* pointer_{move,resize}_requested # nullptr
  fills,    \* the output a window was last made to fill, as it is now
  dragged,  \* windows that an operation has moved since
  seat,     \* "absent", "new", or "ready" once its bindings exist
  seatRemoved, focused, hovered, interacted, holding, pointerWindow,
  pendingAction, op, opWindow, opRelease,
  \* History, for properties only.
  dropped   \* the window that an operation put on another output at the end
            \* of the last sequence

noted   == <<under, dropped>>
loop    == <<pc, cursor, tail, work, noted>>
main    == <<mMainOutput, mMainOutputChanged>>
outs    == <<mOutputs, main, freed, removed, geometryChanged>>
lists   == <<windows, minimizedWindows, mOrphanedWindows>>
life    == <<allocated, destroyed, isNew, closed>>
state   == <<maximized, minimized, fullscreen, fills, dragged>>
wants   == <<wantMaximized, wantMinimized, wantFullscreen,
             wantFullscreenOutput, queueMinimize, pendingNav, moveRequested,
             resizeRequested>>
pointed == <<hovered, holding, pointerWindow>>
oper    == <<op, opWindow, opRelease>>
seats   == <<seat, seatRemoved, focused, interacted, pointed, pendingAction,
             oper>>
vars    == <<loop, outs, lists, life, state, wants, seats>>

TypeOK ==
  /\ pc \in {"idle", "outputs", "adopt", "fill", "closing", "orphans",
             "seats", "windows", "stashed", "crashed"}
  /\ cursor \in Nat
  /\ tail \in Seq(Window \cup Output)
  /\ under \in Output \cup {None} /\ dropped \in Window \cup {None}
  /\ mOutputs \in Seq(Output)
  /\ {freed, removed, geometryChanged} \subseteq SUBSET Output
  /\ removed \cup geometryChanged \subseteq ToSet(mOutputs)
  /\ mMainOutput \in Output \cup {None}
  /\ {windows, minimizedWindows} \subseteq [Output -> SUBSET Window]
  /\ mOrphanedWindows \in Seq(Window)
  /\ {work, allocated, destroyed, isNew, closed, maximized, minimized,
      fullscreen, wantMaximized, wantMinimized, wantFullscreen,
      queueMinimize, moveRequested, resizeRequested, dragged}
       \subseteq SUBSET Window
  /\ {fills, wantFullscreenOutput} \subseteq [Window -> Output \cup {None}]
  /\ pendingNav \in [Window -> {"none", "max", "min"}]
  /\ seat \in {"absent", "new", "ready"}
  /\ {mMainOutputChanged, seatRemoved, opRelease} \subseteq BOOLEAN
  /\ {focused, hovered, interacted, holding, pointerWindow, opWindow}
       \subseteq Window \cup {None}
  /\ pendingAction \in {"none", "focus_next", "move", "resize"}
  /\ op \in {"none", "move", "resize"}

Init ==
  /\ pc = "idle" /\ cursor = 0 /\ tail = <<>> /\ work = {}
  /\ under = None /\ dropped = None
  /\ mOutputs = <<>> /\ mMainOutput = None /\ mMainOutputChanged = FALSE
  /\ freed = {} /\ removed = {} /\ geometryChanged = {}
  /\ windows = [o \in Output |-> {}]
  /\ minimizedWindows = [o \in Output |-> {}]
  /\ mOrphanedWindows = <<>>
  /\ allocated = {} /\ destroyed = {} /\ isNew = {} /\ closed = {}
  /\ maximized = {} /\ minimized = {} /\ fullscreen = {}
  /\ wantMaximized = {} /\ wantMinimized = {} /\ wantFullscreen = {}
  /\ wantFullscreenOutput = [w \in Window |-> None]
  /\ queueMinimize = {}
  /\ pendingNav = [w \in Window |-> "none"]
  /\ moveRequested = {} /\ resizeRequested = {}
  /\ fills = [w \in Window |-> None] /\ dragged = {}
  /\ seat = "absent" /\ seatRemoved = FALSE
  /\ focused = None /\ hovered = None /\ interacted = None /\ holding = None
  /\ pointerWindow = None
  /\ pendingAction = "none"
  /\ op = "none" /\ opWindow = None /\ opRelease = FALSE
-----------------------------------------------------------------------------
Live   == ToSet(mOutputs)
Usable == Live \ removed

\* The windows a client still has and can send requests for.
Open == allocated \ (destroyed \cup closed)

-----------------------------------------------------------------------------
(* What the definitions they are named after would be with a mistake that  *)
(* could have been made in the code.                                       *)

OutputOf_MainOnly(w) ==
  IF mMainOutput \in Live /\ w \in windows[mMainOutput]
                                    \cup minimizedWindows[mMainOutput]
  THEN mMainOutput ELSE None

NextFocus_NeverTakenOver ==
  IF pendingAction = "focus_next" /\ under # None /\ windows[under] # {}
  THEN windows[under]
  ELSE IF interacted # None THEN {interacted} ELSE {focused}

UnderPointer_NoFallback == Usable \cup {None}

ApplyGeometry_Not(S, o) == UNCHANGED <<fills, dragged>>

IconClicked_AnyWindow(w) ==
  /\ pc = "idle" /\ UNCHANGED loop
  /\ "restore" \in Uses
  /\ w \in UNION {windows[o] \cup minimizedWindows[o] : o \in Live}
  /\ queueMinimize' = queueMinimize \cup {w}
  /\ UNCHANGED <<outs, lists, life, state, wantMaximized, wantMinimized,
                 wantFullscreen, wantFullscreenOutput, pendingNav,
                 moveRequested, resizeRequested, seats>>

FocusAfterHiding_Keeps(w) == focused

SeatForgets_KeepsPointer(w) ==
  /\ UNCHANGED pointerWindow
  /\ op' = IF opWindow = w THEN "none" ELSE op
  /\ opWindow' = IF opWindow = w THEN None ELSE opWindow

Place_KeepsOld(w, to, hide) ==
  /\ windows' = [windows EXCEPT ![to] = IF hide THEN @ \ {w} ELSE @ \cup {w}]
  /\ minimizedWindows' =
       [minimizedWindows EXCEPT ![to] = IF hide THEN @ \cup {w} ELSE @ \ {w}]
-----------------------------------------------------------------------------
\* output_of: only the outputs in mOutputs are searched.
OutputOf(w) ==
  LET O == {o \in Live : w \in windows[o] \cup minimizedWindows[o]}
  IN  IF O = {} THEN None ELSE CHOOSE o \in O : TRUE

\* output_under_pointer: whichever the pointer is on, else the first.
UnderPointer == IF Usable = {} THEN {None} ELSE Usable

First(S) ==
  LET I == {i \in DOMAIN mOutputs : mOutputs[i] \in S}
  IN  IF I = {} THEN None ELSE mOutputs[CHOOSE i \in I : \A j \in I : i <= j]

Fills(w) == w \in maximized \cup fullscreen

\* What window_apply_geometry does to those of the windows in S it applies to.
ApplyGeometry(S, o) ==
  /\ fills' = [w \in Window |-> IF w \in S /\ Fills(w) THEN o ELSE fills[w]]
  /\ dragged' = dragged \ {w \in S : Fills(w)}

\* Using what has been freed: in the builds there are, the shell goes down.
Crash ==
  /\ pc' = "crashed"
  /\ UNCHANGED <<cursor, tail, work, noted, outs, lists, life, state, wants,
                 seats>>

Put(S, w, b) == IF b THEN S \cup {w} ELSE S \ {w}
-----------------------------------------------------------------------------
(* Events from river and from wl_pointer, handled between two sequences.   *)

Idle == pc = "idle" /\ UNCHANGED loop

\* river_wm_output
OutputAnnounced(o) ==
  /\ Idle
  /\ o \notin Live \cup freed
  /\ mOutputs' = Append(mOutputs, o)
  /\ UNCHANGED <<main, freed, removed, geometryChanged, lists, life, state,
                 wants, seats>>

Moved(o) ==
  /\ Idle
  /\ o \in Usable
  /\ geometryChanged' = geometryChanged \cup {o}
  /\ fills' = [w \in Window |-> IF fills[w] = o THEN None ELSE fills[w]]
  /\ UNCHANGED <<mOutputs, freed, removed, lists, life, maximized, minimized,
                 fullscreen, dragged, wants, seats>>

OutputPosition(o) == Moved(o) /\ UNCHANGED main

\* The widest output is the main output; its width is read even when it has
\* been deleted.
OutputDimensions(o) ==
  /\ Moved(o)
  /\ \/ mMainOutput' = o /\ mMainOutputChanged' = TRUE
     \/ mMainOutput \notin {None, o} /\ UNCHANGED main

OutputRemoved(o) ==
  /\ Idle
  /\ "unplug" \in Uses
  /\ o \in Usable
  /\ removed' = removed \cup {o}
  /\ UNCHANGED <<mOutputs, main, freed, geometryChanged, lists, life, state,
                 wants, seats>>

\* river_wm_window.  For a main output that has been deleted this writes the
\* window into freed memory.
WindowCreated(w) ==
  /\ Idle
  /\ w \notin allocated
  /\ allocated' = allocated \cup {w}
  /\ isNew' = isNew \cup {w}
  /\ \/ /\ mMainOutput = None
        /\ mOrphanedWindows' = Append(mOrphanedWindows, w)
        /\ UNCHANGED windows
     \/ /\ mMainOutput # None
        /\ windows' = [windows EXCEPT ![mMainOutput] = @ \cup {w}]
        /\ UNCHANGED mOrphanedWindows
  /\ UNCHANGED <<minimizedWindows, outs, destroyed, closed, state, wants,
                 seats>>

WritesFreedOutput ==
  pc = "idle" /\ mMainOutput \in freed /\ allocated # Window /\ Crash

\* The last event about a window; river has the pointer leave it first.
WindowClosed(w) ==
  /\ Idle
  /\ w \in Open
  /\ closed' = closed \cup {w}
  /\ hovered' = IF hovered = w THEN None ELSE hovered
  /\ UNCHANGED <<outs, lists, allocated, destroyed, isNew, state, wants, seat,
                 seatRemoved, focused, interacted, holding, pointerWindow,
                 pendingAction, oper>>

Request(w, kind) ==
  /\ Idle
  /\ kind \in Uses
  /\ w \in Open
  /\ UNCHANGED <<outs, lists, life, state, seats>>

MaximizeRequested(w) ==
  /\ Request(w, "maximize")
  /\ \E b \in BOOLEAN : wantMaximized' = Put(wantMaximized, w, b)
  /\ UNCHANGED <<wantMinimized, wantFullscreen, wantFullscreenOutput,
                 queueMinimize, pendingNav, moveRequested, resizeRequested>>

FullscreenRequested(w) ==
  /\ Request(w, "fullscreen")
  /\ \E o \in Usable \cup {None} :
       wantFullscreenOutput' = [wantFullscreenOutput EXCEPT ![w] = o]
  /\ wantFullscreen' = wantFullscreen \cup {w}
  /\ UNCHANGED <<wantMaximized, wantMinimized, queueMinimize, pendingNav,
                 moveRequested, resizeRequested>>

ExitFullscreenRequested(w) ==
  /\ Request(w, "fullscreen")
  /\ wantFullscreen' = wantFullscreen \ {w}
  /\ UNCHANGED <<wantMaximized, wantMinimized, wantFullscreenOutput,
                 queueMinimize, pendingNav, moveRequested, resizeRequested>>

MinimizeRequested(w) ==
  /\ Request(w, "minimize")
  /\ wantMinimized' = wantMinimized \cup {w}
  /\ UNCHANGED <<wantMaximized, wantFullscreen, wantFullscreenOutput,
                 queueMinimize, pendingNav, moveRequested, resizeRequested>>

\* The window asks the compositor to let the user move or resize it.
PointerOpRequested(w) ==
  /\ seat # "absent"
  /\ \/ Request(w, "move") /\ moveRequested' = moveRequested \cup {w}
                           /\ UNCHANGED resizeRequested
     \/ Request(w, "resize") /\ resizeRequested' = resizeRequested \cup {w}
                             /\ UNCHANGED moveRequested
  /\ UNCHANGED <<wantMaximized, wantMinimized, wantFullscreen,
                 wantFullscreenOutput, queueMinimize, pendingNav>>

\* The desktop's icon of a minimized window is clicked.
IconClicked(w) ==
  /\ Idle
  /\ "restore" \in Uses
  /\ \E o \in Live : w \in minimizedWindows[o]
  /\ queueMinimize' = queueMinimize \cup {w}
  /\ UNCHANGED <<outs, lists, life, state, wantMaximized, wantMinimized,
                 wantFullscreen, wantFullscreenOutput, pendingNav,
                 moveRequested, resizeRequested, seats>>
-----------------------------------------------------------------------------
(* The seat.  There is one; it may go and come back.                       *)

SeatEvent ==
  /\ Idle
  /\ seat # "absent" /\ ~seatRemoved
  /\ UNCHANGED <<outs, lists, life, state>>

SeatAnnounced ==
  /\ Idle
  /\ seat = "absent"
  /\ seat' = "new"
  /\ UNCHANGED <<outs, lists, life, state, wants, seatRemoved, focused,
                 interacted, pointed, pendingAction, oper>>

SeatRemoved ==
  /\ SeatEvent
  /\ "reseat" \in Uses
  /\ seatRemoved' = TRUE
  /\ UNCHANGED <<wants, seat, focused, interacted, pointed, pendingAction,
                 oper>>

\* river_seat_pointer_enter and _leave.  river does not display a window before
\* a manage sequence has proposed its dimensions.
PointerEntersWindow(w) ==
  /\ SeatEvent
  /\ "binding" \in Uses
  /\ w \in IF hovered = None THEN Open \ isNew ELSE {None}
  /\ hovered' = w
  /\ UNCHANGED <<wants, seat, seatRemoved, focused, interacted, holding,
                 pointerWindow, pendingAction, oper>>

\* wl_pointer_enter and _leave: the decoration of a window that is shown.
PointerEntersDecoration(w) ==
  /\ SeatEvent
  /\ "button" \in Uses
  /\ w \in {None} \cup UNION {windows[o] \ isNew : o \in Live}
  /\ pointerWindow' = w
  /\ UNCHANGED <<wants, seat, seatRemoved, focused, interacted, hovered,
                 holding, pendingAction, oper>>

\* A nav button is released: nav_button_action, also when it was not inside.
ButtonReleased(button) ==
  /\ SeatEvent
  /\ pointerWindow # None
  /\ pendingNav' = [pendingNav EXCEPT ![pointerWindow] = button]
  /\ UNCHANGED <<wantMaximized, wantMinimized, wantFullscreen,
                 wantFullscreenOutput, queueMinimize, moveRequested,
                 resizeRequested, seats>>

\* A click on a window also drags it by its title bar, or resizes it by the
\* edge the pointer is on, unless it fills its output.
WindowInteraction(w) ==
  /\ SeatEvent
  /\ w \in Open
  /\ interacted' = w
  /\ \/ UNCHANGED <<moveRequested, resizeRequested>>
     \/ /\ ~Fills(w) /\ "move" \in Uses
        /\ moveRequested' = moveRequested \cup {w}
        /\ UNCHANGED resizeRequested
     \/ /\ ~Fills(w) /\ "resize" \in Uses /\ pointerWindow = w
        /\ resizeRequested' = resizeRequested \cup {w}
        /\ UNCHANGED moveRequested
  /\ UNCHANGED <<wantMaximized, wantMinimized, wantFullscreen,
                 wantFullscreenOutput, queueMinimize, pendingNav, seat,
                 seatRemoved, focused, pointed, pendingAction, oper>>

\* Super+drag and Alt+Tab; those without an effect on windows are left out.
BindingPressed(action) ==
  /\ SeatEvent
  /\ "binding" \in Uses
  /\ seat = "ready"
  /\ pendingAction' = action
  /\ holding' = IF action # "focus_next" /\ hovered # None THEN hovered
                                                           ELSE holding
  /\ UNCHANGED <<wants, seat, seatRemoved, focused, interacted, hovered,
                 pointerWindow, oper>>

\* Releasing Super+drag over a nav button also presses that button.
BindingReleased(action, button) ==
  /\ "binding" \in Uses
  /\ seat = "ready"
  /\ \/ /\ SeatEvent
        /\ holding \notin destroyed
        /\ pendingAction' = action
        /\ pendingNav' = IF holding = None THEN pendingNav
                         ELSE [pendingNav EXCEPT ![holding] = button]
        /\ holding' = None
        /\ UNCHANGED <<wantMaximized, wantMinimized, wantFullscreen,
                       wantFullscreenOutput, queueMinimize, moveRequested,
                       resizeRequested, seat, seatRemoved, focused,
                       interacted, hovered, pointerWindow, oper>>
     \/ /\ pc = "idle" /\ ~seatRemoved
        /\ holding \in destroyed
        /\ Crash

OpReleased ==
  /\ SeatEvent
  /\ op # "none"
  /\ opRelease' = TRUE
  /\ UNCHANGED <<wants, seat, seatRemoved, focused, interacted, pointed,
                 pendingAction, op, opWindow>>

\* river_wm_render_start: seat_render positions the window being dragged.
RenderStart ==
  /\ Idle
  /\ op # "none"
  /\ dragged' = dragged \cup ({opWindow} \cap (maximized \cup fullscreen))
  /\ UNCHANGED <<outs, lists, life, maximized, minimized, fullscreen, fills,
                 wants, seats>>
-----------------------------------------------------------------------------
(* river_wm_manage_start: first what is gone is destroyed.  A range-for    *)
(* reads on through the vector's storage when erase shifts it down:        *)
(* elements are skipped, and those at the end are read once more.          *)

ManageStart ==
  /\ pc = "idle"
  /\ pc' = "outputs"
  /\ cursor' = 1
  /\ UNCHANGED <<tail, work, noted, outs, lists, life, state, wants, seats>>

Advance == cursor' = cursor + 1 /\ UNCHANGED <<pc, work, noted>>

\* output_maybe_destroy, having found the output removed.
DestroyOutput(o) ==
  LET gone   == windows[o] \cup minimizedWindows[o]
      hidden == gone \cap minimized
      target == First(Usable)
  IN
  /\ mOutputs' = RemoveFirst(mOutputs, o)
  /\ tail' = <<Last(mOutputs)>> \o tail
  /\ freed' = freed \cup {o}
  /\ removed' = removed \ {o}
  /\ geometryChanged' = geometryChanged \ {o}
  /\ \/ /\ target # None
        /\ windows' = [windows EXCEPT ![o] = {},
                                      ![target] = @ \cup (gone \ hidden)]
        /\ minimizedWindows' = [minimizedWindows EXCEPT
                                  ![o] = {}, ![target] = @ \cup hidden]
        /\ ApplyGeometry(gone, target)
        /\ UNCHANGED mOrphanedWindows
     \/ /\ target = None
        /\ windows' = [windows EXCEPT ![o] = {}]
        /\ minimizedWindows' = [minimizedWindows EXCEPT ![o] = {}]
        /\ \E order \in SetToSeqs(gone) :
             mOrphanedWindows' = mOrphanedWindows \o order
        /\ UNCHANGED <<fills, dragged>>
  /\ UNCHANGED <<main, maximized, minimized, fullscreen>>

VisitOutput ==
  LET storage == mOutputs \o tail
      o       == storage[cursor]
  IN
  /\ pc = "outputs"
  /\ cursor <= Len(storage)
  /\ \/ o \in freed /\ Crash
     \/ /\ o \in removed
        /\ DestroyOutput(o)
        /\ Advance
        /\ UNCHANGED <<life, wants, seats>>
     \/ /\ o \in Usable
        /\ Advance
        /\ UNCHANGED <<tail, outs, lists, life, state, wants, seats>>

\* output_adopt_orphans
AdoptOrphans ==
  LET orphans == ToSet(mOrphanedWindows) IN
  /\ pc = "outputs"
  /\ cursor > Len(mOutputs \o tail)
  /\ pc' = "fill"
  /\ tail' = <<>>
  /\ under' \in UnderPointer
  /\ \/ /\ under' # None /\ orphans # {}
        /\ windows' = [windows EXCEPT ![under'] = @ \cup (orphans \ minimized)]
        /\ minimizedWindows' = [minimizedWindows EXCEPT
                                  ![under'] = @ \cup (orphans \cap minimized)]
        /\ mOrphanedWindows' = <<>>
        /\ ApplyGeometry(orphans, under')
     \/ /\ under' = None \/ orphans = {}
        /\ UNCHANGED <<lists, fills, dragged>>
  /\ UNCHANGED <<cursor, work, dropped, outs, life, maximized, minimized,
                 fullscreen, wants, seats>>

\* Windows that fill an output follow its geometry.
FillOutputs ==
  /\ pc = "fill"
  /\ pc' = "closing"
  /\ work' = UNION {windows[o] \cup minimizedWindows[o] : o \in Live}
  /\ geometryChanged' = geometryChanged \ Live
  /\ LET due == {w \in work' : Fills(w) /\ OutputOf(w) \in geometryChanged}
     IN  /\ fills' = [w \in Window |-> IF w \in due THEN OutputOf(w)
                                                    ELSE fills[w]]
         /\ dragged' = dragged \ due
  /\ UNCHANGED <<cursor, tail, noted, mOutputs, main, freed, removed, lists,
                 life, maximized, minimized, fullscreen, wants, seats>>

\* How the seats forget a window: interacted, hovered and holding are kept.
SeatForgets(w) ==
  /\ pointerWindow' = IF pointerWindow = w THEN None ELSE pointerWindow
  /\ op' = IF opWindow = w THEN "none" ELSE op
  /\ opWindow' = IF opWindow = w THEN None ELSE opWindow

\* window_maybe_destroy, having found the window closed.  What belongs to the
\* window is reset.
DestroyWindow(w) ==
  /\ destroyed' = destroyed \cup {w}
  /\ isNew' = isNew \ {w}
  /\ closed' = closed \ {w}
  /\ windows' = [o \in Output |-> windows[o] \ IF o \in Live THEN {w} ELSE {}]
  /\ minimizedWindows' = [o \in Output |->
                            minimizedWindows[o] \ IF o \in Live THEN {w} ELSE {}]
  /\ mOrphanedWindows' = RemoveFirst(mOrphanedWindows, w)
  /\ maximized' = maximized \ {w}
  /\ minimized' = minimized \ {w}
  /\ fullscreen' = fullscreen \ {w}
  /\ fills' = [fills EXCEPT ![w] = None]
  /\ dragged' = dragged \ {w}
  /\ wantMaximized' = wantMaximized \ {w}
  /\ wantMinimized' = wantMinimized \ {w}
  /\ wantFullscreen' = wantFullscreen \ {w}
  /\ wantFullscreenOutput' = [wantFullscreenOutput EXCEPT ![w] = None]
  /\ queueMinimize' = queueMinimize \ {w}
  /\ pendingNav' = [pendingNav EXCEPT ![w] = "none"]
  /\ moveRequested' = moveRequested \ {w}
  /\ resizeRequested' = resizeRequested \ {w}
  /\ SeatForgets(w)
  /\ UNCHANGED <<allocated, seat, seatRemoved, interacted, hovered, holding,
                 pendingAction, opRelease>>

\* The end of window_minimize, having hidden the window.
FocusAfterHiding(w) == IF focused = w THEN None ELSE focused

\* window_minimize on a window of output o, whose icon was clicked, and
\* seat_focus on it unless that has hidden it.
ToggleMinimized(w, o) ==
  LET hide == w \notin minimized IN
  /\ minimized' = Put(minimized, w, hide)
  /\ windows' = [windows EXCEPT ![o] = Put(@, w, ~hide)]
  /\ minimizedWindows' = [minimizedWindows EXCEPT ![o] = Put(@, w, hide)]
  /\ wantMinimized' = wantMinimized \ {w}
  /\ focused' = IF ~hide THEN w ELSE FocusAfterHiding(w)
  \* The desktop is run in between, and may find that others were clicked.
  /\ \E S \in SUBSET IF "restore" \in Uses THEN minimizedWindows'[o] ELSE {} :
       queueMinimize' = (queueMinimize \ {w}) \cup S

CloseOrRestore(w) ==
  /\ pc = "closing"
  /\ w \in work
  /\ \/ w \in queueMinimize /\ seat = "absent" /\ Crash
     \/ /\ ~(w \in queueMinimize /\ seat = "absent")
        /\ work' = work \ {w}
        /\ UNCHANGED <<pc, cursor, tail, noted, outs>>
        /\ \/ /\ w \in closed
              /\ DestroyWindow(w)
              /\ focused' = IF focused = w \/ w \in queueMinimize \cap minimized
                            THEN None ELSE focused
           \/ /\ w \notin closed /\ w \in queueMinimize
              /\ ToggleMinimized(w, OutputOf(w))
              /\ UNCHANGED <<mOrphanedWindows, life, maximized, fullscreen,
                             fills, dragged, wantMaximized, wantFullscreen,
                             wantFullscreenOutput, pendingNav, moveRequested,
                             resizeRequested, seat, seatRemoved, interacted,
                             pointed, pendingAction, oper>>
           \/ /\ w \notin closed /\ w \notin queueMinimize
              /\ UNCHANGED <<lists, life, state, wants, seats>>

StartOrphans ==
  /\ pc = "closing"
  /\ work = {}
  /\ pc' = "orphans"
  /\ cursor' = 1
  /\ UNCHANGED <<tail, work, noted, outs, lists, life, state, wants, seats>>

VisitOrphan ==
  LET storage == mOrphanedWindows \o tail
      w       == storage[cursor]
  IN
  /\ pc = "orphans"
  /\ cursor <= Len(storage)
  /\ \/ w \in destroyed /\ Crash
     \/ /\ w \in closed
        /\ DestroyWindow(w)
        /\ tail' = <<Last(mOrphanedWindows)>> \o tail
        /\ focused' = IF focused = w THEN None ELSE focused
        /\ Advance
        /\ UNCHANGED outs
     \/ /\ w \in Open
        /\ Advance
        /\ UNCHANGED <<tail, outs, lists, life, state, wants, seats>>

\* seat_maybe_destroy.  Its loops over the seat's bindings erase from the
\* vectors they iterate over and run past the ends, if there are any.
DestroySeat ==
  /\ pc = "orphans"
  /\ cursor > Len(mOrphanedWindows \o tail)
  /\ \/ seatRemoved /\ seat = "ready" /\ Crash
     \/ /\ ~(seatRemoved /\ seat = "ready")
        /\ pc' = "windows"
        /\ cursor' = 0
        /\ tail' = <<>>
        /\ \/ /\ ~seatRemoved
              /\ UNCHANGED seats
           \/ /\ seatRemoved
              /\ seat' = "absent"
              /\ seatRemoved' = FALSE
              /\ focused' = None /\ interacted' = None
              /\ hovered' = None /\ holding' = None /\ pointerWindow' = None
              /\ pendingAction' = "none"
              /\ op' = "none" /\ opWindow' = None /\ opRelease' = FALSE
        /\ UNCHANGED <<work, noted, outs, lists, life, state, wants>>
-----------------------------------------------------------------------------
(* Then window_manage carries out what was asked for, on a copy of each    *)
(* output's windows in turn and on the orphans.  Minimized windows wait.   *)

NextOutput ==
  /\ pc = "windows"
  /\ work = {}
  /\ \/ /\ cursor < Len(mOutputs)
        /\ cursor' = cursor + 1
        /\ work' = windows[mOutputs[cursor']]
        /\ UNCHANGED pc
     \/ /\ cursor = Len(mOutputs)
        /\ cursor' = 0
        /\ work' = ToSet(mOrphanedWindows)
        /\ pc' = "stashed"
  /\ UNCHANGED <<tail, noted, outs, lists, life, state, wants, seats>>

\* A window (back) to output `to`, which may be the one it is on.
Place(w, to, hide) ==
  /\ windows' = [o \in Output |-> IF o = to THEN Put(windows[o], w, ~hide)
                                  ELSE windows[o] \ IF o \in Live THEN {w} ELSE {}]
  /\ minimizedWindows' =
       [o \in Output |-> IF o = to THEN Put(minimizedWindows[o], w, hide)
                         ELSE minimizedWindows[o] \ IF o \in Live THEN {w} ELSE {}]

WindowManage(w) ==
  LET out     == OutputOf(w)
      full    == w \in fullscreen
      drag    == w \in moveRequested /\ ~full
      wantMax == ~drag /\ IF pendingNav[w] = "max" THEN w \notin maximized
                                                   ELSE w \in wantMaximized
      wantFs  == w \in wantFullscreen
      max     == w \in maximized /\ ~(drag /\ out # None)
      resize  == w \in resizeRequested /\ ~max /\ ~full
      change  == out # None /\ (wantMax # max \/ wantFs # full)
      newMax  == IF change THEN wantMax ELSE max
      newFull == IF change THEN wantFs ELSE full
      hint    == wantFullscreenOutput[w]
      to      == IF change /\ wantFs /\ ~full /\ hint \in Usable THEN hint
                                                                 ELSE out
      wantMin == w \in wantMinimized \/ pendingNav[w] = "min"
      hide    == out # None /\ wantMin /\ w \notin minimized
  IN
  /\ isNew' = isNew \ {w}
  /\ interacted' = IF w \in isNew /\ seat # "absent" /\ interacted = None
                   THEN w ELSE interacted
  /\ wantMaximized' = Put(wantMaximized, w, wantMax)
  /\ wantMinimized' = Put(wantMinimized, w, wantMin /\ ~hide)
  /\ wantFullscreenOutput' = [wantFullscreenOutput EXCEPT ![w] = None]
  /\ pendingNav' = [pendingNav EXCEPT ![w] = "none"]
  /\ moveRequested' = moveRequested \ {w}
  /\ resizeRequested' = resizeRequested \ {w}
  /\ op' = IF resize THEN "resize" ELSE IF drag THEN "move" ELSE op
  /\ opWindow' = IF resize \/ drag THEN w ELSE opWindow
  /\ maximized' = Put(maximized, w, newMax)
  /\ fullscreen' = Put(fullscreen, w, newFull)
  /\ minimized' = Put(minimized, w, hide \/ w \in minimized)
  /\ \/ out = None /\ UNCHANGED <<windows, minimizedWindows>>
     \/ out # None /\ Place(w, to, hide \/ w \in minimized)
  /\ fills' = [fills EXCEPT ![w] = IF change /\ (newMax \/ newFull) THEN to
                                   ELSE IF newMax \/ newFull THEN @ ELSE None]
  /\ dragged' = Put(dragged, w, w \in dragged /\ ~change /\ (newMax \/ newFull))
  /\ focused' = IF hide THEN FocusAfterHiding(w) ELSE focused
  /\ UNCHANGED <<mOrphanedWindows, allocated, destroyed, closed,
                 wantFullscreen, queueMinimize, seat, seatRemoved, pointed,
                 pendingAction, opRelease>>

\* A request may name a seat that has been deleted.
ManageWindow(w) ==
  /\ pc \in {"windows", "stashed"}
  /\ w \in work
  /\ \/ /\ seat = "absent" /\ w \in moveRequested \cup resizeRequested
        /\ Crash
     \/ /\ ~(seat = "absent" /\ w \in moveRequested \cup resizeRequested)
        /\ work' = work \ {w}
        /\ WindowManage(w)
        /\ UNCHANGED <<pc, cursor, tail, noted, outs>>

\* The end of the sequence, where a new main output is announced to river.
MainOutputFreed == mMainOutputChanged /\ mMainOutput \in freed

ManageDone ==
  /\ pc' = "idle"
  /\ mMainOutputChanged' = FALSE
  /\ UNCHANGED <<cursor, tail, work, under, mOutputs, mMainOutput, freed,
                 removed, geometryChanged, life, maximized, minimized,
                 fullscreen, fills, wants>>

\* The windows that may be at the front or the back of those shown there.
Top(o) == IF o = None \/ windows[o] = {} THEN {None} ELSE windows[o]

\* What seat_manage and then seat_action focus, or leave focused.
NextFocus ==
  IF pendingAction = "focus_next" /\ Top(under) # {None} THEN Top(under)
  ELSE IF interacted # None THEN {interacted}
  ELSE IF focused = None THEN Top(under) ELSE {focused}

\* seat_manage
ManageSeat ==
  /\ pc = "stashed"
  /\ work = {}
  /\ seat # "absent"
  /\ \/ (interacted \in destroyed \/ MainOutputFreed) /\ Crash
     \/ /\ interacted \notin destroyed
        /\ ManageDone
        /\ seat' = "ready"
        /\ interacted' = None
        /\ pendingAction' = "none"
        /\ opRelease' = FALSE
        /\ focused' \in NextFocus
        /\ LET start  == pendingAction \in {"move", "resize"} /\ op = "none"
                           /\ hovered # None
               newOp  == IF start THEN pendingAction ELSE op
               target == IF start THEN hovered ELSE opWindow
           IN  \/ /\ newOp # "none" /\ opRelease
                  /\ op' = "none"
                  /\ opWindow' = None
                  /\ \/ dropped' = None /\ UNCHANGED <<lists, dragged>>
                     \/ \E out \in Usable \ {OutputOf(target)} :
                          /\ dropped' = target
                          /\ Place(target, out, target \in minimized)
                          /\ mOrphanedWindows' =
                               RemoveFirst(mOrphanedWindows, target)
                          /\ dragged' = Put(dragged, target, Fills(target))
               \/ /\ ~(newOp # "none" /\ opRelease)
                  /\ op' = newOp
                  /\ opWindow' = target /\ dropped' = None
                  /\ UNCHANGED <<lists, dragged>>
        /\ UNCHANGED <<seatRemoved, pointed>>

ManageNoSeat ==
  /\ pc = "stashed"
  /\ work = {}
  /\ seat = "absent"
  /\ \/ MainOutputFreed /\ Crash
     \/ ManageDone /\ dropped' = None /\ UNCHANGED <<lists, dragged, seats>>
-----------------------------------------------------------------------------
OutputEvent(o) ==
  \/ OutputAnnounced(o) \/ OutputRemoved(o)
  \/ OutputPosition(o) \/ OutputDimensions(o)

WindowEvent(w) ==
  \/ WindowCreated(w) \/ WindowClosed(w)
  \/ MaximizeRequested(w) \/ FullscreenRequested(w)
  \/ ExitFullscreenRequested(w) \/ MinimizeRequested(w)
  \/ PointerOpRequested(w) \/ IconClicked(w)

SeatInput ==
  \/ SeatAnnounced \/ SeatRemoved \/ OpReleased
  \/ \E w \in Window : WindowInteraction(w)
  \/ \E w \in Window \cup {None} :
       PointerEntersWindow(w) \/ PointerEntersDecoration(w)
  \/ \E button \in {"none", "max", "min"} :
       \/ ButtonReleased(button)
       \/ \E a \in {"move", "resize"} : BindingReleased(a, button)
  \/ \E a \in {"focus_next", "move", "resize"} : BindingPressed(a)

ManageSequence ==
  \/ ManageStart \/ VisitOutput \/ AdoptOrphans \/ FillOutputs
  \/ StartOrphans \/ VisitOrphan \/ DestroySeat
  \/ NextOutput \/ ManageSeat \/ ManageNoSeat
  \/ \E w \in Window : CloseOrRestore(w) \/ ManageWindow(w)

Next ==
  \/ \E o \in Output : OutputEvent(o)
  \/ \E w \in Window : WindowEvent(w)
  \/ WritesFreedOutput
  \/ SeatInput
  \/ RenderStart
  \/ ManageSequence

Spec == Init /\ [][Next]_vars
-----------------------------------------------------------------------------
(* Safety.                                                                 *)

Places(w) == {<<"shown", o>> : o \in {p \in Output : w \in windows[p]}}
        \cup {<<"hidden", o>> : o \in {p \in Output : w \in minimizedWindows[p]}}
        \cup {<<"orphan", i>> : i \in {j \in DOMAIN mOrphanedWindows :
                                       mOrphanedWindows[j] = w}}

\* Through every move from output to output, into and out of the orphans and
\* to and from the desktop's icons, a window stays in exactly one list, once,
\* until it is destroyed, and then it is in none.  The lists of an output that is
\* deleted are empty, but for windows opened after the main output has been
\* (river_wm_window uses mMainOutput all the same).
ListedOnce ==
  /\ \A w \in allocated \ destroyed : Cardinality(Places(w)) = 1
  /\ \A w \in destroyed : Places(w) = {}
  /\ \A o \in freed : minimizedWindows[o] = {} /\ windows[o] \subseteq isNew

\* The minimized flag agrees with the list, and a click on an icon that is
\* still to be carried out always brings a window back and never hides one.
MinimizedListed ==
  /\ \A o \in Output : minimizedWindows[o] \subseteq minimized
  /\ \A o \in Output : windows[o] \cap minimized = {}
  /\ queueMinimize \subseteq minimized

\* What window_maybe_destroy has deleted, the seat neither focuses, points at
\* nor drags any more, and an operation has a window exactly while it runs.
SeatPointersAlive ==
  /\ {focused, pointerWindow, opWindow} \cap destroyed = {}
  /\ op = "none" <=> opWindow = None

\* Between sequences a maximized or fullscreen window fills the output it is
\* on, however it got there and however the output was moved or resized,
\* unless an operation has dragged it away since.
FillsItsOutput ==
  pc = "idle" =>
    \A o \in Live \ geometryChanged :
      \A w \in windows[o] \cup minimizedWindows[o] :
        Fills(w) => fills[w] = o \/ w \in dragged

\* Focus is not left empty.  However the focused window goes, and whatever else is
\* closed, hidden or dropped in the same sequence, keyboard input goes nowhere only
\* while the output under the pointer shows nothing, but for windows opened since,
\* and for the one window that seat_manage dropped there after it had looked.
FocusTakenOver ==
  pc = "idle" /\ seat = "ready" /\ focused = None =>
    IF under = None THEN \A o \in Usable : windows[o] \subseteq isNew
                    ELSE windows[under] \subseteq isNew \cup {dropped}

\* Keyboard input is not left going to a window that gets hidden, and goes to a
\* hidden one only because seat_manage focuses the window clicked or opened last
\* without asking whether it has been minimized since.
FocusLeavesHidden ==
  [][focused' \in minimized' =>
       \/ focused' = focused /\ focused \in minimized
       \/ pc = "stashed" /\ focused' = interacted]_vars

SequenceEnds == pc # "idle" /\ pc' = "idle"

\* A manage sequence grants every window shown on an output what it asked
\* for, whichever output it is moved to on the way.
WishesGranted ==
  [][SequenceEnds =>
       \A o \in Live : \A w \in windows[o] :
         /\ w \in maximized <=> w \in wantMaximized
         /\ w \in fullscreen <=> w \in wantFullscreen
         /\ w \notin isNew \cup wantMinimized \cup moveRequested
                         \cup resizeRequested \cup closed]_vars

\* No orphan is left behind while there is an output to put it on.
OrphansAdopted == [][SequenceEnds => mOrphanedWindows = <<>> \/ Usable = {}]_vars
-----------------------------------------------------------------------------
(* What the comments in the source say, and the code does not do.          *)

\* client.hpp: "Windows that exist while there are no outputs to put them on"
\* are orphans and "get adopted by the next output that shows up".  Every
\* window is on an output of mOutputs or one of the orphans.
NoWindowStranded ==
  pc # "crashed" =>
    \A w \in allocated \ destroyed :
      OutputOf(w) # None \/ w \in ToSet(mOrphanedWindows)

\* windowmanagement.cpp, window_minimize: "Don't leave keyboard input going to
\* a hidden window."
FocusNeverHidden == pc = "idle" => focused \notin minimized

\* manage_start: "Destroy closed windows and removed outputs/seats."  When the
\* sequence ends, no output that had been removed is left.
RemovedOutputsDestroyed == [][SequenceEnds => removed \cap Live = {}]_vars

\* The same comment: destroying what is gone does not bring the shell down.
CleanupSurvives == pc # "crashed"
=============================================================================
