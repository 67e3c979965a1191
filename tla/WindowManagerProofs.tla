------------------------ MODULE WindowManagerProofs ------------------------
(***************************************************************************)
(* What the window manager guarantees for any number of outputs and        *)
(* windows, whatever the order of their events and however often outputs   *)
(* come and go: every window is in one list, the seat points at no window  *)
(* that is gone, what fills an output fills the one it is on, no orphan is *)
(* left behind, and no sequence ends with a wish or the focus forgotten.   *)
(***************************************************************************)
EXTENDS WindowManager, SequenceLemmas

(***************************************************************************)
(* The inductive invariant, in parts.                                      *)
(***************************************************************************)

\* TypeOK, variable by variable.
Typed ==
  /\ pc \in {"idle", "outputs", "adopt", "fill", "closing", "orphans",
             "seats", "windows", "stashed", "crashed"}
  /\ cursor \in Nat
  /\ tail \in Seq(Window \cup Output)
  /\ under \in Output \cup {None} /\ dropped \in Window \cup {None}
  /\ mOutputs \in Seq(Output)
  /\ freed \subseteq Output
  /\ removed \subseteq Live
  /\ geometryChanged \subseteq Live
  /\ mMainOutput \in Output \cup {None}
  /\ windows \in [Output -> SUBSET Window]
  /\ minimizedWindows \in [Output -> SUBSET Window]
  /\ mOrphanedWindows \in Seq(Window)
  /\ work \subseteq Window /\ allocated \subseteq Window
  /\ destroyed \subseteq Window /\ isNew \subseteq Window
  /\ closed \subseteq Window /\ maximized \subseteq Window
  /\ minimized \subseteq Window /\ fullscreen \subseteq Window
  /\ wantMaximized \subseteq Window /\ wantMinimized \subseteq Window
  /\ wantFullscreen \subseteq Window /\ queueMinimize \subseteq Window
  /\ moveRequested \subseteq Window /\ resizeRequested \subseteq Window
  /\ dragged \subseteq Window
  /\ fills \in [Window -> Output \cup {None}]
  /\ wantFullscreenOutput \in [Window -> Output \cup {None}]
  /\ pendingNav \in [Window -> {"none", "max", "min"}]
  /\ seat \in {"absent", "new", "ready"}
  /\ mMainOutputChanged \in BOOLEAN /\ seatRemoved \in BOOLEAN
  /\ opRelease \in BOOLEAN
  /\ focused \in Window \cup {None} /\ hovered \in Window \cup {None}
  /\ interacted \in Window \cup {None} /\ holding \in Window \cup {None}
  /\ pointerWindow \in Window \cup {None} /\ opWindow \in Window \cup {None}
  /\ pendingAction \in {"none", "focus_next", "move", "resize"}
  /\ op \in {"none", "move", "resize"}

Alive   == allocated \ destroyed
All(o)  == windows[o] \cup minimizedWindows[o]
Orphans == ToSet(mOrphanedWindows)

\* Each output is listed once, and until it is deleted; only an output that
\* has been listed has windows.
OutputsListed ==
  /\ Once(mOutputs)
  /\ Live \cap freed = {}
  /\ mMainOutput \in Live \cup freed \cup {None}
  /\ \A o \in Output \ (Live \cup freed) : All(o) = {}
  /\ \A o \in freed : minimizedWindows[o] = {} /\ windows[o] \subseteq isNew

\* ListedOnce, list by list.
WindowsListed ==
  /\ \A o \in Output : All(o) \subseteq Alive
  /\ \A o, p \in Output : o # p => All(o) \cap All(p) = {}
  /\ Once(mOrphanedWindows)
  /\ Orphans \subseteq Alive
  /\ \A o \in Output : All(o) \cap Orphans = {}
  /\ Alive \subseteq Orphans \cup UNION {All(o) : o \in Output}

\* What has been deleted has no state left.
Lifetimes ==
  /\ destroyed \subseteq allocated
  /\ closed \cup isNew \cup maximized \cup minimized \cup fullscreen \subseteq Alive
  /\ IsFiniteSet(allocated)

\* A window that a manage sequence can get to; the others are on an output
\* that has been deleted.
Placed(w) == w \in Orphans \/ \E o \in Live : w \in All(o)

\* What the loops of a manage sequence still have before them.
Visits ==
  /\ pc \notin {"outputs", "orphans", "crashed"} => tail = <<>>
  /\ pc \in {"outputs", "orphans"} => cursor # 0
  /\ pc = "orphans" => ToSet(tail) \subseteq Orphans \cup destroyed /\ work = {}
  /\ pc = "closing" => \A w \in work : \E o \in Live : w \in All(o)
  /\ pc = "windows" => \A w \in work : \E o \in Live : w \in windows[o]
  /\ pc = "stashed" => work \subseteq Orphans

\* Once it has been read, the output under the pointer is one that is there.
UnderListed ==
  pc \in {"fill", "closing", "orphans", "windows", "stashed"} => under \in UnderPointer

\* SeatPointersAlive, and that what is dragged has been managed.
Pointers ==
  /\ SeatPointersAlive
  /\ {hovered, opWindow} \subseteq Alive \cup {None}
  /\ hovered \notin closed \cup isNew
  /\ opWindow \notin isNew

Inv ==
  /\ Typed /\ OutputsListed /\ WindowsListed /\ Lifetimes
  /\ MinimizedListed /\ Visits /\ UnderListed /\ Pointers

(***************************************************************************)
(* Types: the steps that need no more than the types before them.          *)
(***************************************************************************)

\* The types part by part are those of TypeOK.
LEMMA TypedIsTypeOK == Typed => TypeOK
<1> SUFFICES ASSUME Typed PROVE TypeOK
  OBVIOUS
<1>1. {freed, removed, geometryChanged} \subseteq SUBSET Output
  BY ToSetFacts DEF Typed, Live
<1>2. removed \cup geometryChanged \subseteq ToSet(mOutputs)
  BY DEF Typed, Live
<1>3. {work, allocated, destroyed, isNew, closed, maximized, minimized,
       fullscreen, wantMaximized, wantMinimized, wantFullscreen,
       queueMinimize, moveRequested, resizeRequested, dragged}
        \subseteq SUBSET Window
  BY DEF Typed
<1>4. {focused, hovered, interacted, holding, pointerWindow, opWindow}
        \subseteq Window \cup {None}
  BY DEF Typed
<1> QED BY <1>1, <1>2, <1>3, <1>4 DEF TypeOK, Typed

\* The window manager starts with every variable in its type.
LEMMA InitTyped == Init => Typed
<1> SUFFICES ASSUME Init PROVE Typed
  OBVIOUS
<1>1. /\ windows \in [Output -> SUBSET Window]
      /\ minimizedWindows \in [Output -> SUBSET Window]
      /\ fills \in [Window -> Output \cup {None}]
      /\ wantFullscreenOutput \in [Window -> Output \cup {None}]
      /\ pendingNav \in [Window -> {"none", "max", "min"}]
  BY DEF Init
<1>2. /\ tail \in Seq(Window \cup Output) /\ mOutputs \in Seq(Output)
      /\ mOrphanedWindows \in Seq(Window)
  BY DEF Init
<1> QED BY <1>1, <1>2 DEF Init, Typed

\* The events of outputs keep the types.
LEMMA OutputEventTyped ==
  ASSUME Typed, NEW o \in Output, OutputEvent(o)
  PROVE  Typed'
<1> USE NoneAssumption DEF Typed, Idle, loop, noted, main, outs, lists, life, state,
                           wants, pointed, oper, seats, Live, Usable
<1>1. CASE OutputAnnounced(o)
  <2>1. mOutputs' \in Seq(Output) /\ ToSet(mOutputs) \subseteq ToSet(mOutputs')
    BY <1>1, ToSetFacts DEF OutputAnnounced
  <2> QED
  BY <1>1, <2>1 DEF OutputAnnounced
<1>2. CASE OutputRemoved(o)
  BY <1>2 DEF OutputRemoved
<1>3. CASE OutputPosition(o)
  BY <1>3 DEF OutputPosition, Moved
<1>4. CASE OutputDimensions(o)
  <2>1. geometryChanged' \subseteq Live'
    BY <1>4 DEF OutputDimensions, Moved
  <2>2. fills' \in [Window -> Output \cup {None}] /\ mMainOutput' \in Output \cup {None}
        /\ mMainOutputChanged' \in BOOLEAN
    BY <1>4 DEF OutputDimensions, Moved
  <2> QED BY <1>4, <2>1, <2>2 DEF OutputDimensions, Moved
<1> QED BY <1>1, <1>2, <1>3, <1>4 DEF OutputEvent

\* The events of windows keep the types.
LEMMA WindowEventTyped ==
  ASSUME Typed, NEW w \in Window, WindowEvent(w)
  PROVE  Typed'
<1> USE NoneAssumption DEF Typed, Idle, loop, noted, main, outs, lists, life, state,
                           wants, pointed, oper, seats, Live, Usable, Open, Put
<1>1. CASE WindowCreated(w)
  <2>1. CASE mMainOutput = None
    <3>1. mOrphanedWindows' = Append(mOrphanedWindows, w) /\ UNCHANGED windows
      BY <1>1, <2>1 DEF WindowCreated
    <3>2. mOrphanedWindows' \in Seq(Window)
      BY <3>1
    <3> QED BY <1>1, <3>1, <3>2 DEF WindowCreated
  <2>2. CASE mMainOutput # None
    <3>1. windows' \in [Output -> SUBSET Window] /\ UNCHANGED mOrphanedWindows
      BY <1>1, <2>2 DEF WindowCreated
    <3> QED BY <1>1, <3>1 DEF WindowCreated
  <2> QED BY <2>1, <2>2
<1>2. CASE WindowClosed(w)
  BY <1>2 DEF WindowClosed
<1>3. CASE MaximizeRequested(w)
  BY <1>3 DEF MaximizeRequested, Request
<1>4. CASE FullscreenRequested(w)
  <2>1. wantFullscreenOutput' \in [Window -> Output \cup {None}]
    BY <1>4, ToSetFacts DEF FullscreenRequested
  <2> QED BY <1>4, <2>1 DEF FullscreenRequested, Request
<1>5. CASE ExitFullscreenRequested(w)
  BY <1>5 DEF ExitFullscreenRequested, Request
<1>6. CASE MinimizeRequested(w)
  BY <1>6 DEF MinimizeRequested, Request
<1>7. CASE PointerOpRequested(w)
  BY <1>7 DEF PointerOpRequested, Request
<1>8. CASE IconClicked(w)
  BY <1>8 DEF IconClicked
<1> QED BY <1>1, <1>2, <1>3, <1>4, <1>5, <1>6, <1>7, <1>8 DEF WindowEvent

\* The seat's events and bindings keep the types.
LEMMA SeatInputTyped ==
  ASSUME Typed, SeatInput
  PROVE  Typed'
<1> USE NoneAssumption DEF Typed, Idle, loop, noted, main, outs, lists, life, state,
                           wants, pointed, oper, seats, Live, Usable, Open, Put, SeatEvent
<1>1. CASE SeatAnnounced
  BY <1>1 DEF SeatAnnounced
<1>2. CASE SeatRemoved
  BY <1>2 DEF SeatRemoved
<1>3. CASE OpReleased
  BY <1>3 DEF OpReleased
<1>4. ASSUME NEW w \in Window, WindowInteraction(w) PROVE Typed'
  BY <1>4 DEF WindowInteraction
<1>5. ASSUME NEW w \in Window \cup {None}, PointerEntersWindow(w) PROVE Typed'
  BY <1>5 DEF PointerEntersWindow
<1>6. ASSUME NEW w \in Window \cup {None}, PointerEntersDecoration(w) PROVE Typed'
  BY <1>6 DEF PointerEntersDecoration
<1>7. ASSUME NEW button \in {"none", "max", "min"}, ButtonReleased(button) PROVE Typed'
  BY <1>7 DEF ButtonReleased
<1>8. ASSUME NEW button \in {"none", "max", "min"}, NEW a \in {"move", "resize"},
             BindingReleased(a, button) PROVE Typed'
  <2>1. CASE Crash
    BY <2>1 DEF Crash
  <2>2. CASE ~Crash
    <3>1. pendingNav' \in [Window -> {"none", "max", "min"}]
      BY <1>8, <2>2 DEF BindingReleased
    <3> QED BY <1>8, <2>2, <3>1 DEF BindingReleased
  <2> QED BY <2>1, <2>2
<1>9. ASSUME NEW a \in {"focus_next", "move", "resize"}, BindingPressed(a) PROVE Typed'
  BY <1>9 DEF BindingPressed
<1> QED BY <1>1, <1>2, <1>3, <1>4, <1>5, <1>6, <1>7, <1>8, <1>9 DEF SeatInput

\* Rendering, the start of a sequence and that of the loop over the orphans
\* keep the types.
LEMMA OutsideLoopsTyped ==
  ASSUME Typed, WritesFreedOutput \/ RenderStart \/ ManageStart \/ StartOrphans
  PROVE  Typed'
<1> USE NoneAssumption DEF Typed, Idle, loop, noted, main, outs, lists, life, state,
                           wants, pointed, oper, seats, Live
<1>1. CASE WritesFreedOutput
  BY <1>1 DEF WritesFreedOutput, Crash
<1>2. CASE RenderStart
  BY <1>2 DEF RenderStart
<1>3. CASE ManageStart
  BY <1>3 DEF ManageStart
<1>4. CASE StartOrphans
  BY <1>4 DEF StartOrphans
<1> QED BY <1>1, <1>2, <1>3, <1>4

(***************************************************************************)
(* Facts about the operators of the model.                                 *)
(***************************************************************************)

(***************************************************************************)
(* What the operators return, and what they do to the lists.               *)
(***************************************************************************)

\* The listed outputs are outputs.
LEMMA LiveFacts == Typed => Live \subseteq Output /\ None \notin Live
  BY ToSetFacts, NoneAssumption DEF Typed, Live

\* output_of finds the one output a window is on.
LEMMA OutputOfFacts ==
  ASSUME Typed, WindowsListed, NEW w \in Window
  PROVE  /\ \A o \in Live : w \in All(o) => OutputOf(w) = o
         /\ (\A o \in Live : w \notin All(o)) => OutputOf(w) = None
         /\ OutputOf(w) # None => OutputOf(w) \in Live /\ w \in All(OutputOf(w))
<1> DEFINE O == {o \in Live : w \in windows[o] \cup minimizedWindows[o]}
<1>1. OutputOf(w) = IF O = {} THEN None ELSE CHOOSE o \in O : TRUE
  BY DEF OutputOf
<1>2. \A o, p \in O : o = p
  BY LiveFacts DEF WindowsListed, All
<1>3. \A o \in O : OutputOf(w) = o
  BY <1>1, <1>2
<1>4. O = {} => OutputOf(w) = None
  BY <1>1
<1>5. OutputOf(w) # None => OutputOf(w) \in O
  BY <1>3, <1>4
<1> QED BY <1>3, <1>4, <1>5 DEF All

\* The first of some outputs is one of them.
LEMMA FirstFacts ==
  ASSUME Typed, NEW S \in SUBSET Live
  PROVE  /\ S = {} => First(S) = None
         /\ S # {} => First(S) \in S
<1> DEFINE I == {i \in DOMAIN mOutputs : mOutputs[i] \in S}
<1>1. First(S) = IF I = {} THEN None
                 ELSE mOutputs[CHOOSE i \in I : \A j \in I : i <= j]
  BY DEF First
<1>2. I \in SUBSET Nat
  BY DEF Typed
<1>3. CASE S = {}
  BY <1>1, <1>3
<1>4. CASE S # {}
  <2>1. PICK n \in I : TRUE
    BY <1>4 DEF Live, ToSet
  <2>2. \E x \in I : \A y \in I : x <= y
    BY <1>2, <2>1, LeastNatural
  <2>3. (CHOOSE i \in I : \A j \in I : i <= j) \in I
    BY <2>2
  <2> QED BY <1>1, <1>4, <2>1, <2>3
<1> QED BY <1>3, <1>4

\* What a sequence can get to is on no output that has been deleted.
LEMMA PlacedFacts ==
  ASSUME Typed, OutputsListed, WindowsListed, NEW w \in Window
  PROVE  /\ Placed(w) => \A o \in Output \ Live : w \notin All(o)
         /\ w \in Alive \ isNew => Placed(w)
         /\ Placed(w) => w \in Alive
<1>1. ASSUME Placed(w), NEW o \in Output \ Live PROVE w \notin All(o)
  BY <1>1, LiveFacts DEF Placed, WindowsListed
<1>2. ASSUME w \in Alive \ isNew PROVE Placed(w)
  <2>1. CASE w \in Orphans
    BY <2>1 DEF Placed
  <2>2. CASE \E o \in Output : w \in All(o)
    <3>1. PICK o \in Output : w \in All(o)
      BY <2>2
    <3>2. o \in Live
      BY <1>2, <3>1 DEF OutputsListed, All
    <3> QED BY <3>1, <3>2 DEF Placed
  <2> QED BY <1>2, <2>1, <2>2 DEF WindowsListed
<1>3. ASSUME Placed(w) PROVE w \in Alive
  BY <1>3, LiveFacts DEF Placed, WindowsListed
<1> QED BY <1>1, <1>2, <1>3

\* What deleting an output does to the lists.
LEMMA DestroyOutputFacts ==
  ASSUME Inv, NEW o \in removed, DestroyOutput(o)
  PROVE  /\ mOutputs' \in Seq(Output) /\ Once(mOutputs') /\ Live' = Live \ {o}
         /\ tail' \in Seq(Window \cup Output)
         /\ o \in Live /\ freed' = freed \cup {o}
         /\ removed' = removed \ {o} /\ geometryChanged' = geometryChanged \ {o}
         /\ \/ /\ Usable = {}
               /\ windows' = [windows EXCEPT ![o] = {}]
               /\ minimizedWindows' = [minimizedWindows EXCEPT ![o] = {}]
               /\ mOrphanedWindows' \in Seq(Window) /\ Once(mOrphanedWindows')
               /\ Orphans' = Orphans \cup All(o)
               /\ UNCHANGED <<fills, dragged>>
            \/ \E target \in Usable :
                 /\ windows' = [windows EXCEPT ![o] = {},
                                 ![target] = @ \cup (All(o) \ minimized)]
                 /\ minimizedWindows' = [minimizedWindows EXCEPT ![o] = {},
                                 ![target] = @ \cup (All(o) \cap minimized)]
                 /\ ApplyGeometry(All(o), target)
                 /\ UNCHANGED mOrphanedWindows
<1> USE DEF Inv
<1>1. o \in Live /\ o \in Output
  BY LiveFacts DEF Typed
<1>2. Len(mOutputs) \in 1 .. Len(mOutputs)
  BY <1>1 DEF Typed, Live, ToSet
<1>3. /\ mOutputs' \in Seq(Output) /\ Once(mOutputs') /\ Live' = Live \ {o}
  <2>1. mOutputs' = RemoveFirst(mOutputs, o)
    BY DEF DestroyOutput
  <2> QED BY <2>1, RemoveFirstFacts DEF Typed, OutputsListed, Live
<1>4. tail' \in Seq(Window \cup Output)
  <2>1. Last(mOutputs) \in Output
    BY <1>2 DEF Last, Typed
  <2>2. tail' = <<Last(mOutputs)>> \o tail
    BY DEF DestroyOutput
  <2> QED BY <2>1, <2>2 DEF Typed
<1>5. CASE First(Usable) = None
  <2>1. Usable = {}
    BY <1>5, FirstFacts, LiveFacts DEF Usable
  <2>2. PICK order \in SetToSeqs(All(o)) : mOrphanedWindows' = mOrphanedWindows \o order
    BY <1>5 DEF DestroyOutput, All
  <2>3. IsFiniteSet(All(o))
    BY <1>1, FS_Subset DEF WindowsListed, Lifetimes, Alive
  <2>4. order \in Seq(All(o)) /\ ToSet(order) = All(o) /\ Once(order)
    BY <2>3, OrderingFacts
  <2>5. order \in Seq(Window)
    BY <1>1, <2>4 DEF Typed, All
  <2>6. /\ mOrphanedWindows' \in Seq(Window) /\ Once(mOrphanedWindows')
        /\ Orphans' = Orphans \cup All(o)
    BY <1>1, <2>2, <2>4, <2>5, ToSetFacts, OnceFacts
    DEF Typed, WindowsListed, Orphans
  <2> QED BY <1>1, <1>3, <1>4, <1>5, <2>1, <2>6 DEF DestroyOutput
<1>6. CASE First(Usable) # None
  <2>1. First(Usable) \in Usable
    BY <1>6, FirstFacts, LiveFacts DEF Usable
  <2>2. /\ windows' = [windows EXCEPT ![o] = {},
                          ![First(Usable)] = @ \cup (All(o) \ minimized)]
        /\ minimizedWindows' = [minimizedWindows EXCEPT ![o] = {},
                          ![First(Usable)] = @ \cup (All(o) \cap minimized)]
    BY <1>6 DEF DestroyOutput, All
  <2> QED BY <1>1, <1>3, <1>4, <1>6, <2>1, <2>2 DEF DestroyOutput, All
<1> QED BY <1>5, <1>6

\* What deleting a window does to the lists.
LEMMA DestroyWindowFacts ==
  ASSUME Inv, NEW w \in Window, Placed(w), DestroyWindow(w)
  PROVE  /\ mOrphanedWindows' \in Seq(Window) /\ Once(mOrphanedWindows')
         /\ Orphans' = Orphans \ {w}
         /\ windows' = [o \in Output |-> windows[o] \ {w}]
         /\ minimizedWindows' = [o \in Output |-> minimizedWindows[o] \ {w}]
<1> USE DEF Inv
<1>1. /\ mOrphanedWindows' \in Seq(Window) /\ Once(mOrphanedWindows')
      /\ Orphans' = Orphans \ {w}
  <2>1. mOrphanedWindows' = RemoveFirst(mOrphanedWindows, w)
    BY DEF DestroyWindow
  <2> QED BY <2>1, RemoveFirstFacts DEF Typed, WindowsListed, Orphans
<1>2. \A o \in Output \ Live : w \notin windows[o] /\ w \notin minimizedWindows[o]
  BY PlacedFacts DEF All
<1>3. windows' = [o \in Output |-> windows[o] \ {w}]
  BY <1>2 DEF DestroyWindow
<1>4. minimizedWindows' = [o \in Output |-> minimizedWindows[o] \ {w}]
  BY <1>2 DEF DestroyWindow
<1> QED BY <1>1, <1>3, <1>4

\* Where a window is after it has been placed.
LEMMA PlaceFacts ==
  ASSUME Inv, NEW w \in Window, Placed(w), NEW to, NEW hide \in BOOLEAN,
         Place(w, to, hide)
  PROVE  /\ windows' = [o \in Output |-> IF o = to /\ ~hide THEN windows[o] \cup {w}
                                         ELSE windows[o] \ {w}]
         /\ minimizedWindows' =
              [o \in Output |-> IF o = to /\ hide THEN minimizedWindows[o] \cup {w}
                               ELSE minimizedWindows[o] \ {w}]
<1> USE DEF Inv
<1>1. \A o \in Output \ Live : w \notin windows[o] /\ w \notin minimizedWindows[o]
  BY PlacedFacts DEF All
<1>2. windows' = [o \in Output |-> IF o = to /\ ~hide THEN windows[o] \cup {w}
                                  ELSE windows[o] \ {w}]
  BY <1>1 DEF Place, Put
<1>3. minimizedWindows' =
        [o \in Output |-> IF o = to /\ hide THEN minimizedWindows[o] \cup {w}
                         ELSE minimizedWindows[o] \ {w}]
  BY <1>1 DEF Place, Put
<1> QED BY <1>2, <1>3

\* Moving windows to an output keeps the lists lists of windows.
LEMMA ApplyGeometryTyped ==
  ASSUME Typed, NEW S, NEW o \in Output, ApplyGeometry(S, o)
  PROVE  fills' \in [Window -> Output \cup {None}] /\ dragged' \subseteq Window
  BY DEF Typed, ApplyGeometry

\* A round of the loop over mOutputs keeps the types.
LEMMA VisitOutputTyped ==
  ASSUME Inv, VisitOutput
  PROVE  Typed'
<1> USE NoneAssumption DEF loop, noted, main, outs, lists, life, state, wants, pointed,
                           oper, seats
<1>1. CASE Crash
  BY <1>1 DEF Crash, Live, Inv, Typed
<1>2. ASSUME NEW o \in removed, DestroyOutput(o), Advance, UNCHANGED <<life, wants, seats>>
      PROVE Typed'
  <2>1. o \in Output /\ All(o) \subseteq Window
    BY <1>2, LiveFacts DEF Inv, Typed, All
  <2>2. /\ windows' \in [Output -> SUBSET Window]
        /\ minimizedWindows' \in [Output -> SUBSET Window]
        /\ mOrphanedWindows' \in Seq(Window)
        /\ fills' \in [Window -> Output \cup {None}] /\ dragged' \subseteq Window
    <3>1. CASE /\ windows' = [windows EXCEPT ![o] = {}]
               /\ minimizedWindows' = [minimizedWindows EXCEPT ![o] = {}]
               /\ mOrphanedWindows' \in Seq(Window)
               /\ UNCHANGED <<fills, dragged>>
      BY <2>1, <3>1 DEF Inv, Typed
    <3>2. ASSUME NEW target \in Usable,
                 windows' = [windows EXCEPT ![o] = {},
                               ![target] = @ \cup (All(o) \ minimized)],
                 minimizedWindows' = [minimizedWindows EXCEPT ![o] = {},
                               ![target] = @ \cup (All(o) \cap minimized)],
                 ApplyGeometry(All(o), target),
                 UNCHANGED mOrphanedWindows
          PROVE  /\ windows' \in [Output -> SUBSET Window]
                 /\ minimizedWindows' \in [Output -> SUBSET Window]
                 /\ mOrphanedWindows' \in Seq(Window)
                 /\ fills' \in [Window -> Output \cup {None}] /\ dragged' \subseteq Window
      <4>1. target \in Output
        BY LiveFacts DEF Inv, Usable
      <4>2. fills' \in [Window -> Output \cup {None}] /\ dragged' \subseteq Window
        BY <3>2, <4>1, ApplyGeometryTyped DEF Inv
      <4>3. windows' \in [Output -> SUBSET Window]
        BY <2>1, <3>2, <4>1 DEF Inv, Typed
      <4>4. minimizedWindows' \in [Output -> SUBSET Window]
        BY <2>1, <3>2, <4>1 DEF Inv, Typed
      <4> QED BY <3>2, <4>2, <4>3, <4>4 DEF Inv, Typed
    <3> QED BY <1>2, <3>1, <3>2, DestroyOutputFacts
  <2>3. /\ mOutputs' \in Seq(Output) /\ freed' \subseteq Output
        /\ tail' \in Seq(Window \cup Output) /\ removed' \subseteq Live'
        /\ geometryChanged' \subseteq Live'
    BY <1>2, <2>1, DestroyOutputFacts DEF Inv, Typed
  <2> QED BY <1>2, <2>2, <2>3 DEF DestroyOutput, Advance, noted, Inv, Typed
<1>3. CASE Advance /\ UNCHANGED <<tail, outs, lists, life, state, wants, seats>>
  BY <1>3 DEF Advance, noted, Inv, Live, Typed
<1> QED BY <1>1, <1>2, <1>3 DEF VisitOutput

\* What adopting the orphans does to the lists.
LEMMA AdoptOrphansFacts ==
  ASSUME Typed, AdoptOrphans
  PROVE  \/ \E target \in Usable :
              /\ windows' = [windows EXCEPT ![target] = @ \cup (Orphans \ minimized)]
              /\ minimizedWindows' = [minimizedWindows EXCEPT
                                        ![target] = @ \cup (Orphans \cap minimized)]
              /\ mOrphanedWindows' = <<>>
              /\ ApplyGeometry(Orphans, target)
         \/ /\ Usable = {} \/ mOrphanedWindows = <<>>
            /\ UNCHANGED <<lists, fills, dragged>>
<1>1. /\ under' \in UnderPointer
      /\ \/ /\ under' # None /\ Orphans # {}
            /\ windows' = [windows EXCEPT ![under'] = @ \cup (Orphans \ minimized)]
            /\ minimizedWindows' = [minimizedWindows EXCEPT
                                      ![under'] = @ \cup (Orphans \cap minimized)]
            /\ mOrphanedWindows' = <<>>
            /\ ApplyGeometry(Orphans, under')
         \/ /\ under' = None \/ Orphans = {}
            /\ UNCHANGED <<lists, fills, dragged>>
  BY DEF AdoptOrphans, Orphans
<1>2. under' = None => Usable = {}
  BY <1>1, LiveFacts DEF UnderPointer, Usable
<1>3. under' # None => under' \in Usable
  BY <1>1 DEF UnderPointer
<1>4. Orphans = {} => mOrphanedWindows = <<>>
  BY ToSetFacts DEF Orphans, Typed
<1> QED BY <1>1, <1>2, <1>3, <1>4

\* output_adopt_orphans keeps the types.
LEMMA AdoptOrphansTyped ==
  ASSUME Typed, AdoptOrphans
  PROVE  Typed'
<1>1. Orphans \subseteq Window
  BY ToSetFacts DEF Orphans, Typed
<1>2. /\ windows' \in [Output -> SUBSET Window]
      /\ minimizedWindows' \in [Output -> SUBSET Window]
      /\ mOrphanedWindows' \in Seq(Window)
      /\ fills' \in [Window -> Output \cup {None}] /\ dragged' \subseteq Window
  <2>1. ASSUME NEW target \in Usable,
               windows' = [windows EXCEPT ![target] = @ \cup (Orphans \ minimized)],
               minimizedWindows' = [minimizedWindows EXCEPT
                                      ![target] = @ \cup (Orphans \cap minimized)],
               mOrphanedWindows' = <<>>,
               ApplyGeometry(Orphans, target)
        PROVE  /\ windows' \in [Output -> SUBSET Window]
               /\ minimizedWindows' \in [Output -> SUBSET Window]
               /\ mOrphanedWindows' \in Seq(Window)
               /\ fills' \in [Window -> Output \cup {None}] /\ dragged' \subseteq Window
    <3>1. target \in Output
      BY LiveFacts DEF Usable
    <3>2. fills' \in [Window -> Output \cup {None}] /\ dragged' \subseteq Window
      BY <2>1, <3>1, ApplyGeometryTyped
    <3>3. windows' \in [Output -> SUBSET Window]
      BY <1>1, <2>1, <3>1 DEF Typed
    <3>4. minimizedWindows' \in [Output -> SUBSET Window]
      BY <1>1, <2>1, <3>1 DEF Typed
    <3> QED BY <2>1, <3>2, <3>3, <3>4
  <2>2. CASE UNCHANGED <<lists, fills, dragged>>
    BY <2>2 DEF lists, Typed
  <2> QED BY <2>1, <2>2, AdoptOrphansFacts
<1>3. under' \in Output \cup {None}
  BY LiveFacts DEF AdoptOrphans, UnderPointer, Usable
<1> QED BY <1>2, <1>3 DEF AdoptOrphans, Typed, Live, outs, main, life, wants, pointed,
                          oper, seats

\* The loop that fits windows to changed outputs keeps the types.
LEMMA FillOutputsTyped ==
  ASSUME Typed, WindowsListed, FillOutputs
  PROVE  Typed'
<1> USE NoneAssumption DEF Typed, loop, noted, main, outs, lists, life, state, wants,
                           pointed, oper, seats
<1>1. work' \subseteq Window
  BY LiveFacts DEF FillOutputs
<1>2. PICK due \in SUBSET Window :
        /\ fills' = [w \in Window |-> IF w \in due THEN OutputOf(w) ELSE fills[w]]
        /\ dragged' = dragged \ due
  BY <1>1 DEF FillOutputs
<1>3. \A w \in Window : OutputOf(w) \in Output \cup {None}
  BY LiveFacts, OutputOfFacts
<1> QED BY <1>1, <1>2, <1>3 DEF FillOutputs, Live

\* Deleting a window that is in a list keeps the types.
LEMMA DestroyWindowTyped ==
  ASSUME Inv, NEW w \in Window, Placed(w), DestroyWindow(w)
  PROVE  /\ windows' \in [Output -> SUBSET Window]
         /\ minimizedWindows' \in [Output -> SUBSET Window]
         /\ mOrphanedWindows' \in Seq(Window)
         /\ destroyed' \subseteq Window /\ isNew' \subseteq Window
         /\ closed' \subseteq Window /\ maximized' \subseteq Window
         /\ minimized' \subseteq Window /\ fullscreen' \subseteq Window
         /\ dragged' \subseteq Window /\ fills' \in [Window -> Output \cup {None}]
         /\ wantMaximized' \subseteq Window /\ wantMinimized' \subseteq Window
         /\ wantFullscreen' \subseteq Window /\ queueMinimize' \subseteq Window
         /\ moveRequested' \subseteq Window /\ resizeRequested' \subseteq Window
         /\ wantFullscreenOutput' \in [Window -> Output \cup {None}]
         /\ pendingNav' \in [Window -> {"none", "max", "min"}]
         /\ pointerWindow' \in Window \cup {None} /\ opWindow' \in Window \cup {None}
         /\ op' \in {"none", "move", "resize"}
         /\ UNCHANGED <<allocated, seat, seatRemoved, interacted, hovered, holding,
                        pendingAction, opRelease>>
<1> USE DEF Inv, Typed
<1>1. /\ windows' \in [Output -> SUBSET Window]
      /\ minimizedWindows' \in [Output -> SUBSET Window]
      /\ mOrphanedWindows' \in Seq(Window)
  BY DestroyWindowFacts
<1>2. /\ pointerWindow' \in Window \cup {None} /\ opWindow' \in Window \cup {None}
      /\ op' \in {"none", "move", "resize"}
  BY DEF DestroyWindow, SeatForgets
<1>3. /\ fills' \in [Window -> Output \cup {None}]
      /\ wantFullscreenOutput' \in [Window -> Output \cup {None}]
      /\ pendingNav' \in [Window -> {"none", "max", "min"}]
  BY DEF DestroyWindow
<1> QED BY <1>1, <1>2, <1>3 DEF DestroyWindow

\* A window of the closing loop is deleted, restored or left: the types hold.
LEMMA CloseOrRestoreTyped ==
  ASSUME Inv, NEW w \in Window, CloseOrRestore(w)
  PROVE  Typed'
<1>0. (\E o \in Live : w \in All(o)) /\ Placed(w)
  BY DEF CloseOrRestore, Inv, Visits, Placed
<1>1. CASE Crash
  BY <1>1 DEF Crash, Live, Inv, Typed, loop, noted, main, outs, lists, life, state,
              wants, pointed, oper, seats
<1>2. CASE /\ DestroyWindow(w) /\ UNCHANGED <<pc, cursor, tail, noted, outs>>
           /\ work' = work \ {w}
           /\ focused' = IF focused = w \/ w \in queueMinimize \cap minimized
                         THEN None ELSE focused
  BY <1>0, <1>2, DestroyWindowTyped DEF Inv, Typed, Live, noted, outs, main
<1>3. CASE /\ ToggleMinimized(w, OutputOf(w)) /\ UNCHANGED <<pc, cursor, tail, noted, outs>>
           /\ work' = work \ {w}
           /\ UNCHANGED <<mOrphanedWindows, life, maximized, fullscreen,
                          fills, dragged, wantMaximized, wantFullscreen,
                          wantFullscreenOutput, pendingNav, moveRequested,
                          resizeRequested, seat, seatRemoved, interacted,
                          pointed, pendingAction, oper>>
  <2>1. OutputOf(w) \in Output
    BY <1>0, OutputOfFacts, LiveFacts DEF Inv
  <2>2. /\ windows' \in [Output -> SUBSET Window]
        /\ minimizedWindows' \in [Output -> SUBSET Window]
        /\ minimized' \subseteq Window /\ wantMinimized' \subseteq Window
        /\ focused' \in Window \cup {None}
    BY <1>3, <2>1 DEF ToggleMinimized, FocusAfterHiding, Put, Inv, Typed
  <2>3. queueMinimize' \subseteq Window
    <3>1. minimizedWindows'[OutputOf(w)] \subseteq Window
      BY <2>1, <2>2
    <3> QED BY <1>3, <3>1 DEF ToggleMinimized, Inv, Typed
  <2> QED BY <1>3, <2>2, <2>3 DEF Inv, Typed, Live, noted, outs, main, life, pointed, oper
<1>4. CASE /\ UNCHANGED <<pc, cursor, tail, noted, outs>> /\ work' = work \ {w}
           /\ UNCHANGED <<lists, life, state, wants, seats>>
  BY <1>4 DEF Inv, Typed, Live, noted, main, outs, lists, life, state, wants, pointed,
              oper, seats
<1> QED BY <1>1, <1>2, <1>3, <1>4 DEF CloseOrRestore

\* A closed window that the loop over the orphans comes upon is one of them.
LEMMA VisitOrphanFacts ==
  ASSUME Inv, pc = "orphans", cursor <= Len(mOrphanedWindows \o tail),
         NEW w, w = (mOrphanedWindows \o tail)[cursor], w \in Alive
  PROVE  w \in Window /\ w \in Orphans /\ Placed(w) /\ Last(mOrphanedWindows) \in Orphans
<1>1. mOrphanedWindows \in Seq(Window \cup Output) /\ tail \in Seq(Window \cup Output)
  BY DEF Inv, Typed
<1>2. cursor \in 1 .. Len(mOrphanedWindows \o tail)
  BY <1>1 DEF Inv, Visits, Typed
<1>3. w \in ToSet(mOrphanedWindows \o tail)
  BY <1>1, <1>2 DEF ToSet
<1>4. w \in Orphans \cup ToSet(tail)
  <2>1. ToSet(mOrphanedWindows \o tail) = ToSet(mOrphanedWindows) \cup ToSet(tail)
    BY <1>1, ToSetFacts
  <2> QED BY <1>3, <2>1 DEF Orphans
<1>5. w \in Orphans
  BY <1>4 DEF Inv, Visits, Alive
<1>6. Len(mOrphanedWindows) \in 1 .. Len(mOrphanedWindows)
  BY <1>5 DEF Orphans, ToSet, Inv, Typed
<1>7. Last(mOrphanedWindows) \in Orphans
  BY <1>6 DEF Orphans, Last, ToSet, Inv, Typed
<1> QED BY <1>5, <1>7, ToSetFacts DEF Placed, Orphans, Inv, Typed

\* A round of the loop over the orphans keeps the types.
LEMMA VisitOrphanTyped ==
  ASSUME Inv, VisitOrphan
  PROVE  Typed'
<1> DEFINE storage == mOrphanedWindows \o tail
           w == storage[cursor]
<1>1. CASE Crash
  BY <1>1 DEF Crash, Live, Inv, Typed, loop, noted, main, outs, lists, life, state,
              wants, pointed, oper, seats
<1>2. CASE /\ w \in closed /\ DestroyWindow(w) /\ Advance /\ UNCHANGED outs
           /\ tail' = <<Last(mOrphanedWindows)>> \o tail
           /\ focused' = IF focused = w THEN None ELSE focused
           /\ pc = "orphans" /\ cursor <= Len(storage)
  <2>1. w \in Window /\ Placed(w) /\ Last(mOrphanedWindows) \in Window
    <3>1. w \in Alive
      BY <1>2 DEF Inv, Lifetimes
    <3>2. Orphans \subseteq Window
      BY ToSetFacts DEF Orphans, Inv, Typed
    <3> HIDE DEF w
    <3> QED BY <1>2, <3>1, <3>2, VisitOrphanFacts DEF w
  <2>2. tail' \in Seq(Window \cup Output)
    BY <1>2, <2>1 DEF Inv, Typed
  <2> HIDE DEF w
  <2> QED BY <1>2, <2>1, <2>2, DestroyWindowTyped
         DEF Inv, Typed, Live, noted, outs, main, Advance
<1>3. CASE Advance /\ UNCHANGED <<tail, outs, lists, life, state, wants, seats>>
  BY <1>3 DEF Advance, Inv, Typed, Live, noted, main, outs, lists, life, state, wants,
              pointed, oper, seats
<1> QED BY <1>1, <1>2, <1>3 DEF VisitOrphan

\* The remaining steps between the loops keep the types.
LEMMA LoopStepsTyped ==
  ASSUME Typed, DestroySeat \/ NextOutput \/ ManageNoSeat
  PROVE  Typed'
<1> USE DEF Typed, Live, loop, noted, main, outs, lists, life, state, wants, pointed,
            oper, seats
<1>1. CASE DestroySeat
  <2>1. CASE Crash
    BY <2>1 DEF Crash
  <2>2. CASE /\ pc' = "windows" /\ cursor' = 0 /\ tail' = <<>>
             /\ UNCHANGED <<seats, work, noted, outs, lists, life, state, wants>>
    BY <2>2
  <2>3. CASE /\ pc' = "windows" /\ cursor' = 0 /\ tail' = <<>>
             /\ seat' = "absent" /\ seatRemoved' = FALSE
             /\ focused' = None /\ interacted' = None
             /\ hovered' = None /\ holding' = None /\ pointerWindow' = None
             /\ pendingAction' = "none"
             /\ op' = "none" /\ opWindow' = None /\ opRelease' = FALSE
             /\ UNCHANGED <<work, noted, outs, lists, life, state, wants>>
    <3>1. tail' \in Seq(Window \cup Output)
      BY <2>3
    <3>2. UNCHANGED <<work, noted, outs, lists, life, state, wants>>
      BY <2>3
    <3>3. /\ pc' = "windows" /\ cursor' = 0
          /\ seat' = "absent" /\ seatRemoved' = FALSE
          /\ focused' = None /\ interacted' = None
          /\ hovered' = None /\ holding' = None /\ pointerWindow' = None
          /\ pendingAction' = "none"
          /\ op' = "none" /\ opWindow' = None /\ opRelease' = FALSE
      BY <2>3
    <3> QED BY <3>1, <3>2, <3>3
  <2> QED BY <1>1, <2>1, <2>2, <2>3 DEF DestroySeat
<1>2. CASE NextOutput
  <2>1. CASE cursor < Len(mOutputs) /\ cursor' = cursor + 1
             /\ work' = windows[mOutputs[cursor']] /\ UNCHANGED pc
    <3>1. mOutputs[cursor'] \in Output
      BY <2>1
    <3> QED BY <1>2, <2>1, <3>1 DEF NextOutput
  <2>2. CASE cursor' = 0 /\ work' = ToSet(mOrphanedWindows) /\ pc' = "stashed"
    BY <1>2, <2>2, ToSetFacts DEF NextOutput
  <2> QED BY <1>2, <2>1, <2>2 DEF NextOutput
<1>3. CASE ManageNoSeat
  <2>1. CASE Crash
    BY <2>1 DEF Crash
  <2>2. CASE ManageDone /\ dropped' = None /\ UNCHANGED <<lists, dragged, seats>>
    <3>1. pc' = "idle" /\ mMainOutputChanged' = FALSE
      BY <2>2 DEF ManageDone
    <3>2. /\ UNCHANGED <<cursor, tail, work, under, mOutputs, mMainOutput, freed, removed>>
          /\ UNCHANGED <<geometryChanged, allocated, destroyed, isNew, closed>>
      BY <2>2 DEF ManageDone
    <3>3. UNCHANGED <<maximized, minimized, fullscreen, fills, dragged, wants>>
      BY <2>2 DEF ManageDone
    <3>4. UNCHANGED <<lists, seats>>
      BY <2>2
    <3>5. /\ pc' \in {"idle", "outputs", "adopt", "fill", "closing", "orphans",
                      "seats", "windows", "stashed", "crashed"}
          /\ mMainOutputChanged' \in BOOLEAN /\ dropped' \in Window \cup {None}
      BY <2>2, <3>1
    <3> HIDE DEF Live, loop, noted, main, outs, life, state
    <3>6. UNCHANGED <<Live, cursor, tail, work, under>>
      BY <3>2 DEF Live
    <3> QED BY <3>2, <3>3, <3>4, <3>5, <3>6
  <2> QED BY <1>3, <2>1, <2>2 DEF ManageNoSeat
<1> QED BY <1>1, <1>2, <1>3

\* What managing a window does to the lists, and to which flags.
LEMMA WindowManageFacts ==
  ASSUME Inv, NEW w \in Window, Placed(w), WindowManage(w)
  PROVE  /\ \/ /\ \A o \in Live : w \notin All(o)
               /\ UNCHANGED <<windows, minimizedWindows, minimized>>
            \/ \E to \in Live, hide \in BOOLEAN :
                 /\ \E o \in Live : w \in All(o)
                 /\ Place(w, to, hide)
                 /\ minimized' = Put(minimized, w, hide)
                 /\ w \in minimized => hide
         /\ UNCHANGED <<mOrphanedWindows, allocated, destroyed, closed, queueMinimize>>
         /\ isNew' = isNew \ {w}
<1> DEFINE out  == OutputOf(w)
           hint == wantFullscreenOutput[w]
<1>1. CASE out = None
  <2>1. /\ UNCHANGED <<windows, minimizedWindows>>
        /\ minimized' = Put(minimized, w, w \in minimized)
    BY <1>1 DEF WindowManage
  <2>2. \A o \in Live : w \notin All(o)
    BY <1>1, OutputOfFacts, LiveFacts DEF Inv
  <2>3. UNCHANGED minimized
    BY <2>1 DEF Put
  <2> QED BY <2>1, <2>2, <2>3 DEF WindowManage
<1>2. CASE out # None
  <2>1. out \in Live /\ w \in All(out)
    BY <1>2, OutputOfFacts DEF Inv
  <2>2. PICK to \in {hint, out}, hide \in BOOLEAN :
          /\ to # out => to \in Usable
          /\ Place(w, to, hide \/ w \in minimized)
          /\ minimized' = Put(minimized, w, hide \/ w \in minimized)
    BY <1>2 DEF WindowManage
  <2>3. to \in Live
    BY <2>1, <2>2 DEF Usable
  <2> QED BY <2>1, <2>2, <2>3 DEF WindowManage
<1> QED BY <1>1, <1>2

\* What managing a window leaves typed.
LEMMA WindowManageTyped ==
  ASSUME Inv, NEW w \in Window, Placed(w), WindowManage(w),
         UNCHANGED <<pc, cursor, tail, noted, outs>>, work' = work \ {w}
  PROVE Typed'
<1> USE DEF Inv, Typed
<1> DEFINE out == OutputOf(w)
<1>0. out \in Output \cup {None}
  BY OutputOfFacts, LiveFacts
<1>1. /\ wantMaximized' \subseteq Window /\ wantMinimized' \subseteq Window
      /\ maximized' \subseteq Window /\ fullscreen' \subseteq Window
      /\ dragged' \subseteq Window
  BY DEF WindowManage, Put
<1>2. /\ windows' \in [Output -> SUBSET Window]
      /\ minimizedWindows' \in [Output -> SUBSET Window]
      /\ minimized' \subseteq Window
  <2>1. CASE UNCHANGED <<windows, minimizedWindows, minimized>>
    BY <2>1
  <2>2. ASSUME NEW to \in Live, NEW hide \in BOOLEAN, Place(w, to, hide),
               minimized' = Put(minimized, w, hide)
        PROVE  /\ windows' \in [Output -> SUBSET Window]
               /\ minimizedWindows' \in [Output -> SUBSET Window]
               /\ minimized' \subseteq Window
    BY <2>2 DEF Place, Put
  <2> QED BY <2>1, <2>2, WindowManageFacts
<1>6. fills' \in [Window -> Output \cup {None}]
  <2>1. PICK f : /\ f \in {out, wantFullscreenOutput[w], fills[w], None}
                 /\ fills' = [fills EXCEPT ![w] = f]
    <3> HIDE DEF out
    <3> QED BY DEF WindowManage, out
  <2> HIDE DEF out
  <2> QED BY <1>0, <2>1
<1>3. /\ wantFullscreenOutput' \in [Window -> Output \cup {None}]
      /\ pendingNav' \in [Window -> {"none", "max", "min"}]
  BY DEF WindowManage
<1>4. /\ interacted' \in Window \cup {None}
      /\ focused' \in Window \cup {None} /\ opWindow' \in Window \cup {None}
      /\ op' \in {"none", "move", "resize"}
  BY DEF WindowManage, FocusAfterHiding
<1>5. /\ isNew' = isNew \ {w} /\ moveRequested' = moveRequested \ {w}
      /\ resizeRequested' = resizeRequested \ {w}
      /\ UNCHANGED <<mOrphanedWindows, allocated, destroyed, closed,
                     wantFullscreen, queueMinimize, seat, seatRemoved, hovered,
                     holding, pointerWindow, pendingAction, opRelease>>
  BY DEF WindowManage, pointed
<1> QED BY <1>1, <1>2, <1>3, <1>4, <1>5, <1>6 DEF Live, noted, outs, main

\* What the end of a sequence does to the lists, the focus and the operation.
LEMMA ManageSeatFacts ==
  ASSUME Inv, ManageSeat, pc' # "crashed"
  PROVE  /\ ManageDone /\ seat' = "ready" /\ interacted' = None
         /\ interacted \notin destroyed
         /\ pendingAction' = "none" /\ opRelease' = FALSE
         /\ UNCHANGED <<seatRemoved, pointed>>
         /\ \/ focused' = interacted /\ interacted # None
            \/ focused' = focused /\ focused # None
            \/ under \in Usable /\ focused' \in windows[under]
            \/ /\ (Usable = {} /\ under = None) \/ (under \in Usable /\ windows[under] = {})
               /\ focused' = None
         /\ opWindow' \in {hovered, opWindow, None}
         /\ op' \in {pendingAction, op, "none"} /\ op' # "focus_next"
         /\ op' = "none" <=> opWindow' = None
         /\ \/ dropped' = None /\ UNCHANGED <<lists, dragged>>
            \/ \E w \in Window : \E out \in Usable :
                 /\ dropped' = w /\ Placed(w) /\ out # OutputOf(w)
                 /\ Place(w, out, w \in minimized)
                 /\ mOrphanedWindows' = RemoveFirst(mOrphanedWindows, w)
                 /\ dragged' = Put(dragged, w, Fills(w))
<1> DEFINE start  == pendingAction \in {"move", "resize"} /\ op = "none"
                       /\ hovered # None
           newOp  == IF start THEN pendingAction ELSE op
           target == IF start THEN hovered ELSE opWindow
<1>1. ~Crash
  BY DEF Crash
<1>2. /\ ManageDone /\ seat' = "ready" /\ interacted' = None
      /\ interacted \notin destroyed
      /\ pendingAction' = "none" /\ opRelease' = FALSE
      /\ UNCHANGED <<seatRemoved, pointed>>
  BY <1>1 DEF ManageSeat
<1>3. (Usable = {} /\ under = None) \/ (under \in Usable /\ under # None)
  BY LiveFacts DEF ManageSeat, Inv, UnderListed, UnderPointer, Usable
<1>4. \/ focused' = interacted /\ interacted # None
      \/ focused' = focused /\ focused # None
      \/ under \in Usable /\ focused' \in windows[under]
      \/ /\ (Usable = {} /\ under = None) \/ (under \in Usable /\ windows[under] = {})
         /\ focused' = None
  <2>1. focused' \in NextFocus
    BY <1>1 DEF ManageSeat
  <2> QED BY <1>3, <2>1 DEF NextFocus, Top
<1>5. \/ /\ newOp # "none" /\ op' = "none" /\ opWindow' = None
         /\ \/ dropped' = None /\ UNCHANGED <<lists, dragged>>
            \/ \E out \in Usable \ {OutputOf(target)} :
                 /\ dropped' = target
                 /\ Place(target, out, target \in minimized)
                 /\ mOrphanedWindows' = RemoveFirst(mOrphanedWindows, target)
                 /\ dragged' = Put(dragged, target, Fills(target))
      \/ /\ op' = newOp /\ opWindow' = target /\ dropped' = None
         /\ UNCHANGED <<lists, dragged>>
  BY <1>1 DEF ManageSeat
<1>6. newOp = "none" <=> target = None
  BY DEF Inv, Pointers, SeatPointersAlive
<1>7. newOp # "none" => target \in Window /\ Placed(target)
  <2>1. newOp # "none" => target \in Alive \ isNew
    BY <1>6 DEF Inv, Pointers
  <2>2. Alive \subseteq Window
    BY DEF Alive, Inv, Typed
  <2> HIDE DEF target, newOp
  <2> QED BY <2>1, <2>2, PlacedFacts DEF Inv
<1>8. /\ opWindow' \in {hovered, opWindow, None}
      /\ op' \in {pendingAction, op, "none"} /\ op' # "focus_next"
      /\ op' = "none" <=> opWindow' = None
  BY <1>5, <1>6 DEF Inv, Typed
<1>9. \/ dropped' = None /\ UNCHANGED <<lists, dragged>>
      \/ \E w \in Window : \E out \in Usable :
            /\ dropped' = w /\ Placed(w) /\ out # OutputOf(w)
            /\ Place(w, out, w \in minimized)
            /\ mOrphanedWindows' = RemoveFirst(mOrphanedWindows, w)
            /\ dragged' = Put(dragged, w, Fills(w))
  <2> HIDE DEF target, newOp
  <2> QED BY <1>5, <1>7
<1> QED BY <1>2, <1>4, <1>8, <1>9

\* The end of a sequence, with a seat, keeps the types.
LEMMA ManageSeatTyped ==
  ASSUME Inv, ManageSeat
  PROVE  Typed'
<1> USE DEF Inv, Typed
<1>1. CASE pc' = "crashed"
  <2>1. Crash
    BY <1>1 DEF ManageSeat, ManageDone
  <2> QED BY <2>1 DEF Crash, Live, loop, noted, main, outs, lists, life, state, wants,
                      pointed, oper, seats
<1>2. CASE pc' # "crashed"
  <2>1. focused' \in Window \cup {None} /\ dropped' \in Window \cup {None}
    BY <1>2, LiveFacts, ManageSeatFacts DEF Usable
  <2>2. /\ windows' \in [Output -> SUBSET Window]
        /\ minimizedWindows' \in [Output -> SUBSET Window]
        /\ mOrphanedWindows' \in Seq(Window) /\ dragged' \subseteq Window
    <3>1. CASE UNCHANGED <<lists, dragged>>
      BY <3>1 DEF lists
    <3>2. ASSUME NEW w \in Window, NEW out \in Usable,
                 Place(w, out, w \in minimized),
                 mOrphanedWindows' = RemoveFirst(mOrphanedWindows, w),
                 dragged' = Put(dragged, w, Fills(w))
          PROVE  /\ windows' \in [Output -> SUBSET Window]
                 /\ minimizedWindows' \in [Output -> SUBSET Window]
                 /\ mOrphanedWindows' \in Seq(Window) /\ dragged' \subseteq Window
      <4>1. mOrphanedWindows' \in Seq(Window)
        BY <3>2, RemoveFirstFacts DEF WindowsListed
      <4> QED BY <3>2, <4>1 DEF Place, Put
    <3> QED BY <1>2, <3>1, <3>2, ManageSeatFacts
  <2> QED BY <1>2, <2>1, <2>2, ManageSeatFacts
          DEF ManageDone, Live, main, life, wants, pointed
<1> QED BY <1>1, <1>2

(***************************************************************************)
(* The lists and the lifetimes.                                            *)
(***************************************************************************)

ListsInv == OutputsListed /\ WindowsListed /\ Lifetimes /\ MinimizedListed

listed == <<mOutputs, freed, mMainOutput, lists, allocated, destroyed, isNew,
            closed, maximized, minimized, fullscreen, queueMinimize>>

\* The lists start empty.
LEMMA InitLists == Init => ListsInv
<1> SUFFICES ASSUME Init PROVE ListsInv
  OBVIOUS
<1>1. Once(<<>>) /\ ToSet(<<>>) = {}
  BY OnceFacts, ToSetFacts
<1>2. Live = {} /\ Orphans = {} /\ Alive = {} /\ \A o \in Output : All(o) = {}
  BY <1>1 DEF Init, Live, Orphans, Alive, All
<1>3. IsFiniteSet({})
  BY FS_EmptySet
<1> QED BY <1>1, <1>2, <1>3
        DEF Init, ListsInv, OutputsListed, WindowsListed, Lifetimes, MinimizedListed

\* What leaves the lists and lifetimes alone keeps them in order.
LEMMA ListsKept ==
  ASSUME ListsInv, UNCHANGED listed
  PROVE  ListsInv'
  BY DEF ListsInv, listed, lists, OutputsListed, WindowsListed, Lifetimes,
         MinimizedListed, Live, Orphans, Alive, All

\* The window is moved, within its output's lists or to another's.
LEMMA MoveKeepsLists ==
  ASSUME Inv, NEW w \in Window, Placed(w), NEW to \in Live, NEW hide \in BOOLEAN,
         windows' = [o \in Output |-> IF o = to /\ ~hide THEN windows[o] \cup {w}
                                     ELSE windows[o] \ {w}],
         minimizedWindows' =
           [o \in Output |-> IF o = to /\ hide THEN minimizedWindows[o] \cup {w}
                            ELSE minimizedWindows[o] \ {w}],
         Once(mOrphanedWindows'), Orphans' = Orphans \ {w},
         minimized' = Put(minimized, w, hide),
         isNew \ {w} \subseteq isNew', isNew' \subseteq isNew,
         maximized' \subseteq maximized \cup {w}, fullscreen' \subseteq fullscreen \cup {w},
         queueMinimize' \subseteq minimized',
         UNCHANGED <<mOutputs, freed, mMainOutput, allocated, destroyed, closed>>
  PROVE  ListsInv'
<1> USE DEF Inv
<1>1. to \in Output /\ to \notin freed /\ w \in Alive
  BY LiveFacts, PlacedFacts DEF OutputsListed
<1>2. /\ Live' = Live /\ Alive' = Alive
      /\ \A o \in Output : All(o)' = IF o = to THEN All(o) \cup {w} ELSE All(o) \ {w}
  BY DEF Live, Alive, All
<1>3. OutputsListed'
  <2>1. \A o \in Output \ (Live' \cup freed') : All(o)' = {}
    BY <1>2 DEF OutputsListed
  <2>2. \A o \in freed' : minimizedWindows'[o] = {} /\ windows'[o] \subseteq isNew'
    BY <1>1 DEF OutputsListed, Typed
  <2> QED BY <1>2, <2>1, <2>2 DEF OutputsListed
<1>4. WindowsListed'
  BY <1>1, <1>2 DEF WindowsListed
<1>5. Lifetimes'
  BY <1>1, <1>2 DEF Lifetimes, Put
<1>6. MinimizedListed'
  <2>1. \A o \in Output : minimizedWindows'[o] \subseteq minimized'
    BY DEF MinimizedListed, Put
  <2>2. \A o \in Output : windows'[o] \cap minimized' = {}
    BY <1>1 DEF MinimizedListed, Put
  <2> QED BY <2>1, <2>2 DEF MinimizedListed
<1> QED BY <1>3, <1>4, <1>5, <1>6 DEF ListsInv

\* The window is deleted.
LEMMA DestroyWindowKeepsLists ==
  ASSUME Inv, NEW w \in Window, Placed(w), DestroyWindow(w), UNCHANGED outs
  PROVE  ListsInv'
<1> USE DEF Inv
<1>1. /\ Once(mOrphanedWindows') /\ Orphans' = Orphans \ {w}
      /\ windows' = [o \in Output |-> windows[o] \ {w}]
      /\ minimizedWindows' = [o \in Output |-> minimizedWindows[o] \ {w}]
  BY DestroyWindowFacts
<1>2. w \in Alive
  BY PlacedFacts
<1>3. /\ destroyed' = destroyed \cup {w} /\ isNew' = isNew \ {w}
      /\ closed' = closed \ {w} /\ maximized' = maximized \ {w}
      /\ minimized' = minimized \ {w} /\ fullscreen' = fullscreen \ {w}
      /\ queueMinimize' = queueMinimize \ {w}
      /\ UNCHANGED <<allocated, mOutputs, freed, mMainOutput>>
  BY DEF DestroyWindow, outs, main
<1>4. /\ Live' = Live /\ Alive' = Alive \ {w}
      /\ \A o \in Output : All(o)' = All(o) \ {w}
  BY <1>1, <1>3 DEF Live, Alive, All
<1>5. OutputsListed'
  <2>1. \A o \in freed' : minimizedWindows'[o] = {} /\ windows'[o] \subseteq isNew'
    BY <1>1, <1>3 DEF OutputsListed, Typed
  <2> QED BY <1>3, <1>4, <2>1 DEF OutputsListed
<1>6. WindowsListed'
  BY <1>1, <1>4 DEF WindowsListed
<1>7. Lifetimes'
  BY <1>2, <1>3, <1>4 DEF Lifetimes, Alive
<1>8. MinimizedListed'
  BY <1>1, <1>3 DEF MinimizedListed
<1> QED BY <1>5, <1>6, <1>7, <1>8 DEF ListsInv

\* A new output is listed once, without windows.
LEMMA OutputAnnouncedKeepsLists ==
  ASSUME Inv, NEW o \in Output, OutputAnnounced(o)
  PROVE  ListsInv'
<1> USE DEF Inv
<1>1. /\ o \notin Live \cup freed /\ mOutputs' = Append(mOutputs, o)
      /\ UNCHANGED <<freed, mMainOutput, lists, life, maximized, minimized,
                     fullscreen, queueMinimize>>
  BY DEF OutputAnnounced, main, state, wants
<1>2. Live' = Live \cup {o} /\ Once(mOutputs')
  BY <1>1, ToSetFacts, OnceFacts DEF Typed, OutputsListed, Live
<1>3. All(o) = {}
  BY <1>1 DEF OutputsListed
<1>4. OutputsListed'
  BY <1>1, <1>2, <1>3 DEF OutputsListed, All, lists, life
<1>5. WindowsListed' /\ Lifetimes' /\ MinimizedListed'
  BY <1>1 DEF WindowsListed, Lifetimes, MinimizedListed, All, Alive, Orphans, lists, life
<1> QED BY <1>4, <1>5 DEF ListsInv

\* A new window is put in one list.
LEMMA WindowCreatedKeepsLists ==
  ASSUME Inv, NEW w \in Window, WindowCreated(w)
  PROVE  ListsInv'
<1> USE DEF Inv
<1>1. /\ w \notin allocated /\ allocated' = allocated \cup {w}
      /\ isNew' = isNew \cup {w}
      /\ UNCHANGED <<mOutputs, freed, mMainOutput, minimizedWindows, destroyed, closed,
                     maximized, minimized, fullscreen, queueMinimize>>
  BY DEF WindowCreated, outs, main, state, wants
<1>2. Live' = Live /\ Alive' = Alive \cup {w} /\ w \notin Alive /\ w \notin minimized
  BY <1>1 DEF Live, Alive, Lifetimes
<1>3. Lifetimes'
  BY <1>1, <1>2, FS_AddElement DEF Lifetimes
<1>4. CASE mMainOutput = None /\ mOrphanedWindows' = Append(mOrphanedWindows, w)
           /\ UNCHANGED windows
  <2>1. w \notin Orphans
    BY <1>2 DEF WindowsListed
  <2>2. Orphans' = Orphans \cup {w} /\ Once(mOrphanedWindows')
    BY <1>4, <2>1, ToSetFacts, OnceFacts DEF Typed, WindowsListed, Orphans
  <2>3. \A o \in Output : All(o)' = All(o)
    BY <1>1, <1>4 DEF All
  <2>4. OutputsListed'
    BY <1>1, <1>2, <1>4, <2>3 DEF OutputsListed
  <2>5. WindowsListed'
    BY <1>2, <2>2, <2>3 DEF WindowsListed
  <2>6. MinimizedListed'
    BY <1>1, <1>4 DEF MinimizedListed
  <2> QED BY <1>3, <2>4, <2>5, <2>6 DEF ListsInv
<1>5. CASE mMainOutput # None /\ UNCHANGED mOrphanedWindows
           /\ windows' = [windows EXCEPT ![mMainOutput] = @ \cup {w}]
  <2>1. mMainOutput \in Live \cup freed /\ mMainOutput \in Output
    BY <1>5 DEF OutputsListed, Typed
  <2>2. \A o \in Output : All(o)' = IF o = mMainOutput THEN All(o) \cup {w} ELSE All(o)
    BY <1>1, <1>5, <2>1 DEF All, Typed
  <2>3. Orphans' = Orphans
    BY <1>5 DEF Orphans
  <2>4. OutputsListed'
    BY <1>1, <1>2, <1>5, <2>1, <2>2 DEF OutputsListed, Typed
  <2>5. WindowsListed'
    <3>1. \A o, p \in Output : o # p => All(o)' \cap All(p)' = {}
      BY <1>2, <2>2 DEF WindowsListed
    <3>2. Alive' \subseteq Orphans' \cup UNION {All(o)' : o \in Output}
      BY <1>2, <2>1, <2>2, <2>3 DEF WindowsListed
    <3> QED BY <1>2, <1>5, <2>2, <2>3, <3>1, <3>2 DEF WindowsListed
  <2>6. MinimizedListed'
    BY <1>1, <1>2, <1>5, <2>1 DEF MinimizedListed, Typed
  <2> QED BY <1>3, <2>4, <2>5, <2>6 DEF ListsInv
<1> QED BY <1>4, <1>5 DEF WindowCreated

\* The minimized windows and the others of a deleted output go to the
\* orphans, but for the new ones, which stay behind.
LEMMA DestroyOutputKeepsLists ==
  ASSUME Inv, NEW o \in removed, DestroyOutput(o), UNCHANGED <<life, wants>>
  PROVE  ListsInv'
<1> USE DEF Inv
<1>1. /\ o \in Live /\ o \in Output /\ o \notin freed
      /\ Once(mOutputs') /\ Live' = Live \ {o} /\ freed' = freed \cup {o}
  BY DestroyOutputFacts, LiveFacts DEF OutputsListed
<1>2. UNCHANGED <<mMainOutput, allocated, destroyed, isNew, closed, maximized,
                  minimized, fullscreen, queueMinimize>>
  BY DEF DestroyOutput, main, life, wants
<1>3. Alive' = Alive /\ Lifetimes'
  BY <1>2 DEF Alive, Lifetimes
<1>4. CASE /\ windows' = [windows EXCEPT ![o] = {}]
           /\ minimizedWindows' = [minimizedWindows EXCEPT ![o] = {}]
           /\ Once(mOrphanedWindows') /\ Orphans' = Orphans \cup All(o)
  <2>1. \A p \in Output : All(p)' = IF p = o THEN {} ELSE All(p)
    BY <1>1, <1>4 DEF All, Typed
  <2>2. OutputsListed'
    BY <1>1, <1>2, <1>4, <2>1 DEF OutputsListed, Typed
  <2>3. WindowsListed'
    <3>1. Alive \subseteq Orphans' \cup UNION {All(p)' : p \in Output}
      BY <1>1, <1>4, <2>1 DEF WindowsListed
    <3> QED BY <1>1, <1>3, <1>4, <2>1, <3>1 DEF WindowsListed
  <2>4. MinimizedListed'
    BY <1>1, <1>2, <1>4 DEF MinimizedListed, Typed
  <2> QED BY <1>3, <2>2, <2>3, <2>4 DEF ListsInv
<1>5. ASSUME NEW target \in Usable,
             windows' = [windows EXCEPT ![o] = {},
                           ![target] = @ \cup (All(o) \ minimized)],
             minimizedWindows' = [minimizedWindows EXCEPT ![o] = {},
                           ![target] = @ \cup (All(o) \cap minimized)],
             UNCHANGED mOrphanedWindows
      PROVE  ListsInv'
  <2>1. target \in Output /\ target # o /\ target \in Live /\ target \notin freed
    BY LiveFacts DEF Usable, OutputsListed
  <2>2. /\ windows'[o] = {} /\ minimizedWindows'[o] = {}
        /\ windows'[target] = windows[target] \cup (All(o) \ minimized)
        /\ minimizedWindows'[target] =
             minimizedWindows[target] \cup (All(o) \cap minimized)
        /\ \A p \in Output \ {o, target} :
             /\ windows'[p] = windows[p]
             /\ minimizedWindows'[p] = minimizedWindows[p]
    BY <1>1, <1>5, <2>1 DEF Typed
  <2>3. /\ All(o)' = {} /\ All(target)' = All(target) \cup All(o)
        /\ \A p \in Output \ {o, target} : All(p)' = All(p)
    BY <2>2 DEF All
  <2>4. Orphans' = Orphans
    BY <1>5 DEF Orphans
  <2>5. OutputsListed'
    <3>1. \A p \in freed' : minimizedWindows'[p] = {} /\ windows'[p] \subseteq isNew'
      <4> SUFFICES ASSUME NEW p \in freed, p # o
                   PROVE  minimizedWindows'[p] = {} /\ windows'[p] \subseteq isNew'
        BY <1>1, <2>2
      <4>1. p \in Output \ {o, target}
        BY <2>1 DEF Typed
      <4> QED BY <1>2, <2>2, <4>1 DEF OutputsListed
    <3>2. \A p \in Output \ (Live' \cup freed') : All(p)' = {}
      <4> SUFFICES ASSUME NEW p \in Output \ (Live \cup freed), p # o
                   PROVE  All(p)' = {}
        BY <1>1
      <4>1. p \in Output \ {o, target}
        BY <2>1
      <4> QED BY <2>3, <4>1 DEF OutputsListed
    <3> QED BY <1>1, <1>2, <3>1, <3>2 DEF OutputsListed
  <2>6. WindowsListed'
    <3>1. Alive \subseteq Orphans' \cup UNION {All(p)' : p \in Output}
      <4> SUFFICES ASSUME NEW w \in Alive, w \notin Orphans
                   PROVE  \E p \in Output : w \in All(p)'
        BY <2>4
      <4>1. PICK p \in Output : w \in All(p)
        BY DEF WindowsListed
      <4> QED BY <1>1, <2>1, <2>3, <4>1
    <3>2. \A p, q \in Output : p # q => All(p)' \cap All(q)' = {}
      BY <1>1, <2>1, <2>3 DEF WindowsListed
    <3>3. \A p \in Output : All(p)' \subseteq Alive /\ All(p)' \cap Orphans = {}
      BY <1>1, <2>1, <2>3 DEF WindowsListed
    <3> QED BY <1>3, <1>5, <2>4, <3>1, <3>2, <3>3 DEF WindowsListed
  <2>7. MinimizedListed'
    BY <1>2, <2>2 DEF MinimizedListed
  <2> QED BY <1>3, <2>5, <2>6, <2>7 DEF ListsInv
<1> QED BY <1>4, <1>5, DestroyOutputFacts

\* The orphans go to the main output, each to the list it belongs in.
LEMMA AdoptOrphansKeepsLists ==
  ASSUME Inv, AdoptOrphans
  PROVE  ListsInv'
<1> USE DEF Inv
<1>1. UNCHANGED <<mOutputs, freed, mMainOutput, allocated, destroyed, isNew, closed,
                  maximized, minimized, fullscreen, queueMinimize>>
  BY DEF AdoptOrphans, outs, main, life, wants
<1>2. Live' = Live /\ Alive' = Alive /\ Lifetimes'
  BY <1>1 DEF Live, Alive, Lifetimes
<1>3. CASE UNCHANGED <<lists, fills, dragged>>
  BY <1>1, <1>3, ListsKept DEF listed, lists, ListsInv
<1>4. ASSUME NEW target \in Usable,
             windows' = [windows EXCEPT ![target] = @ \cup (Orphans \ minimized)],
             minimizedWindows' = [minimizedWindows EXCEPT
                                    ![target] = @ \cup (Orphans \cap minimized)],
             mOrphanedWindows' = <<>>
      PROVE  ListsInv'
  <2>1. target \in Output /\ target \in Live /\ target \notin freed
    BY LiveFacts DEF Usable, OutputsListed
  <2>2. \A p \in Output : All(p)' = IF p = target THEN All(p) \cup Orphans ELSE All(p)
    BY <1>4, <2>1 DEF All, Typed
  <2>3. Orphans' = {} /\ Once(mOrphanedWindows')
    BY <1>4, ToSetFacts, OnceFacts DEF Orphans
  <2>4. OutputsListed'
    BY <1>1, <1>2, <1>4, <2>1, <2>2 DEF OutputsListed, Typed
  <2>5. WindowsListed'
    <3>1. Alive \subseteq UNION {All(p)' : p \in Output}
      <4> SUFFICES ASSUME NEW w \in Alive PROVE \E p \in Output : w \in All(p)'
        OBVIOUS
      <4>1. CASE w \in Orphans
        BY <2>1, <2>2, <4>1
      <4>2. CASE \E p \in Output : w \in All(p)
        BY <2>2, <4>2
      <4> QED BY <4>1, <4>2 DEF WindowsListed
    <3> QED BY <1>2, <2>2, <2>3, <3>1 DEF WindowsListed
  <2>6. MinimizedListed'
    BY <1>1, <1>4, <2>1 DEF MinimizedListed, Typed
  <2> QED BY <1>2, <2>4, <2>5, <2>6 DEF ListsInv
<1> QED BY <1>3, <1>4, AdoptOrphansFacts

\* Minimizing and restoring move a window between its output's lists.
LEMMA ToggleMinimizedKeepsLists ==
  ASSUME Inv, NEW w \in Window, NEW o \in Live, w \in All(o), ToggleMinimized(w, o),
         UNCHANGED <<outs, mOrphanedWindows, life, maximized, fullscreen>>
  PROVE  ListsInv'
<1> USE DEF Inv
<1>1. o \in Output /\ \A p \in Output : p # o => w \notin All(p)
  BY LiveFacts DEF WindowsListed
<1> DEFINE hide == w \notin minimized
<1>2. windows' = [p \in Output |-> IF p = o /\ ~hide THEN windows[p] \cup {w}
                                  ELSE windows[p] \ {w}]
  BY ZenonT(60), <1>1 DEF ToggleMinimized, Put, All, Typed
<1>3. minimizedWindows' =
        [p \in Output |-> IF p = o /\ hide THEN minimizedWindows[p] \cup {w}
                         ELSE minimizedWindows[p] \ {w}]
  BY ZenonT(60), <1>1 DEF ToggleMinimized, Put, All, Typed
<1>4. minimized' = Put(minimized, w, hide)
  BY DEF ToggleMinimized
<1>5. PICK S \in SUBSET minimizedWindows'[o] : queueMinimize' = (queueMinimize \ {w}) \cup S
  BY DEF ToggleMinimized
<1>6. queueMinimize' \subseteq minimized'
  BY <1>1, <1>3, <1>4, <1>5 DEF MinimizedListed, Put
<1>7. w \notin Orphans /\ Placed(w)
  BY <1>1 DEF WindowsListed, Placed
<1>8. Once(mOrphanedWindows') /\ Orphans' = Orphans \ {w}
  BY <1>7 DEF Orphans, WindowsListed
<1> HIDE DEF hide
<1>9. hide \in BOOLEAN
  BY DEF hide
<1> QED BY <1>2, <1>3, <1>4, <1>6, <1>7, <1>8, <1>9, MoveKeepsLists DEF outs, main, life

\* Managing a window moves it, within its output's lists or to another's.
LEMMA WindowManageKeepsLists ==
  ASSUME Inv, NEW w \in Window, Placed(w), WindowManage(w), UNCHANGED outs
  PROVE  ListsInv'
<1> USE DEF Inv
<1>1. /\ isNew' = isNew \ {w}
      /\ UNCHANGED <<mOutputs, freed, mMainOutput, mOrphanedWindows, allocated,
                     destroyed, closed, queueMinimize>>
  BY WindowManageFacts DEF outs, main
<1>2. maximized' \subseteq maximized \cup {w} /\ fullscreen' \subseteq fullscreen \cup {w}
  BY DEF WindowManage, Put
<1>3. CASE /\ \A o \in Live : w \notin All(o)
           /\ UNCHANGED <<windows, minimizedWindows, minimized>>
  <2>1. w \in Alive /\ \A o \in Output : w \notin All(o)
    BY <1>3, PlacedFacts
  <2>2. /\ Live' = Live /\ Alive' = Alive /\ Orphans' = Orphans
        /\ \A o \in Output : All(o)' = All(o)
    BY <1>1, <1>3 DEF Live, Alive, Orphans, All
  <2>3. OutputsListed'
    BY <1>1, <1>3, <2>1, <2>2 DEF OutputsListed, All, Typed
  <2>4. WindowsListed'
    BY <1>1, <2>2 DEF WindowsListed
  <2>5. Lifetimes'
    BY <1>1, <1>2, <1>3, <2>1, <2>2 DEF Lifetimes
  <2>6. MinimizedListed'
    BY <1>1, <1>3 DEF MinimizedListed
  <2> QED BY <2>3, <2>4, <2>5, <2>6 DEF ListsInv
<1>4. ASSUME NEW to \in Live, NEW hide \in BOOLEAN, \E o \in Live : w \in All(o),
             Place(w, to, hide), minimized' = Put(minimized, w, hide),
             w \in minimized => hide
      PROVE  ListsInv'
  <2>1. w \notin Orphans
    BY <1>4, LiveFacts DEF WindowsListed
  <2>2. Once(mOrphanedWindows') /\ Orphans' = Orphans \ {w}
    BY <1>1, <2>1 DEF Orphans, WindowsListed
  <2>3. queueMinimize' \subseteq minimized'
    BY <1>1, <1>4 DEF MinimizedListed, Put
  <2> QED BY <1>1, <1>2, <1>4, <2>2, <2>3, PlaceFacts, MoveKeepsLists
<1> QED BY <1>3, <1>4, WindowManageFacts

\* The end of a sequence moves what is dragged, and hides or restores one.
LEMMA ManageSeatKeepsLists ==
  ASSUME Inv, ManageSeat
  PROVE  ListsInv'
<1> USE DEF Inv
<1>1. CASE pc' = "crashed"
  <2>1. Crash
    BY <1>1 DEF ManageSeat, ManageDone
  <2> QED BY <2>1, ListsKept DEF Crash, ListsInv, listed, outs, main, lists, life, state, wants
<1>2. CASE pc' # "crashed"
  <2>1. UNCHANGED <<mOutputs, freed, mMainOutput, allocated, destroyed, isNew, closed,
                    maximized, minimized, fullscreen, queueMinimize>>
    BY <1>2, ManageSeatFacts DEF ManageDone, life, wants
  <2>2. CASE UNCHANGED lists
    BY <2>1, <2>2, ListsKept DEF listed, lists, ListsInv
  <2>3. ASSUME NEW w \in Window, NEW out \in Usable, Placed(w),
               Place(w, out, w \in minimized),
               mOrphanedWindows' = RemoveFirst(mOrphanedWindows, w)
        PROVE  ListsInv'
    <3>1. Once(mOrphanedWindows') /\ Orphans' = Orphans \ {w}
      BY <2>3, RemoveFirstFacts DEF Orphans, WindowsListed, Typed
    <3>2. out \in Live
      BY DEF Usable
    <3>3. minimized' = Put(minimized, w, w \in minimized)
      BY <2>1 DEF Put
    <3>4. queueMinimize' \subseteq minimized'
      BY <2>1 DEF MinimizedListed
    <3> DEFINE hide == w \in minimized
    <3>5. hide \in BOOLEAN /\ Place(w, out, hide) /\ minimized' = Put(minimized, w, hide)
      BY <2>3, <3>3
    <3> HIDE DEF hide
    <3>6. /\ windows' = [o \in Output |-> IF o = out /\ ~hide THEN windows[o] \cup {w}
                                         ELSE windows[o] \ {w}]
          /\ minimizedWindows' =
               [o \in Output |-> IF o = out /\ hide THEN minimizedWindows[o] \cup {w}
                                ELSE minimizedWindows[o] \ {w}]
      BY <2>3, <3>5, PlaceFacts
    <3>7. /\ isNew \ {w} \subseteq isNew' /\ isNew' \subseteq isNew
          /\ maximized' \subseteq maximized \cup {w}
          /\ fullscreen' \subseteq fullscreen \cup {w}
          /\ UNCHANGED <<mOutputs, freed, mMainOutput, allocated, destroyed, closed>>
      BY <2>1
    <3> QED BY <2>3, <3>1, <3>2, <3>4, <3>5, <3>6, <3>7, MoveKeepsLists
  <2> QED BY <1>2, <2>2, <2>3, ManageSeatFacts
<1> QED BY <1>1, <1>2

\* Every window a loop is about to visit can be got to.
LEMMA WorkPlaced ==
  ASSUME Inv, NEW w \in work, pc \in {"closing", "windows", "stashed"}
  PROVE  w \in Window /\ Placed(w)
  BY DEF Inv, Visits, Placed, All, Typed

\* The lists are in order after every step.
LEMMA ListsStep ==
  ASSUME Inv, [Next]_vars
  PROVE  ListsInv'
<1> USE DEF Inv
<1> DEFINE quiet == UNCHANGED listed
<1>1. quiet => ListsInv'
  BY ListsKept DEF ListsInv
<1>2. Crash \/ UNCHANGED vars => quiet
  BY DEF Crash, listed, vars, outs, main, lists, life, state, wants
<1>3. ASSUME NEW o \in Output, OutputEvent(o) PROVE ListsInv'
  <2>1. CASE OutputAnnounced(o)
    BY <2>1, OutputAnnouncedKeepsLists
  <2>2. CASE OutputRemoved(o)
    <3>1. quiet
      BY <2>2 DEF OutputRemoved, listed, main, lists, life, state, wants
    <3> QED BY <1>1, <3>1
  <2>3. CASE OutputPosition(o)
    <3>1. quiet
      BY <2>3 DEF OutputPosition, Moved, listed, main, lists, life, wants
    <3> QED BY <1>1, <3>1
  <2>4. CASE OutputDimensions(o)
    <3>1. /\ mMainOutput' \in {o, mMainOutput} /\ o \in Live
          /\ UNCHANGED <<mOutputs, freed, lists, life, maximized, minimized,
                         fullscreen, queueMinimize>>
      BY <2>4 DEF OutputDimensions, Moved, Usable, main, wants
    <3>2. OutputsListed'
      BY <3>1 DEF OutputsListed, Live, All, lists, life
    <3>3. WindowsListed' /\ Lifetimes' /\ MinimizedListed'
      BY <3>1 DEF WindowsListed, Lifetimes, MinimizedListed, Alive, Orphans, All,
                  lists, life
    <3> QED BY <3>2, <3>3 DEF ListsInv
  <2> QED BY <1>3, <2>1, <2>2, <2>3, <2>4 DEF OutputEvent
<1>4. ASSUME NEW w \in Window, WindowEvent(w) PROVE ListsInv'
  <2>1. CASE WindowCreated(w)
    BY <2>1, WindowCreatedKeepsLists
  <2>2. CASE WindowClosed(w)
    <3>1. /\ closed' = closed \cup {w} /\ w \in Alive
          /\ UNCHANGED <<mOutputs, freed, mMainOutput, lists, allocated, destroyed,
                         isNew, maximized, minimized, fullscreen, queueMinimize>>
      BY <2>2 DEF WindowClosed, Open, Alive, outs, main, state, wants
    <3>2. OutputsListed' /\ WindowsListed' /\ MinimizedListed'
      BY <3>1 DEF OutputsListed, WindowsListed, MinimizedListed, Live, Alive,
                  Orphans, All, lists
    <3>3. Lifetimes'
      BY <3>1 DEF Lifetimes, Alive
    <3> QED BY <3>2, <3>3 DEF ListsInv
  <2>3. CASE IconClicked(w)
    <3>1. /\ queueMinimize' = queueMinimize \cup {w}
          /\ \E o \in Live : w \in minimizedWindows[o]
          /\ UNCHANGED <<mOutputs, freed, mMainOutput, lists, life, maximized,
                         minimized, fullscreen>>
      BY <2>3 DEF IconClicked, outs, main, state
    <3>2. w \in minimized
      BY <3>1, LiveFacts DEF MinimizedListed
    <3>3. OutputsListed' /\ WindowsListed' /\ Lifetimes'
      BY <3>1 DEF OutputsListed, WindowsListed, Lifetimes, Live, Alive, Orphans,
                  All, lists, life
    <3>4. MinimizedListed'
      BY <3>1, <3>2 DEF MinimizedListed, lists
    <3> QED BY <3>3, <3>4 DEF ListsInv
  <2>4. CASE \/ MaximizeRequested(w) \/ FullscreenRequested(w)
             \/ ExitFullscreenRequested(w) \/ MinimizeRequested(w)
             \/ PointerOpRequested(w)
    <3>1. quiet
      BY <2>4 DEF MaximizeRequested, FullscreenRequested, ExitFullscreenRequested,
                  MinimizeRequested, PointerOpRequested, Request, listed, outs,
                  main, lists, life, state
    <3> QED BY <1>1, <3>1
  <2> QED BY <1>4, <2>1, <2>2, <2>3, <2>4 DEF WindowEvent
<1>5. CASE SeatInput
  <2>1. quiet
    BY <1>2, <1>5
       DEF SeatInput, SeatAnnounced, SeatRemoved, OpReleased, WindowInteraction,
           PointerEntersWindow, PointerEntersDecoration, ButtonReleased,
           BindingReleased, BindingPressed, SeatEvent, listed, outs, main, lists,
           life, state, wants
  <2> QED BY <1>1, <2>1
<1>6. CASE WritesFreedOutput \/ RenderStart \/ ManageStart \/ StartOrphans
           \/ DestroySeat \/ NextOutput
  <2>1. quiet
    BY <1>2, <1>6
       DEF WritesFreedOutput, RenderStart, ManageStart, StartOrphans, DestroySeat,
           NextOutput, listed, outs, main, lists, life, state, wants
  <2> QED BY <1>1, <2>1
<1>7. CASE ManageNoSeat
  <2>1. quiet
    BY <1>2, <1>7 DEF ManageNoSeat, ManageDone, listed, lists, life, wants
  <2> QED BY <1>1, <2>1
<1>8. CASE FillOutputs
  <2>1. quiet
    BY <1>8 DEF FillOutputs, listed, main, lists, life, wants
  <2> QED BY <1>1, <2>1
<1>9. CASE VisitOutput
  <2> DEFINE o == (mOutputs \o tail)[cursor]
  <2>1. CASE Crash
    BY <1>1, <1>2, <2>1
  <2>2. CASE o \in removed /\ DestroyOutput(o) /\ UNCHANGED <<life, wants>>
    <3> HIDE DEF o
    <3> QED BY <2>2, DestroyOutputKeepsLists
  <2>3. CASE UNCHANGED <<outs, lists, life, state, wants>>
    <3>1. quiet
      BY <2>3 DEF listed, outs, main, lists, life, state, wants
    <3> QED BY <1>1, <3>1
  <2> QED BY <1>9, <2>1, <2>2, <2>3 DEF VisitOutput
<1>10. ASSUME NEW w \in Window, CloseOrRestore(w) PROVE ListsInv'
  <2>1. CASE Crash
    BY <1>1, <1>2, <2>1
  <2>2. w \in work /\ pc = "closing"
    BY <1>10 DEF CloseOrRestore
  <2>3. Placed(w) /\ \E o \in Live : w \in All(o)
    BY <2>2, WorkPlaced DEF Visits
  <2>4. CASE DestroyWindow(w) /\ UNCHANGED outs
    BY <2>3, <2>4, DestroyWindowKeepsLists
  <2>5. CASE /\ ToggleMinimized(w, OutputOf(w))
             /\ UNCHANGED <<outs, mOrphanedWindows, life, maximized, fullscreen>>
    <3>1. OutputOf(w) \in Live /\ w \in All(OutputOf(w))
      BY <2>3, OutputOfFacts, LiveFacts
    <3> QED BY <2>5, <3>1, ToggleMinimizedKeepsLists
  <2>6. CASE UNCHANGED <<outs, lists, life, state, wants>>
    <3>1. quiet
      BY <2>6 DEF listed, outs, main, lists, life, state, wants
    <3> QED BY <1>1, <3>1
  <2> QED BY <1>10, <2>1, <2>4, <2>5, <2>6 DEF CloseOrRestore
<1>11. CASE VisitOrphan
  <2> DEFINE w == (mOrphanedWindows \o tail)[cursor]
  <2>1. CASE Crash
    BY <1>1, <1>2, <2>1
  <2>2. CASE /\ w \in closed /\ DestroyWindow(w) /\ UNCHANGED outs
             /\ pc = "orphans" /\ cursor <= Len(mOrphanedWindows \o tail)
    <3>1. w \in Alive
      BY <2>2 DEF Lifetimes
    <3>2. w \in Window /\ Placed(w)
      BY <2>2, <3>1, VisitOrphanFacts
    <3> HIDE DEF w
    <3> QED BY <2>2, <3>2, DestroyWindowKeepsLists
  <2>3. CASE UNCHANGED <<outs, lists, life, state, wants>>
    <3>1. quiet
      BY <2>3 DEF listed, outs, main, lists, life, state, wants
    <3> QED BY <1>1, <3>1
  <2> QED BY <1>11, <2>1, <2>2, <2>3 DEF VisitOrphan
<1>12. ASSUME NEW w \in Window, ManageWindow(w) PROVE ListsInv'
  <2>1. CASE Crash
    BY <1>1, <1>2, <2>1
  <2>2. CASE WindowManage(w) /\ UNCHANGED outs
    <3>1. Placed(w)
      BY <1>12, WorkPlaced DEF ManageWindow
    <3> QED BY <2>2, <3>1, WindowManageKeepsLists
  <2> QED BY <1>12, <2>1, <2>2 DEF ManageWindow
<1>13. CASE Next
  BY <1>3, <1>4, <1>5, <1>6, <1>7, <1>8, <1>9, <1>10, <1>11, <1>12, <1>13,
     AdoptOrphansKeepsLists, ManageSeatKeepsLists DEF Next, ManageSequence
<1> QED BY <1>1, <1>2, <1>13

\* The types are kept by every step.
LEMMA TypedStep ==
  ASSUME Inv, [Next]_vars
  PROVE  Typed'
<1> USE DEF Inv
<1>1. CASE UNCHANGED vars
  BY <1>1 DEF vars, Typed, Live, loop, noted, outs, main, lists, life, state, wants,
              seats, pointed, oper
<1>2. ASSUME NEW w \in Window, ManageWindow(w) PROVE Typed'
  <2>1. CASE Crash
    BY <2>1 DEF Crash, Typed, Live, noted, outs, main, lists, life, state, wants,
                seats, pointed, oper
  <2>2. CASE /\ WindowManage(w) /\ work' = work \ {w}
             /\ UNCHANGED <<pc, cursor, tail, noted, outs>>
    <3>1. Placed(w)
      BY <1>2, WorkPlaced DEF ManageWindow
    <3> QED BY <2>2, <3>1, WindowManageTyped
  <2> QED BY <1>2, <2>1, <2>2 DEF ManageWindow
<1>3. CASE ManageSequence
  BY <1>2, <1>3, OutsideLoopsTyped, VisitOutputTyped, AdoptOrphansTyped,
     FillOutputsTyped, CloseOrRestoreTyped, VisitOrphanTyped, LoopStepsTyped,
     ManageSeatTyped DEF ManageSequence
<1> QED BY <1>1, <1>3, OutputEventTyped, WindowEventTyped, SeatInputTyped,
           OutsideLoopsTyped DEF Next

(***************************************************************************)
(* What the loops have before them, and what the seat points at.           *)
(***************************************************************************)

(***************************************************************************)
(* The loops.                                                              *)
(***************************************************************************)

\* Outside a manage sequence, every step but its start stays outside it.
LEMMA EventsStayOutside ==
  ASSUME \/ \E o \in Output : OutputEvent(o)
         \/ \E w \in Window : WindowEvent(w)
         \/ WritesFreedOutput \/ SeatInput \/ RenderStart
  PROVE  pc = "idle" /\ (UNCHANGED loop \/ pc' = "crashed")
  BY DEF OutputEvent, OutputAnnounced, OutputRemoved, OutputPosition,
         OutputDimensions, Moved, WindowEvent, WindowCreated, WindowClosed,
         IconClicked, MaximizeRequested, FullscreenRequested,
         ExitFullscreenRequested, MinimizeRequested, PointerOpRequested, Request,
         WritesFreedOutput, RenderStart, SeatInput, SeatAnnounced, SeatRemoved,
         OpReleased, WindowInteraction, PointerEntersWindow,
         PointerEntersDecoration, ButtonReleased, BindingReleased,
         BindingPressed, SeatEvent, Idle, Crash

\* Outside the loops, no step changes what they have before them.
LEMMA EventsKeepVisits ==
  ASSUME Inv, \/ \E o \in Output : OutputEvent(o)
              \/ \E w \in Window : WindowEvent(w)
              \/ WritesFreedOutput \/ SeatInput \/ RenderStart
  PROVE  Visits'
  BY EventsStayOutside DEF Inv, Visits, loop

\* Every step keeps what the loops have before them in the lists.
LEMMA VisitsStep ==
  ASSUME Inv, [Next]_vars
  PROVE  Visits'
<1> USE DEF Inv
<1>1. CASE UNCHANGED vars
  BY <1>1 DEF vars, Visits, Live, Orphans, All, loop, noted, outs, lists, life
<1>2. Crash => Visits'
  BY DEF Crash, Visits
<1>3. CASE ManageStart
  BY <1>3 DEF ManageStart, Visits
<1>4. CASE VisitOutput
  <2>1. CASE Advance
    <3>1. pc' = "outputs" /\ cursor' # 0
      BY <1>4, <2>1 DEF VisitOutput, Advance, Typed
    <3> QED BY <3>1 DEF Visits
  <2> QED BY <1>2, <1>4, <2>1 DEF VisitOutput
<1>5. CASE AdoptOrphans
  BY <1>5 DEF AdoptOrphans, Visits
<1>6. CASE FillOutputs
  <2>1. /\ pc' = "closing" /\ tail' = tail /\ pc = "fill"
        /\ work' = UNION {All(o) : o \in Live}
        /\ UNCHANGED <<mOutputs, lists>>
    BY <1>6 DEF FillOutputs, All
  <2>2. \A w \in work' : \E o \in Live' : w \in All(o)'
    BY <2>1 DEF Live, All, lists
  <2> QED BY <2>1, <2>2 DEF Visits
<1>7. CASE StartOrphans
  BY <1>7, ToSetFacts DEF StartOrphans, Visits
<1>8. ASSUME NEW w \in Window, CloseOrRestore(w) PROVE Visits'
  <2>1. CASE ~Crash
    <3>1. /\ pc = "closing" /\ pc' = "closing" /\ w \in work
          /\ work' = work \ {w} /\ UNCHANGED <<tail, mOutputs>>
      BY <1>8, <2>1 DEF CloseOrRestore, outs
    <3>2. Live' = Live
      BY <3>1 DEF Live
    <3>3. \A v \in Window : \A o \in Live : v # w /\ v \in All(o) => v \in All(o)'
      <4>1. CASE DestroyWindow(w)
        <5>1. \A o \in Output : All(o)' = All(o) \ {w}
          BY <3>1, <4>1, WorkPlaced, DestroyWindowFacts DEF All
        <5> QED BY <5>1, LiveFacts
      <4>2. CASE ToggleMinimized(w, OutputOf(w))
        BY <4>2, LiveFacts DEF ToggleMinimized, Put, All, Typed
      <4>3. CASE UNCHANGED lists
        BY <4>3 DEF lists, All
      <4> QED BY <1>8, <2>1, <4>1, <4>2, <4>3 DEF CloseOrRestore
    <3>4. \A v \in work' : \E o \in Live' : v \in All(o)'
      BY <3>1, <3>2, <3>3 DEF Visits, Typed
    <3> QED BY <3>1, <3>4 DEF Visits
  <2> QED BY <1>2, <2>1
<1>9. CASE VisitOrphan
  <2> DEFINE w == (mOrphanedWindows \o tail)[cursor]
  <2>1. CASE /\ w \in closed /\ DestroyWindow(w) /\ Advance
             /\ tail' = <<Last(mOrphanedWindows)>> \o tail
             /\ pc = "orphans" /\ cursor <= Len(mOrphanedWindows \o tail)
    <3>1. w \in Alive
      BY <2>1 DEF Lifetimes
    <3>2. w \in Window /\ Placed(w) /\ Last(mOrphanedWindows) \in Orphans
      BY <2>1, <3>1, VisitOrphanFacts
    <3> HIDE DEF w
    <3>3. Orphans' = Orphans \ {w} /\ destroyed' = destroyed \cup {w}
      BY <2>1, <3>2, DestroyWindowFacts DEF DestroyWindow
    <3>4. Orphans \subseteq Window
      BY ToSetFacts DEF Orphans, Typed
    <3>5. <<Last(mOrphanedWindows)>> \in Seq(Window \cup Output)
      BY <3>2, <3>4
    <3>6. ToSet(tail') = {Last(mOrphanedWindows)} \cup ToSet(tail)
      <4>1. ToSet(<<Last(mOrphanedWindows)>>) = {Last(mOrphanedWindows)}
        BY DEF ToSet
      <4>2. tail \in Seq(Window \cup Output)
        BY DEF Typed
      <4> DEFINE first == <<Last(mOrphanedWindows)>>
      <4>3. first \in Seq(Window \cup Output) /\ tail' = first \o tail
        BY <2>1, <3>5
      <4>4. ToSet(first) = {Last(mOrphanedWindows)}
        BY <4>1
      <4> HIDE DEF first
      <4>5. ToSet(first \o tail) = ToSet(first) \cup ToSet(tail)
        BY <4>2, <4>3, ToSetFacts
      <4> QED BY <4>3, <4>4, <4>5
    <3>7. pc' = "orphans" /\ cursor' # 0 /\ work' = {}
      BY <2>1 DEF Advance, Typed, Visits
    <3> QED BY <2>1, <3>2, <3>3, <3>6, <3>7 DEF Visits
  <2>2. CASE /\ Advance /\ UNCHANGED <<tail, lists, life>> /\ pc = "orphans"
    <3>1. pc' = "orphans" /\ cursor' # 0 /\ work' = {}
      BY <2>2 DEF Advance, Typed, Visits
    <3> QED BY <2>2, <3>1 DEF Visits, lists, life, Orphans
  <2> QED BY <1>2, <1>9, <2>1, <2>2 DEF VisitOrphan
<1>10. CASE DestroySeat
  <2>1. CASE pc' = "windows" /\ tail' = <<>> /\ UNCHANGED work /\ pc = "orphans"
    BY <2>1 DEF Visits
  <2> QED BY <1>2, <1>10, <2>1 DEF DestroySeat
<1>11. CASE NextOutput
  <2>1. pc = "windows" /\ tail' = tail /\ Live' = Live /\ UNCHANGED lists
    BY <1>11 DEF NextOutput, outs, Live
  <2>2. CASE /\ cursor < Len(mOutputs) /\ cursor' = cursor + 1 /\ pc' = pc
             /\ work' = windows[mOutputs[cursor']]
    <3>1. mOutputs[cursor'] \in Live
      BY <2>2 DEF Typed, Live, ToSet
    <3> QED BY <2>1, <2>2, <3>1 DEF Visits, lists
  <2>3. CASE pc' = "stashed" /\ work' = ToSet(mOrphanedWindows)
    BY <2>1, <2>3 DEF Visits, Orphans, lists
  <2> QED BY <1>11, <2>1, <2>2, <2>3 DEF NextOutput
<1>12. ASSUME NEW w \in Window, ManageWindow(w) PROVE Visits'
  <2>1. CASE WindowManage(w) /\ work' = work \ {w} /\ UNCHANGED <<pc, cursor, tail, noted, outs>>
    <3>1. Placed(w) /\ pc \in {"windows", "stashed"}
      BY <1>12, WorkPlaced DEF ManageWindow
    <3>2. UNCHANGED mOrphanedWindows /\ Live' = Live
      BY <2>1, <3>1, WindowManageFacts DEF outs, Live
    <3>3. \A v \in Window : \A o \in Live : v # w /\ v \in windows[o] => v \in windows'[o]
      <4>1. CASE UNCHANGED windows
        BY <4>1
      <4>2. ASSUME NEW to, NEW hide \in BOOLEAN, Place(w, to, hide)
            PROVE  \A v \in Window : \A o \in Live :
                     v # w /\ v \in windows[o] => v \in windows'[o]
        BY <3>1, <4>2, LiveFacts, PlaceFacts
      <4> QED BY <2>1, <3>1, <4>1, <4>2, WindowManageFacts
    <3>4. pc = "windows" => \A v \in work' : \E o \in Live' : v \in windows'[o]
      BY <2>1, <3>2, <3>3 DEF Visits, Typed
    <3> QED BY <2>1, <3>1, <3>2, <3>4 DEF Visits, Orphans
  <2> QED BY <1>2, <1>12, <2>1 DEF ManageWindow
<1>13. CASE ManageSeat \/ ManageNoSeat
  <2>1. CASE pc' = "idle" /\ UNCHANGED tail /\ pc = "stashed"
    BY <2>1 DEF Visits
  <2> QED BY <1>2, <1>13, <2>1 DEF ManageSeat, ManageNoSeat, ManageDone
<1> QED BY <1>1, <1>3, <1>4, <1>5, <1>6, <1>7, <1>8, <1>9, <1>10, <1>11, <1>12,
           <1>13, EventsKeepVisits DEF Next, ManageSequence

(***************************************************************************)
(* The seat's pointers.                                                    *)
(***************************************************************************)

pointing == <<focused, pointerWindow, op, opWindow, hovered, allocated, destroyed,
              isNew, closed>>

\* What leaves the seat's pointers and the lifetimes alone keeps them.
LEMMA PointersKept ==
  ASSUME Pointers, UNCHANGED pointing
  PROVE  Pointers'
  BY DEF Pointers, SeatPointersAlive, Alive, pointing

\* The events of windows and of the seat keep the seat's pointers alive.
LEMMA EventsKeepPointers ==
  ASSUME Inv, (\E w \in Window : WindowEvent(w)) \/ SeatInput
  PROVE  Pointers'
<1> USE DEF Inv
<1> DEFINE quiet == UNCHANGED pointing
<1>0. /\ None \notin Window \cup allocated \cup destroyed \cup closed \cup isNew
      /\ closed \cup isNew \subseteq allocated \ destroyed
  BY NoneAssumption DEF Typed, Lifetimes, Alive
<1>1. ASSUME NEW w \in Window, WindowCreated(w) PROVE Pointers'
  <2>1. /\ w \notin Alive /\ allocated' = allocated \cup {w} /\ isNew' = isNew \cup {w}
        /\ UNCHANGED <<focused, pointerWindow, op, opWindow, hovered, destroyed, closed>>
    BY <1>1 DEF WindowCreated, Alive, seats, pointed, oper
  <2> QED BY <1>0, <2>1 DEF Pointers, SeatPointersAlive, Alive
<1>2. ASSUME NEW w \in Window, WindowClosed(w) PROVE Pointers'
  <2>1. /\ closed' = closed \cup {w} /\ hovered' = IF hovered = w THEN None ELSE hovered
        /\ UNCHANGED <<focused, pointerWindow, op, opWindow, allocated, destroyed, isNew>>
    BY <1>2 DEF WindowClosed, oper
  <2> QED BY <1>0, <2>1 DEF Pointers, SeatPointersAlive, Alive
<1>3. ASSUME NEW w \in Window \cup {None}, PointerEntersWindow(w) PROVE Pointers'
  <2>1. /\ w \in Open \ isNew \/ w = None
        /\ hovered' = w
        /\ UNCHANGED <<focused, pointerWindow, op, opWindow, allocated, destroyed, isNew,
                       closed>>
    BY <1>3 DEF PointerEntersWindow, SeatEvent, life, oper
  <2> QED BY <1>0, <2>1 DEF Pointers, SeatPointersAlive, Alive, Open
<1>4. ASSUME NEW w \in Window \cup {None}, PointerEntersDecoration(w) PROVE Pointers'
  <2>0. w = None \/ \E o \in Live : w \in windows[o]
    BY <1>4 DEF PointerEntersDecoration
  <2>1. /\ pointerWindow' = w
        /\ UNCHANGED <<focused, op, opWindow, hovered, allocated, destroyed, isNew, closed>>
    BY <1>4 DEF PointerEntersDecoration, SeatEvent, life, oper
  <2>2. w \notin destroyed
    BY <1>0, <2>0, LiveFacts DEF WindowsListed, All, Alive
  <2> QED BY <2>1, <2>2 DEF Pointers, SeatPointersAlive, Alive
<1>5. ASSUME ~ \E w \in Window : WindowCreated(w) \/ WindowClosed(w),
             ~ \E w \in Window \cup {None} :
                 PointerEntersWindow(w) \/ PointerEntersDecoration(w)
      PROVE  Pointers'
  <2>1. CASE SeatInput
    <3>1. quiet
      BY <1>5, <2>1
         DEF SeatInput, SeatAnnounced, SeatRemoved, OpReleased, WindowInteraction,
             ButtonReleased, BindingReleased, BindingPressed, SeatEvent, Crash,
             pointing, life, seats, pointed, oper
    <3> QED BY <3>1, PointersKept
  <2>2. ASSUME NEW w \in Window, WindowEvent(w) PROVE Pointers'
    <3>1. quiet
      BY <1>5, <2>2
         DEF WindowEvent, MaximizeRequested, FullscreenRequested,
             ExitFullscreenRequested, MinimizeRequested, PointerOpRequested,
             IconClicked, Request, pointing, life, seats, pointed, oper
    <3> QED BY <3>1, PointersKept
  <2> QED BY <2>1, <2>2
<1> QED BY <1>1, <1>2, <1>3, <1>4, <1>5

\* Deleting a window: the seat forgets it.
LEMMA DestroyWindowKeepsPointers ==
  ASSUME Inv, NEW w \in closed, DestroyWindow(w),
         focused' \in {focused, None}, focused' # w
  PROVE  Pointers'
<1> USE DEF Inv
<1>0. /\ w # None /\ None \notin allocated \cup destroyed \cup closed \cup isNew
      /\ w \in allocated \ destroyed
  BY NoneAssumption DEF Typed, Lifetimes, Alive
<1>1. /\ destroyed' = destroyed \cup {w} /\ isNew' = isNew \ {w} /\ closed' = closed \ {w}
      /\ pointerWindow' = IF pointerWindow = w THEN None ELSE pointerWindow
      /\ op' = IF opWindow = w THEN "none" ELSE op
      /\ opWindow' = IF opWindow = w THEN None ELSE opWindow
      /\ UNCHANGED <<allocated, hovered>>
  BY DEF DestroyWindow, SeatForgets
<1> QED BY <1>0, <1>1 DEF Pointers, SeatPointersAlive, Alive

\* Every step of a sequence keeps the output under the pointer one that is there.
LEMMA UnderStep ==
  ASSUME Inv, [Next]_vars
  PROVE  UnderListed'
<1> USE DEF Inv
<1> DEFINE quiet == UNCHANGED <<under, mOutputs, removed>>
<1>1. (Crash \/ pc' \in {"idle", "outputs", "adopt"}) => UnderListed'
  BY DEF Crash, UnderListed
<1>2. quiet /\ pc \in {"fill", "closing", "orphans", "windows", "stashed"} => UnderListed'
  BY DEF UnderListed, UnderPointer, Usable, Live
<1>3. CASE UNCHANGED vars
  BY <1>3 DEF vars, loop, noted, outs, UnderListed, UnderPointer, Usable, Live
<1>4. CASE \/ \E o \in Output : OutputEvent(o)
           \/ \E w \in Window : WindowEvent(w)
           \/ WritesFreedOutput \/ SeatInput \/ RenderStart
  BY <1>4, EventsStayOutside DEF UnderListed, loop
<1>5. CASE ManageStart \/ VisitOutput \/ ManageSeat \/ ManageNoSeat
  <2>1. pc' \in {"idle", "outputs", "adopt"} \/ Crash
    BY <1>5 DEF ManageStart, VisitOutput, Advance, ManageSeat, ManageNoSeat, ManageDone
  <2> QED BY <1>1, <2>1
<1>6. CASE AdoptOrphans
  BY <1>6 DEF AdoptOrphans, outs, UnderListed, UnderPointer, Usable, Live
<1>7. CASE FillOutputs \/ StartOrphans \/ NextOutput \/ DestroySeat \/ VisitOrphan
  <2>1. \/ Crash
        \/ quiet /\ pc \in {"fill", "closing", "orphans", "windows", "stashed"}
    BY <1>7 DEF FillOutputs, StartOrphans, NextOutput, DestroySeat, VisitOrphan,
                Advance, noted, outs
  <2> QED BY <1>1, <1>2, <2>1
<1>8. ASSUME NEW w \in Window, CloseOrRestore(w) \/ ManageWindow(w) PROVE UnderListed'
  <2>1. \/ Crash
        \/ quiet /\ pc \in {"fill", "closing", "orphans", "windows", "stashed"}
    BY <1>8 DEF CloseOrRestore, ManageWindow, noted, outs
  <2> QED BY <1>1, <1>2, <2>1
<1> QED BY <1>3, <1>4, <1>5, <1>6, <1>7, <1>8 DEF Next, ManageSequence

\* Every step keeps the seat's pointers alive.
LEMMA PointersStep ==
  ASSUME Inv, [Next]_vars
  PROVE  Pointers'
<1> USE DEF Inv
<1> DEFINE quiet == UNCHANGED pointing
<1>0. None \notin Window /\ destroyed \subseteq Window /\ Alive \cap destroyed = {}
  BY NoneAssumption DEF Typed, Alive
<1>1. quiet => Pointers'
  BY PointersKept
<1>2. Crash \/ UNCHANGED vars => quiet
  BY DEF Crash, pointing, vars, life, seats, pointed, oper
<1>3. ASSUME \/ \E o \in Output : OutputEvent(o)
             \/ WritesFreedOutput \/ RenderStart \/ ManageStart \/ AdoptOrphans
             \/ FillOutputs \/ StartOrphans \/ NextOutput \/ ManageNoSeat
      PROVE  Pointers'
  <2>1. quiet
    BY <1>2, <1>3
       DEF OutputEvent, OutputAnnounced, OutputRemoved, OutputPosition,
           OutputDimensions, Moved, WritesFreedOutput, RenderStart, ManageStart,
           AdoptOrphans, FillOutputs, StartOrphans, NextOutput, ManageNoSeat,
           ManageDone, pointing, life, seats, pointed, oper
  <2> QED BY <1>1, <2>1
<1>4. CASE VisitOutput
  <2>1. quiet
    BY <1>2, <1>4 DEF VisitOutput, DestroyOutput, pointing, life, seats, pointed, oper
  <2> QED BY <1>1, <2>1
<1>5. ASSUME NEW w \in Window, CloseOrRestore(w) PROVE Pointers'
  <2>1. CASE Crash
    BY <1>1, <1>2, <2>1
  <2>2. CASE /\ w \in closed /\ DestroyWindow(w)
             /\ focused' = IF focused = w \/ w \in queueMinimize \cap minimized
                           THEN None ELSE focused
    BY <1>0, <2>2, DestroyWindowKeepsPointers
  <2>3. CASE /\ ToggleMinimized(w, OutputOf(w))
             /\ UNCHANGED <<life, pointed, oper>>
    <3>1. w \in Alive
      BY <1>5, WorkPlaced, PlacedFacts DEF CloseOrRestore
    <3>2. focused' \in {w, None, focused}
      BY <2>3 DEF ToggleMinimized, FocusAfterHiding
    <3> QED BY <1>0, <2>3, <3>1, <3>2
            DEF Pointers, SeatPointersAlive, Alive, life, pointed, oper
  <2>4. CASE UNCHANGED <<life, seats>>
    <3>1. quiet
      BY <2>4 DEF pointing, life, seats, pointed, oper
    <3> QED BY <1>1, <3>1
  <2> QED BY <1>5, <2>1, <2>2, <2>3, <2>4 DEF CloseOrRestore
<1>6. CASE VisitOrphan
  <2> DEFINE w == (mOrphanedWindows \o tail)[cursor]
  <2>1. CASE Crash
    BY <1>1, <1>2, <2>1
  <2>2. CASE /\ w \in closed /\ DestroyWindow(w)
             /\ focused' = IF focused = w THEN None ELSE focused
    <3>1. w \in Window
      BY <2>2 DEF Typed
    <3> HIDE DEF w
    <3> QED BY <1>0, <2>2, <3>1, DestroyWindowKeepsPointers
  <2>3. CASE UNCHANGED <<life, seats>>
    <3>1. quiet
      BY <2>3 DEF pointing, life, seats, pointed, oper
    <3> QED BY <1>1, <3>1
  <2> QED BY <1>6, <2>1, <2>2, <2>3 DEF VisitOrphan
<1>7. CASE DestroySeat
  <2>1. CASE UNCHANGED <<life, seats>>
    <3>1. quiet
      BY <2>1 DEF pointing, life, seats, pointed, oper
    <3> QED BY <1>1, <3>1
  <2>2. CASE /\ focused' = None /\ hovered' = None /\ pointerWindow' = None
             /\ op' = "none" /\ opWindow' = None /\ UNCHANGED life
    <3>1. None \notin closed \cup isNew
      BY <1>0 DEF Typed
    <3> QED BY <1>0, <2>2, <3>1 DEF Pointers, SeatPointersAlive, Alive, life
  <2> QED BY <1>1, <1>2, <1>7, <2>1, <2>2 DEF DestroySeat
<1>8. ASSUME NEW w \in Window, ManageWindow(w) PROVE Pointers'
  <2>1. CASE Crash
    BY <1>1, <1>2, <2>1
  <2>2. CASE WindowManage(w)
    <3>1. Placed(w) /\ w \in Alive
      BY <1>8, WorkPlaced, PlacedFacts DEF ManageWindow
    <3>2. UNCHANGED <<allocated, destroyed, closed>> /\ isNew' = isNew \ {w}
      BY <2>2, <3>1, WindowManageFacts
    <3>3. focused' \in {focused, None} /\ UNCHANGED <<hovered, pointerWindow>>
      BY <2>2 DEF WindowManage, FocusAfterHiding, pointed
    <3>4. \/ op' \in {"resize", "move"} /\ opWindow' = w
          \/ UNCHANGED <<op, opWindow>>
      BY <2>2 DEF WindowManage
    <3> QED BY <1>0, <3>1, <3>2, <3>3, <3>4 DEF Pointers, SeatPointersAlive, Alive
  <2> QED BY <1>8, <2>1, <2>2 DEF ManageWindow
<1>9. CASE ManageSeat
  <2>1. CASE pc' = "crashed"
    BY <1>1, <1>2, <1>9, <2>1 DEF ManageSeat, ManageDone
  <2>2. CASE pc' # "crashed"
    <3>1. UNCHANGED <<life, pointed>> /\ interacted \notin destroyed
      BY <1>9, <2>2, ManageSeatFacts DEF ManageDone
    <3>2. focused' \notin destroyed
      <4>1. \A o \in Live : windows[o] \cap destroyed = {}
        BY <1>0, LiveFacts DEF WindowsListed, All
      <4>2. Usable \subseteq Live
        BY DEF Usable
      <4>3. focused \notin destroyed
        BY DEF Pointers, SeatPointersAlive
      <4> QED BY <1>0, <1>9, <2>2, <3>1, <4>1, <4>2, <4>3, ManageSeatFacts
    <3>3. /\ opWindow' \in {hovered, opWindow, None}
          /\ op' = "none" <=> opWindow' = None
      BY <1>9, <2>2, ManageSeatFacts
    <3>4. None \notin isNew
      BY <1>0 DEF Typed
    <3> QED BY <1>0, <3>1, <3>2, <3>3, <3>4
            DEF Pointers, SeatPointersAlive, Alive, life, pointed
  <2> QED BY <2>1, <2>2
<1>10. CASE Next
  BY <1>3, <1>4, <1>5, <1>6, <1>7, <1>8, <1>9, <1>10, EventsKeepPointers
     DEF Next, ManageSequence
<1> QED BY <1>1, <1>2, <1>10

(***************************************************************************)
(* The theorems that follow from the invariant.                            *)
(***************************************************************************)

\* The window manager starts in the invariant.
LEMMA InitInv == Init => Inv
<1> SUFFICES ASSUME Init PROVE Inv
  OBVIOUS
<1>1. Visits /\ UnderListed /\ Pointers
  BY DEF Init, Visits, UnderListed, Pointers, SeatPointersAlive, Alive
<1> QED BY <1>1, InitTyped, InitLists DEF Inv, ListsInv

\* The lists, the lifetimes, the loops and the seat's pointers are in order in
\* every state of the window manager: the invariant that the properties follow from.
THEOREM InvHolds == Spec => []Inv
<1>1. Init => Inv
  BY InitInv
<1>2. Inv /\ [Next]_vars => Inv'
  BY TypedStep, ListsStep, VisitsStep, UnderStep, PointersStep DEF Inv, ListsInv
<1> QED BY <1>1, <1>2, PTL DEF Spec

(***************************************************************************)
(* What follows from the invariant alone.                                  *)
(***************************************************************************)

\* Every variable has its type, in every state.
THEOREM TypeOKHolds == Spec => []TypeOK
<1>1. Inv => TypeOK
  BY TypedIsTypeOK DEF Inv
<1> QED BY <1>1, InvHolds, PTL

\* The minimized flag and the lists agree, and a clicked icon's window is hidden.
THEOREM MinimizedListedHolds == Spec => []MinimizedListed
<1>1. Inv => MinimizedListed
  BY DEF Inv
<1> QED BY <1>1, InvHolds, PTL

\* The seat never points at a window that has been deleted.
THEOREM SeatPointersAliveHolds == Spec => []SeatPointersAlive
<1>1. Inv => SeatPointersAlive
  BY DEF Inv, Pointers
<1> QED BY <1>1, InvHolds, PTL

\* A window is in one list, once, from its creation to its deletion.
LEMMA InvListsOnce == Inv => ListedOnce
<1> SUFFICES ASSUME Inv PROVE ListedOnce
  OBVIOUS
<1> USE DEF Inv
<1> DEFINE shown(w)  == {<<"shown", o>> : o \in {p \in Output : w \in windows[p]}}
           hidden(w) == {<<"hidden", o>> : o \in {p \in Output : w \in minimizedWindows[p]}}
           orphan(w) == {<<"orphan", i>> : i \in {j \in DOMAIN mOrphanedWindows :
                                                  mOrphanedWindows[j] = w}}
<1>1. \A w : Places(w) = shown(w) \cup hidden(w) \cup orphan(w)
  BY DEF Places
<1>2. \A w : w \notin Orphans => orphan(w) = {}
  BY DEF Orphans, ToSet
<1>3. \A w : (\A o \in Output : w \notin All(o)) => shown(w) = {} /\ hidden(w) = {}
  BY DEF All
<1>4. ASSUME NEW w \in Alive PROVE Cardinality(Places(w)) = 1
  <2>1. CASE w \in Orphans
    <3>1. PICK i \in DOMAIN mOrphanedWindows : mOrphanedWindows[i] = w
      BY <2>1 DEF Orphans, ToSet
    <3>2. orphan(w) = {<<"orphan", i>>}
      BY <3>1 DEF WindowsListed, Once
    <3>3. shown(w) = {} /\ hidden(w) = {}
      BY <1>3, <2>1 DEF WindowsListed
    <3> HIDE DEF shown, hidden, orphan
    <3>4. Places(w) = {<<"orphan", i>>}
      BY <1>1, <3>2, <3>3
    <3> QED BY <3>4, FS_Singleton
  <2>2. ASSUME NEW o \in Output, w \in All(o) PROVE Cardinality(Places(w)) = 1
    <3>1. \A p \in Output : w \in All(p) => p = o
      BY <2>2 DEF WindowsListed
    <3>2. orphan(w) = {}
      BY <1>2, <2>2 DEF WindowsListed
    <3>3. CASE w \in minimized
      <4>1. w \in minimizedWindows[o] /\ \A p \in Output : w \notin windows[p]
        BY <2>2, <3>3 DEF MinimizedListed, All
      <4>2. shown(w) = {}
        BY <4>1
      <4>3. hidden(w) = {<<"hidden", o>>}
        BY <3>1, <4>1 DEF All
      <4> HIDE DEF shown, hidden, orphan
      <4>4. Places(w) = {<<"hidden", o>>}
        BY <1>1, <3>2, <4>2, <4>3
      <4> QED BY <4>4, FS_Singleton
    <3>4. CASE w \notin minimized
      <4>1. w \in windows[o] /\ \A p \in Output : w \notin minimizedWindows[p]
        BY <2>2, <3>4 DEF MinimizedListed, All
      <4>2. hidden(w) = {}
        BY <4>1
      <4>3. shown(w) = {<<"shown", o>>}
        BY <3>1, <4>1 DEF All
      <4> HIDE DEF shown, hidden, orphan
      <4>4. Places(w) = {<<"shown", o>>}
        BY <1>1, <3>2, <4>2, <4>3
      <4> QED BY <4>4, FS_Singleton
    <3> QED BY <3>3, <3>4
  <2> QED BY <2>1, <2>2 DEF WindowsListed
<1>5. ASSUME NEW w \in destroyed PROVE Places(w) = {}
  <2>1. w \notin Alive
    BY DEF Alive
  <2>2. w \notin Orphans /\ \A o \in Output : w \notin All(o)
    BY <2>1 DEF WindowsListed
  <2> HIDE DEF shown, hidden, orphan
  <2> QED BY <1>1, <1>2, <1>3, <2>2
<1> QED BY <1>4, <1>5 DEF ListedOnce, Alive, OutputsListed

\* Every window is in exactly one list, once, until it is destroyed.
THEOREM ListedOnceHolds == Spec => []ListedOnce
  BY InvHolds, InvListsOnce, PTL

\* No step leaves the focus on a window it hides, or gives it to a hidden one
\* other than the one seat_manage was told of.
THEOREM FocusLeavesHiddenHolds == Spec => FocusLeavesHidden
<1> DEFINE kept == focused' \in minimized' =>
                     \/ focused' = focused /\ focused \in minimized
                     \/ pc = "stashed" /\ focused' = interacted
<1>1. Inv /\ [Next]_vars => [kept]_vars
  <2> SUFFICES ASSUME Inv, Next PROVE kept
    OBVIOUS
  <2> USE DEF Inv
  <2> DEFINE quiet == UNCHANGED <<focused, minimized>>
  <2>0. None \notin minimized \cup Window
    BY NoneAssumption DEF Typed
  <2>1. Crash => quiet
    BY DEF Crash, state, seats
  <2>2. ASSUME NEW o \in Output, OutputEvent(o) PROVE quiet
    BY <2>2 DEF OutputEvent, OutputAnnounced, OutputRemoved, OutputPosition,
                OutputDimensions, Moved, state, seats
  <2>3. ASSUME NEW w \in Window, WindowEvent(w) PROVE quiet
    BY <2>3 DEF WindowEvent, WindowCreated, WindowClosed, MaximizeRequested,
                FullscreenRequested, ExitFullscreenRequested, MinimizeRequested,
                PointerOpRequested, IconClicked, Request, state, seats
  <2>4. CASE SeatInput
    BY <2>1, <2>4 DEF SeatInput, SeatAnnounced, SeatRemoved, OpReleased, WindowInteraction,
                PointerEntersWindow, PointerEntersDecoration, ButtonReleased,
                BindingReleased, BindingPressed, SeatEvent, state, seats
  <2>5. CASE WritesFreedOutput \/ RenderStart \/ ManageStart \/ StartOrphans
             \/ NextOutput \/ AdoptOrphans \/ FillOutputs \/ ManageNoSeat
    BY SMTT(30), <2>1, <2>5
       DEF WritesFreedOutput, RenderStart, ManageStart, StartOrphans,
                NextOutput, AdoptOrphans, FillOutputs, ManageNoSeat, ManageDone,
                state, seats
  <2>6. CASE VisitOutput
    <3>1. ASSUME NEW o, DestroyOutput(o), UNCHANGED seats PROVE quiet
      BY <3>1 DEF DestroyOutput, seats
    <3>2. CASE UNCHANGED <<state, seats>>
      BY <3>2 DEF state, seats
    <3>3. \/ Crash
          \/ \E o : DestroyOutput(o) /\ UNCHANGED seats
          \/ UNCHANGED <<state, seats>>
      BY <2>6 DEF VisitOutput
    <3> QED BY <2>1, <3>1, <3>2, <3>3
  <2>7. ASSUME NEW w \in Window, CloseOrRestore(w) PROVE kept
    <3>1. CASE DestroyWindow(w) /\ focused' \in {None, focused}
      BY <2>0, <3>1 DEF DestroyWindow
    <3>2. CASE ToggleMinimized(w, OutputOf(w))
      BY <2>0, <3>2 DEF ToggleMinimized, FocusAfterHiding, Put
    <3>3. CASE quiet
      BY <3>3
    <3> QED BY <2>1, <2>7, <3>1, <3>2, <3>3 DEF CloseOrRestore, state, seats
  <2>8. CASE VisitOrphan
    BY <2>0, <2>1, <2>8 DEF VisitOrphan, DestroyWindow, state, seats
  <2>9. CASE DestroySeat
    BY <2>0, <2>1, <2>9 DEF DestroySeat, state, seats
  <2>10. ASSUME NEW w \in Window, ManageWindow(w) PROVE kept
    <3>1. CASE Crash
      BY <2>1, <3>1
    <3>2. CASE WindowManage(w)
      <4>1. \/ minimized' = minimized \cup {w} /\ focused' = FocusAfterHiding(w)
            \/ minimized' = minimized /\ focused' = focused
            \/ minimized' = minimized /\ focused' = FocusAfterHiding(w)
        BY <3>2 DEF WindowManage, Put
      <4> QED BY <2>0, <4>1 DEF FocusAfterHiding
    <3> QED BY <2>10, <3>1, <3>2 DEF ManageWindow
  <2>11. CASE ManageSeat
    <3>1. CASE Crash
      BY <2>1, <3>1
    <3>2. CASE ManageDone
      <4>1. pc = "stashed" /\ pc' # "crashed" /\ minimized' = minimized
        BY <2>11, <3>2 DEF ManageSeat, ManageDone
      <4>2. \A o \in Live : windows[o] \cap minimized = {}
        BY LiveFacts DEF MinimizedListed
      <4>3. Usable \subseteq Live
        BY DEF Usable
      <4> QED BY <2>0, <2>11, <4>1, <4>2, <4>3, ManageSeatFacts
    <3> QED BY <2>11, <3>1, <3>2 DEF ManageSeat
  <2>12. quiet => kept
    OBVIOUS
  <2> HIDE DEF quiet, kept
  <2> QED BY <2>2, <2>3, <2>4, <2>5, <2>6, <2>7, <2>8, <2>9, <2>10, <2>11, <2>12
          DEF Next, ManageSequence
<1> QED BY <1>1, InvHolds, PTL DEF Spec, FocusLeavesHidden

(***************************************************************************)
(* Windows fill their outputs.                                             *)
(***************************************************************************)

(***************************************************************************)
(* FillsItsOutput.                                                         *)
(***************************************************************************)

\* FillsItsOutput, between the loops of a sequence as well.
FillsInv ==
  \A o \in Live \ geometryChanged : \A w \in All(o) :
    Fills(w) => fills[w] = o \/ w \in dragged

\* Managing a window changes nothing about the others, and leaves it filling
\* the output it is put on, if it is to fill one.
LEMMA WindowManageFills ==
  ASSUME Inv, FillsInv, NEW w \in Window, Placed(w), WindowManage(w)
  PROVE  /\ \A v \in Window \ {w} : /\ fills'[v] = fills[v]
                                    /\ v \in dragged => v \in dragged'
                                    /\ Fills(v)' => Fills(v)
         /\ \A o \in Live : \A v \in All(o)' \ {w} : v \in All(o)
         /\ \A o \in Live \ geometryChanged :
              w \in All(o)' /\ Fills(w)' => fills'[w] = o \/ w \in dragged'
<1> USE DEF Inv
<1> DEFINE out     == OutputOf(w)
           full    == w \in fullscreen
           drag    == w \in moveRequested /\ ~full
           wantMax == ~drag /\ IF pendingNav[w] = "max" THEN w \notin maximized
                                                        ELSE w \in wantMaximized
           wantFs  == w \in wantFullscreen
           max     == w \in maximized /\ ~(drag /\ out # None)
           change  == out # None /\ (wantMax # max \/ wantFs # full)
           newMax  == IF change THEN wantMax ELSE max
           newFull == IF change THEN wantFs ELSE full
           hint    == wantFullscreenOutput[w]
           to      == IF change /\ wantFs /\ ~full /\ hint \in Usable THEN hint
                                                                      ELSE out
           kept    == w \in dragged /\ ~change /\ (newMax \/ newFull)
<1>1. /\ maximized' = Put(maximized, w, newMax)
      /\ fullscreen' = Put(fullscreen, w, newFull)
      /\ fills' = [fills EXCEPT ![w] = IF change /\ (newMax \/ newFull) THEN to
                                       ELSE IF newMax \/ newFull THEN @ ELSE None]
      /\ dragged' = Put(dragged, w, kept)
  BY DEF WindowManage
<1>2. \/ out = None /\ UNCHANGED <<windows, minimizedWindows>>
      \/ out # None /\ \E hide \in BOOLEAN : Place(w, to, hide)
  BY DEF WindowManage
<1>3. Fills(w)' <=> newMax \/ newFull
  <2> HIDE DEF newMax, newFull
  <2> QED BY <1>1 DEF Put, Fills
<1>4. Fills(w)' /\ ~change => Fills(w)
  BY <1>3 DEF Fills
<1>5. fills'[w] = IF change /\ (newMax \/ newFull) THEN to
                  ELSE IF newMax \/ newFull THEN fills[w] ELSE None
  BY <1>1 DEF Typed
<1>6. ~change => to = out
  OBVIOUS
<1>7. Fills(w)' /\ ~change /\ w \in dragged => w \in dragged'
  BY <1>1, <1>3 DEF Put
<1>8. \A v \in Window \ {w} : /\ fills'[v] = fills[v]
                              /\ v \in dragged => v \in dragged'
                              /\ Fills(v)' => Fills(v)
  <2> HIDE DEF newMax, newFull, change, to, kept
  <2> QED BY <1>1 DEF Put, Fills, Typed
<1> HIDE DEF newMax, newFull, change, to, kept, out
<1>9. CASE out = None
  <2>1. \A o \in Live : All(o)' = All(o) /\ w \notin All(o)
    BY <1>2, <1>9, OutputOfFacts, LiveFacts DEF All, out
  <2> QED BY <1>8, <2>1
<1>10. CASE out # None
  <2>1. out \in Live /\ w \in All(out)
    BY <1>10, OutputOfFacts DEF out
  <2>2. PICK hide \in BOOLEAN : Place(w, to, hide)
    BY <1>2, <1>10
  <2>3. \A o \in Output : All(o)' = IF o = to THEN All(o) \cup {w} ELSE All(o) \ {w}
    BY <2>2, PlaceFacts DEF All
  <2>4. \A o \in Live : \A v \in All(o)' \ {w} : v \in All(o)
    BY <2>3, LiveFacts
  <2>5. ASSUME NEW o \in Live \ geometryChanged, w \in All(o)', Fills(w)'
        PROVE  fills'[w] = o \/ w \in dragged'
    <3>1. o = to
      BY <2>3, <2>5, LiveFacts
    <3>2. CASE change
      BY <1>3, <1>5, <2>5, <3>1, <3>2
    <3>3. CASE ~change
      <4>1. o = out /\ Fills(w)
        BY <1>4, <1>6, <2>5, <3>1, <3>3
      <4>2. fills[w] = o \/ w \in dragged
        BY <2>1, <2>5, <4>1 DEF FillsInv
      <4> QED BY <1>3, <1>5, <1>7, <2>5, <3>3, <4>2
    <3> QED BY <3>2, <3>3
  <2> QED BY <1>8, <2>4, <2>5
<1> QED BY <1>9, <1>10

filling == <<mOutputs, geometryChanged, windows, minimizedWindows, maximized,
             fullscreen, fills, dragged>>

\* Every step keeps the windows filling their outputs.
LEMMA FillsStep ==
  ASSUME Inv, FillsInv, [Next]_vars
  PROVE  FillsInv'
<1> USE DEF Inv
<1> DEFINE quiet == UNCHANGED filling
<1>1. quiet => FillsInv'
  BY DEF filling, FillsInv, Live, All, Fills
<1>2. Crash \/ UNCHANGED vars => quiet
  BY DEF Crash, filling, vars, outs, lists, state
<1>3. ASSUME NEW o \in Output, OutputEvent(o) PROVE FillsInv'
  <2>1. CASE OutputAnnounced(o)
    <3>1. /\ Live' = Live \cup {o}
          /\ UNCHANGED <<geometryChanged, windows, minimizedWindows, maximized,
                         fullscreen, fills, dragged>>
      BY <2>1, ToSetFacts DEF OutputAnnounced, lists, state, Typed, Live
    <3>2. All(o) = {}
      BY <2>1 DEF OutputAnnounced, OutputsListed
    <3> QED BY <3>1, <3>2 DEF FillsInv, All, Fills
  <2>2. CASE OutputRemoved(o)
    BY <1>1, <2>2 DEF OutputRemoved, filling, lists, state
  <2>3. CASE Moved(o)
    <3>1. /\ geometryChanged' = geometryChanged \cup {o}
          /\ \A w \in Window : fills[w] # o => fills'[w] = fills[w]
          /\ UNCHANGED <<mOutputs, windows, minimizedWindows, maximized,
                         fullscreen, dragged>>
      BY <2>3 DEF Moved, lists
    <3>2. \A p \in Live : All(p) \subseteq Window
      BY LiveFacts DEF All, Typed
    <3> QED BY <3>1, <3>2 DEF FillsInv, Live, All, Fills
  <2> QED BY <1>3, <2>1, <2>2, <2>3 DEF OutputEvent, OutputPosition, OutputDimensions
<1>4. ASSUME NEW w \in Window, WindowEvent(w) PROVE FillsInv'
  <2>1. CASE WindowCreated(w)
    <3>1. /\ \A o \in Output : windows'[o] \subseteq windows[o] \cup {w}
          /\ UNCHANGED <<mOutputs, geometryChanged, minimizedWindows, maximized,
                         fullscreen, fills, dragged>>
      BY <2>1 DEF WindowCreated, outs, state, Typed
    <3>2. ~Fills(w)
      BY <2>1 DEF WindowCreated, Lifetimes, Alive, Fills
    <3>3. Live' = Live /\ \A o \in Live : All(o)' \subseteq All(o) \cup {w}
      BY <3>1, LiveFacts DEF Live, All
    <3> QED BY <3>1, <3>2, <3>3 DEF FillsInv, Fills
  <2>2. CASE ~WindowCreated(w)
    <3>1. quiet
      BY <1>4, <2>2
         DEF WindowEvent, WindowClosed, MaximizeRequested, FullscreenRequested,
             ExitFullscreenRequested, MinimizeRequested, PointerOpRequested,
             IconClicked, Request, filling, outs, lists, state
    <3> QED BY <1>1, <3>1
  <2> QED BY <2>1, <2>2
<1>5. CASE SeatInput
  <2>1. quiet
    BY <1>2, <1>5
       DEF SeatInput, SeatAnnounced, SeatRemoved, OpReleased, WindowInteraction,
           PointerEntersWindow, PointerEntersDecoration, ButtonReleased,
           BindingReleased, BindingPressed, SeatEvent, filling, outs, lists, state
  <2> QED BY <1>1, <2>1
<1>6. CASE RenderStart
  <2>1. /\ dragged \subseteq dragged'
        /\ UNCHANGED <<mOutputs, geometryChanged, windows, minimizedWindows,
                       maximized, fullscreen, fills>>
    BY <1>6 DEF RenderStart, outs, lists
  <2> QED BY <2>1 DEF FillsInv, Live, All, Fills
<1>7. CASE WritesFreedOutput \/ ManageStart \/ StartOrphans \/ DestroySeat
           \/ NextOutput \/ ManageNoSeat
  <2>1. quiet
    BY <1>2, <1>7
       DEF WritesFreedOutput, ManageStart, StartOrphans, DestroySeat, NextOutput,
           ManageNoSeat, ManageDone, filling, outs, lists, state
  <2> QED BY <1>1, <2>1
<1>8. ASSUME NEW o \in removed, DestroyOutput(o) PROVE FillsInv'
  <2>1. /\ o \in Live /\ o \in Output /\ Live' = Live \ {o}
        /\ geometryChanged' = geometryChanged \ {o}
        /\ UNCHANGED <<maximized, fullscreen>>
    BY <1>8, DestroyOutputFacts, LiveFacts DEF DestroyOutput
  <2>2. CASE /\ windows' = [windows EXCEPT ![o] = {}]
             /\ minimizedWindows' = [minimizedWindows EXCEPT ![o] = {}]
             /\ UNCHANGED <<fills, dragged>>
    <3>1. \A p \in Live' : All(p)' = All(p)
      BY <2>1, <2>2, LiveFacts DEF All, Typed
    <3> QED BY <2>1, <2>2, <3>1 DEF FillsInv, Fills
  <2>3. ASSUME NEW target \in Usable,
               windows' = [windows EXCEPT ![o] = {},
                             ![target] = @ \cup (All(o) \ minimized)],
               minimizedWindows' = [minimizedWindows EXCEPT ![o] = {},
                             ![target] = @ \cup (All(o) \cap minimized)],
               ApplyGeometry(All(o), target)
        PROVE  FillsInv'
    <3>1. target \in Output /\ target # o
      BY <1>8, LiveFacts DEF Usable
    <3>2. \A p \in Live' : All(p)' = IF p = target THEN All(p) \cup All(o) ELSE All(p)
      BY <2>1, <2>3, <3>1, LiveFacts DEF All, Typed
    <3>3. \A p \in Live' : All(p) \cap All(o) = {} /\ All(p) \subseteq Window
      BY <2>1, LiveFacts DEF WindowsListed, All, Typed
    <3>4. All(o) \subseteq Window
      BY <2>1 DEF All, Typed
    <3>5. \A w \in Window : /\ w \in All(o) /\ Fills(w) => fills'[w] = target
                            /\ w \notin All(o) => /\ fills'[w] = fills[w]
                                                  /\ w \in dragged => w \in dragged'
                            /\ Fills(w)' = Fills(w)
      BY <2>1, <2>3 DEF ApplyGeometry, Fills
    <3> SUFFICES ASSUME NEW p \in Live' \ geometryChanged', NEW w \in All(p)', Fills(w)'
                 PROVE  fills'[w] = p \/ w \in dragged'
      BY DEF FillsInv
    <3>6. CASE w \in All(o)
      BY <3>2, <3>3, <3>4, <3>5, <3>6
    <3>7. CASE w \notin All(o)
      <4>1. w \in All(p) /\ w \in Window /\ p \in Live \ geometryChanged
        BY <2>1, <3>2, <3>3, <3>7
      <4> QED BY <3>5, <3>7, <4>1 DEF FillsInv
    <3> QED BY <3>6, <3>7
  <2> QED BY <1>8, <2>2, <2>3, DestroyOutputFacts
<1>9. CASE VisitOutput
  <2> DEFINE o == (mOutputs \o tail)[cursor]
  <2>1. CASE o \in removed /\ DestroyOutput(o)
    <3> HIDE DEF o
    <3> QED BY <1>8, <2>1
  <2>2. CASE UNCHANGED <<outs, lists, life, state, wants, seats>>
    BY <1>1, <2>2 DEF filling, outs, lists, state
  <2> QED BY <1>1, <1>2, <1>9, <2>1, <2>2 DEF VisitOutput
<1>10. CASE AdoptOrphans
  <2>1. UNCHANGED <<mOutputs, geometryChanged, maximized, fullscreen>>
    BY <1>10 DEF AdoptOrphans, outs
  <2>2. CASE UNCHANGED <<lists, fills, dragged>>
    BY <1>1, <2>1, <2>2 DEF filling, lists
  <2>3. ASSUME NEW target \in Usable,
               windows' = [windows EXCEPT ![target] = @ \cup (Orphans \ minimized)],
               minimizedWindows' = [minimizedWindows EXCEPT
                                      ![target] = @ \cup (Orphans \cap minimized)],
               ApplyGeometry(Orphans, target)
        PROVE  FillsInv'
    <3>1. target \in Output /\ Live' = Live
      BY <2>1, LiveFacts DEF Usable, Live
    <3>2. \A p \in Live : All(p)' = IF p = target THEN All(p) \cup Orphans ELSE All(p)
      BY <2>3, <3>1, LiveFacts DEF All, Typed
    <3>3. \A p \in Live : All(p) \cap Orphans = {} /\ All(p) \subseteq Window
      BY LiveFacts DEF WindowsListed, All, Typed
    <3>4. Orphans \subseteq Window
      BY ToSetFacts DEF Orphans, Typed
    <3>5. \A w \in Window : /\ w \in Orphans /\ Fills(w) => fills'[w] = target
                            /\ w \notin Orphans => /\ fills'[w] = fills[w]
                                                   /\ w \in dragged => w \in dragged'
                            /\ Fills(w)' = Fills(w)
      BY <2>1, <2>3 DEF ApplyGeometry, Fills
    <3> SUFFICES ASSUME NEW p \in Live' \ geometryChanged', NEW w \in All(p)', Fills(w)'
                 PROVE  fills'[w] = p \/ w \in dragged'
      BY DEF FillsInv
    <3>6. CASE w \in Orphans
      BY <3>1, <3>2, <3>3, <3>4, <3>5, <3>6
    <3>7. CASE w \notin Orphans
      <4>1. w \in All(p) /\ w \in Window /\ p \in Live \ geometryChanged
        BY <2>1, <3>1, <3>2, <3>3, <3>7
      <4> QED BY <3>5, <3>7, <4>1 DEF FillsInv
    <3> QED BY <3>6, <3>7
  <2> QED BY <1>10, <2>2, <2>3, AdoptOrphansFacts
<1>11. CASE FillOutputs
  <2> DEFINE due == {w \in work' : Fills(w) /\ OutputOf(w) \in geometryChanged}
  <2>1. /\ work' = UNION {windows[o] \cup minimizedWindows[o] : o \in Live}
        /\ fills' = [w \in Window |-> IF w \in due THEN OutputOf(w) ELSE fills[w]]
        /\ dragged' = dragged \ due
        /\ UNCHANGED <<mOutputs, windows, minimizedWindows, maximized, fullscreen>>
    BY <1>11 DEF FillOutputs, lists
  <2> SUFFICES ASSUME NEW o \in Live, NEW w \in All(o), Fills(w)
               PROVE  fills'[w] = o \/ w \in dragged'
    BY <2>1 DEF FillsInv, Live, All, Fills
  <2>2. w \in Window /\ OutputOf(w) = o
    BY OutputOfFacts, LiveFacts DEF All, Typed
  <2>3. w \in work'
    BY <2>1 DEF All
  <2>4. CASE o \in geometryChanged
    <3>1. w \in due
      BY <2>2, <2>3, <2>4
    <3> HIDE DEF due
    <3> QED BY <2>1, <2>2, <3>1
  <2>5. CASE o \notin geometryChanged
    <3>1. w \notin due
      BY <2>2, <2>5
    <3>2. fills[w] = o \/ w \in dragged
      BY <2>5 DEF FillsInv
    <3> HIDE DEF due
    <3> QED BY <2>1, <2>2, <3>1, <3>2
  <2> QED BY <2>4, <2>5
<1>12. ASSUME NEW w \in Window, Placed(w), DestroyWindow(w), UNCHANGED outs
       PROVE  FillsInv'
  <2>1. \A o \in Output : All(o)' = All(o) \ {w}
    BY <1>12, DestroyWindowFacts DEF All
  <2>2. /\ maximized' = maximized \ {w} /\ fullscreen' = fullscreen \ {w}
        /\ fills' = [fills EXCEPT ![w] = None] /\ dragged' = dragged \ {w}
        /\ UNCHANGED <<mOutputs, geometryChanged>>
    BY <1>12 DEF DestroyWindow, outs
  <2> SUFFICES ASSUME NEW o \in Live \ geometryChanged, NEW v \in All(o)', Fills(v)'
               PROVE  fills'[v] = o \/ v \in dragged'
    BY <2>2 DEF FillsInv, Live
  <2>3. v \in All(o) /\ v # w /\ Fills(v) /\ v \in Window
    BY <2>1, <2>2, LiveFacts DEF All, Typed, Fills
  <2> QED BY <2>2, <2>3 DEF FillsInv, Typed
<1>13. ASSUME NEW w \in Window, CloseOrRestore(w) PROVE FillsInv'
  <2>1. CASE Crash \/ UNCHANGED <<outs, lists, life, state, wants, seats>>
    <3>1. quiet
      BY <1>2, <2>1 DEF filling, outs, lists, state
    <3> QED BY <1>1, <3>1
  <2>2. Placed(w) /\ \E o \in Live : w \in All(o)
    BY <1>13, WorkPlaced DEF CloseOrRestore, Visits
  <2>3. CASE DestroyWindow(w) /\ UNCHANGED outs
    BY <1>12, <2>2, <2>3
  <2>4. CASE /\ ToggleMinimized(w, OutputOf(w))
             /\ UNCHANGED <<outs, maximized, fullscreen, fills, dragged>>
    <3>1. OutputOf(w) \in Live /\ w \in All(OutputOf(w))
      BY <2>2, OutputOfFacts
    <3>2. \A o \in Output : All(o)' = All(o)
      BY <2>4, <3>1, LiveFacts DEF ToggleMinimized, Put, All, Typed
    <3> QED BY <2>4, <3>2, LiveFacts DEF FillsInv, Live, Fills, outs
  <2> QED BY <1>13, <2>1, <2>3, <2>4 DEF CloseOrRestore
<1>14. CASE VisitOrphan
  <2> DEFINE w == (mOrphanedWindows \o tail)[cursor]
  <2>1. CASE Crash \/ UNCHANGED <<outs, lists, life, state, wants, seats>>
    <3>1. quiet
      BY <1>2, <2>1 DEF filling, outs, lists, state
    <3> QED BY <1>1, <3>1
  <2>2. CASE /\ w \in closed /\ DestroyWindow(w) /\ UNCHANGED outs
             /\ pc = "orphans" /\ cursor <= Len(mOrphanedWindows \o tail)
    <3>1. w \in Alive
      BY <2>2 DEF Lifetimes
    <3>2. w \in Window /\ Placed(w)
      BY <2>2, <3>1, VisitOrphanFacts
    <3> HIDE DEF w
    <3> QED BY <1>12, <2>2, <3>2
  <2> QED BY <1>14, <2>1, <2>2 DEF VisitOrphan
<1>15. ASSUME NEW w \in Window, ManageWindow(w) PROVE FillsInv'
  <2>1. CASE WindowManage(w) /\ UNCHANGED outs
    <3>1. Placed(w)
      BY <1>15, WorkPlaced DEF ManageWindow
    <3>2. Live' = Live /\ geometryChanged' = geometryChanged
      BY <2>1 DEF outs, Live
    <3> SUFFICES ASSUME NEW o \in Live \ geometryChanged, NEW v \in All(o)', Fills(v)'
                 PROVE  fills'[v] = o \/ v \in dragged'
      BY <3>2 DEF FillsInv
    <3>3. CASE v = w
      BY <2>1, <3>1, <3>3, WindowManageFills
    <3>4. CASE v # w
      <4>1. v \in All(o)
        BY <2>1, <3>1, <3>4, WindowManageFills
      <4>2. v \in Window
        BY <4>1, LiveFacts DEF All, Typed
      <4> QED BY <2>1, <3>1, <3>4, <4>1, <4>2, WindowManageFills DEF FillsInv
    <3> QED BY <3>3, <3>4
  <2> QED BY <1>1, <1>2, <1>15, <2>1 DEF ManageWindow
<1>16. CASE ManageSeat
  <2>1. CASE Crash
    BY <1>1, <1>2, <2>1
  <2>2. CASE ManageDone
    <3>1. pc' # "crashed"
      BY <2>2 DEF ManageDone
    <3>2. UNCHANGED <<mOutputs, geometryChanged, maximized, fullscreen, fills>>
      BY <2>2 DEF ManageDone
    <3>3. CASE UNCHANGED <<lists, dragged>>
      BY <1>1, <3>2, <3>3 DEF filling, lists
    <3>4. ASSUME NEW w \in Window, NEW out \in Usable, Placed(w),
                 Place(w, out, w \in minimized),
                 dragged' = Put(dragged, w, Fills(w))
          PROVE  FillsInv'
      <4> DEFINE hide == w \in minimized
      <4>1. Place(w, out, hide) /\ hide \in BOOLEAN
        BY <3>4
      <4> HIDE DEF hide
      <4>2. \A o \in Live : All(o)' \subseteq All(o) \cup {w}
        BY <3>4, <4>1, PlaceFacts, LiveFacts DEF All
      <4>3. \A v : v \in dragged /\ v # w => v \in dragged'
        BY <3>4 DEF Put
      <4>4. Fills(w) => w \in dragged'
        BY <3>4 DEF Put
      <4> QED BY <3>2, <4>2, <4>3, <4>4 DEF FillsInv, Live, Fills
    <3> QED BY <1>16, <3>1, <3>3, <3>4, ManageSeatFacts
  <2> QED BY <1>16, <2>1, <2>2 DEF ManageSeat
<1>17. CASE Next
  BY <1>3, <1>4, <1>5, <1>6, <1>7, <1>9, <1>10, <1>11, <1>13, <1>14, <1>15,
     <1>16, <1>17 DEF Next, ManageSequence
<1> QED BY <1>1, <1>2, <1>17

\* A window that is maximized or fullscreen fills the output it is on.
THEOREM FillsItsOutputHolds == Spec => []FillsItsOutput
<1>1. Init => FillsInv
  BY ToSetFacts DEF Init, FillsInv, Live
<1>2. Inv /\ FillsInv /\ [Next]_vars => FillsInv'
  BY FillsStep
<1>3. FillsInv => FillsItsOutput
  BY DEF FillsInv, FillsItsOutput, All
<1> QED BY <1>1, <1>2, <1>3, InvHolds, PTL DEF Spec

(***************************************************************************)
(* What a manage sequence has done when it ends.                           *)
(***************************************************************************)

(***************************************************************************)
(* OrphansAdopted.                                                         *)
(***************************************************************************)

\* Once output_adopt_orphans has run there are no orphans, or no outputs.
AdoptedInv ==
  pc \in {"fill", "closing", "orphans", "windows", "stashed"} =>
    mOrphanedWindows = <<>> \/ Usable = {}

\* Deleting a window makes no orphan.
LEMMA NoOrphansDestroyed ==
  ASSUME Inv, NEW w \in Window, Placed(w), DestroyWindow(w), mOrphanedWindows = <<>>
  PROVE  mOrphanedWindows' = <<>>
<1>1. Orphans = {}
  BY ToSetFacts DEF Orphans
<1>2. mOrphanedWindows' \in Seq(Window) /\ Orphans' = {}
  BY <1>1, DestroyWindowFacts
<1> QED BY <1>2, ToSetFacts DEF Orphans

\* The steps that end a sequence, from where they are taken.
LEMMA EndsStashed ==
  ASSUME Inv, [Next]_vars, SequenceEnds
  PROVE  pc = "stashed" /\ work = {}
<1>1. CASE ManageSequence
  <2>1. pc # "idle" /\ pc' = "idle"
    BY DEF SequenceEnds
  <2>2. ~Crash
    BY <2>1 DEF Crash
  <2> QED BY <1>1, <2>1, <2>2
          DEF ManageSequence, ManageStart, VisitOutput, AdoptOrphans, FillOutputs,
              StartOrphans, VisitOrphan, DestroySeat, NextOutput, ManageSeat,
              ManageNoSeat, CloseOrRestore, ManageWindow, Advance
<1>2. CASE UNCHANGED vars
  BY <1>2 DEF SequenceEnds, vars, loop
<1>3. CASE \/ \E o \in Output : OutputEvent(o)
           \/ \E w \in Window : WindowEvent(w)
           \/ WritesFreedOutput \/ SeatInput \/ RenderStart
  BY <1>3, EventsStayOutside DEF SequenceEnds
<1> QED BY <1>1, <1>2, <1>3 DEF Next

\* Every step keeps the orphans adopted until the sequence ends.
LEMMA AdoptedStep ==
  ASSUME Inv, AdoptedInv, [Next]_vars
  PROVE  AdoptedInv'
<1> USE DEF Inv
<1>1. CASE UNCHANGED vars
  BY <1>1 DEF vars, AdoptedInv, Usable, Live, loop, noted, outs, lists
<1>2. Crash => AdoptedInv'
  BY DEF Crash, AdoptedInv
<1>3. CASE \/ \E o \in Output : OutputEvent(o)
           \/ \E w \in Window : WindowEvent(w)
           \/ WritesFreedOutput \/ SeatInput \/ RenderStart
  BY <1>3, EventsStayOutside DEF AdoptedInv, loop
<1>4. CASE ManageStart \/ VisitOutput \/ ManageSeat \/ ManageNoSeat
  <2>1. pc' \in {"idle", "outputs", "crashed"}
    BY <1>4 DEF ManageStart, VisitOutput, Advance, ManageSeat, ManageNoSeat,
                ManageDone, Crash
  <2> QED BY <2>1 DEF AdoptedInv
<1>5. CASE AdoptOrphans
  <2>1. Usable' = Usable
    BY <1>5 DEF AdoptOrphans, outs, Usable, Live
  <2> QED BY <1>5, <2>1, AdoptOrphansFacts DEF AdoptedInv, lists
<1>6. CASE FillOutputs \/ StartOrphans \/ NextOutput
  <2>1. /\ pc \in {"fill", "closing", "windows"}
        /\ UNCHANGED <<mOutputs, removed, mOrphanedWindows>>
    BY <1>6 DEF FillOutputs, StartOrphans, NextOutput, outs, lists
  <2> QED BY <2>1 DEF AdoptedInv, Usable, Live
<1>7. CASE DestroySeat
  BY <1>2, <1>7 DEF DestroySeat, AdoptedInv, Usable, Live, outs, lists
<1>8. ASSUME NEW w \in Window, CloseOrRestore(w) PROVE AdoptedInv'
  <2>1. Placed(w) /\ pc = "closing"
    BY <1>8, WorkPlaced DEF CloseOrRestore
  <2>2. CASE ~Crash
    <3>1. Usable' = Usable
      BY <1>8, <2>2 DEF CloseOrRestore, outs, Usable, Live
    <3>2. mOrphanedWindows = <<>> => mOrphanedWindows' = <<>>
      BY <1>8, <2>1, <2>2, NoOrphansDestroyed DEF CloseOrRestore, lists
    <3> QED BY <2>1, <3>1, <3>2 DEF AdoptedInv
  <2> QED BY <1>2, <2>2
<1>9. CASE VisitOrphan
  <2> DEFINE w == (mOrphanedWindows \o tail)[cursor]
  <2>1. pc = "orphans" /\ cursor <= Len(mOrphanedWindows \o tail)
    BY <1>9 DEF VisitOrphan
  <2>2. CASE UNCHANGED <<outs, lists>>
    BY <2>1, <2>2 DEF AdoptedInv, outs, lists, Usable, Live
  <2>3. CASE w \in closed /\ DestroyWindow(w) /\ UNCHANGED outs
    <3>1. w \in Alive
      BY <2>3 DEF Lifetimes
    <3>2. w \in Window /\ Placed(w)
      BY <2>1, <3>1, VisitOrphanFacts
    <3> HIDE DEF w
    <3>3. mOrphanedWindows = <<>> => mOrphanedWindows' = <<>>
      BY <2>3, <3>2, NoOrphansDestroyed
    <3> QED BY <2>1, <2>3, <3>3 DEF AdoptedInv, outs, Usable, Live
  <2> QED BY <1>2, <1>9, <2>2, <2>3 DEF VisitOrphan
<1>10. ASSUME NEW w \in Window, ManageWindow(w) PROVE AdoptedInv'
  <2>1. CASE ~Crash
    <3>1. /\ pc \in {"windows", "stashed"}
          /\ UNCHANGED <<mOutputs, removed, mOrphanedWindows>>
      BY <1>10, <2>1 DEF ManageWindow, WindowManage, outs
    <3> QED BY <3>1 DEF AdoptedInv, Usable, Live
  <2> QED BY <1>2, <2>1
<1> QED BY <1>1, <1>3, <1>4, <1>5, <1>6, <1>7, <1>8, <1>9, <1>10
        DEF Next, ManageSequence

\* No sequence ends with an orphan that an output could have taken.
THEOREM OrphansAdoptedHolds == Spec => OrphansAdopted
<1>1. Init => AdoptedInv
  BY DEF Init, AdoptedInv
<1>2. Inv /\ AdoptedInv /\ [Next]_vars => AdoptedInv'
  BY AdoptedStep
<1>3. Inv /\ AdoptedInv /\ [Next]_vars =>
        [SequenceEnds => mOrphanedWindows = <<>> \/ Usable = {}]_vars
  BY EndsStashed DEF AdoptedInv
<1> QED BY <1>1, <1>2, <1>3, InvHolds, PTL DEF Spec, OrphansAdopted

(***************************************************************************)
(* WishesGranted.                                                          *)
(***************************************************************************)

\* What a window is granted.
Granted(w) ==
  /\ w \in maximized <=> w \in wantMaximized
  /\ w \in fullscreen <=> w \in wantFullscreen
  /\ w \notin isNew \cup wantMinimized \cup moveRequested \cup resizeRequested

\* How far the sequence has got with that.
GrantedInv ==
  /\ pc = "closing" => \A o \in Live : All(o) \cap closed \subseteq work
  /\ pc \in {"orphans", "windows", "stashed"} =>
       \A o \in Live : All(o) \cap closed = {}
  /\ pc = "windows" =>
       \A i \in DOMAIN mOutputs : i <= cursor =>
         \A w \in windows[mOutputs[i]] \ work : Granted(w)
  /\ pc = "stashed" => \A o \in Live : \A w \in windows[o] : Granted(w)

\* A window shown on an output is granted what it asked for when it is
\* managed, and nothing is taken from the others.
LEMMA WindowManageGrants ==
  ASSUME Inv, NEW w \in Window, Placed(w), WindowManage(w)
  PROVE  /\ \A v \in Window \ {w} : Granted(v) => Granted(v)'
         /\ \A o \in Live : w \in windows[o] => Granted(w)'
         /\ \A o \in Live : /\ All(o)' \ {w} \subseteq All(o)
                            /\ windows'[o] \ {w} \subseteq windows[o]
         /\ (\A o \in Live : w \notin All(o)) => \A o \in Live : w \notin All(o)'
<1> USE DEF Inv
<1> DEFINE out     == OutputOf(w)
           full    == w \in fullscreen
           drag    == w \in moveRequested /\ ~full
           wantMax == ~drag /\ IF pendingNav[w] = "max" THEN w \notin maximized
                                                        ELSE w \in wantMaximized
           wantFs  == w \in wantFullscreen
           max     == w \in maximized /\ ~(drag /\ out # None)
           change  == out # None /\ (wantMax # max \/ wantFs # full)
           newMax  == IF change THEN wantMax ELSE max
           newFull == IF change THEN wantFs ELSE full
           wantMin == w \in wantMinimized \/ pendingNav[w] = "min"
           hide    == out # None /\ wantMin /\ w \notin minimized
<1>1. /\ maximized' = Put(maximized, w, newMax)
      /\ fullscreen' = Put(fullscreen, w, newFull)
      /\ wantMaximized' = Put(wantMaximized, w, wantMax)
      /\ wantMinimized' = Put(wantMinimized, w, wantMin /\ ~hide)
      /\ moveRequested' = moveRequested \ {w}
      /\ resizeRequested' = resizeRequested \ {w}
      /\ isNew' = isNew \ {w}
      /\ UNCHANGED wantFullscreen
  BY DEF WindowManage
<1>2. \A v \in Window \ {w} : Granted(v) => Granted(v)'
  <2> HIDE DEF newMax, newFull, wantMax, wantMin, hide
  <2> QED BY <1>1 DEF Put, Granted
<1>3. ASSUME NEW o \in Live, w \in windows[o] PROVE Granted(w)'
  <2>1. out # None /\ w \notin minimized
    BY <1>3, OutputOfFacts, LiveFacts DEF All, MinimizedListed
  <2>2. newMax = wantMax /\ newFull = wantFs
    BY <2>1
  <2>3. hide <=> wantMin
    BY <2>1
  <2> HIDE DEF newMax, newFull, wantMax, wantMin, hide
  <2> QED BY <1>1, <2>2, <2>3 DEF Put, Granted
<1>4. /\ \A o \in Live : /\ All(o)' \ {w} \subseteq All(o)
                         /\ windows'[o] \ {w} \subseteq windows[o]
      /\ (\A o \in Live : w \notin All(o)) => \A o \in Live : w \notin All(o)'
  <2>1. CASE UNCHANGED <<windows, minimizedWindows>>
    BY <2>1 DEF All
  <2>2. ASSUME NEW to \in Live, NEW b \in BOOLEAN, Place(w, to, b),
               \E o \in Live : w \in All(o)
        PROVE  \A o \in Live : /\ All(o)' \ {w} \subseteq All(o)
                               /\ windows'[o] \ {w} \subseteq windows[o]
    BY <2>2, PlaceFacts, LiveFacts DEF All
  <2> QED BY <2>1, <2>2, WindowManageFacts
<1> QED BY <1>2, <1>3, <1>4

\* Every step keeps what has been granted so far.
LEMMA GrantedStep ==
  ASSUME Inv, GrantedInv, [Next]_vars
  PROVE  GrantedInv'
<1> USE DEF Inv
<1>1. CASE UNCHANGED vars
  BY <1>1 DEF vars, GrantedInv, Granted, Live, All, loop, noted, outs, lists, life,
              state, wants
<1>2. Crash => GrantedInv'
  BY DEF Crash, GrantedInv
<1>3. CASE \/ \E o \in Output : OutputEvent(o)
           \/ \E w \in Window : WindowEvent(w)
           \/ WritesFreedOutput \/ SeatInput \/ RenderStart
  BY <1>3, EventsStayOutside DEF GrantedInv, loop
<1>4. CASE ManageStart \/ VisitOutput \/ AdoptOrphans \/ ManageSeat \/ ManageNoSeat
  <2>1. pc' \in {"idle", "outputs", "fill", "crashed"}
    BY <1>4 DEF ManageStart, VisitOutput, Advance, AdoptOrphans, ManageSeat,
                ManageNoSeat, ManageDone, Crash
  <2> QED BY <2>1 DEF GrantedInv
<1>5. CASE FillOutputs
  <2>1. /\ pc' = "closing" /\ work' = UNION {All(o) : o \in Live}
        /\ UNCHANGED <<mOutputs, lists>>
    BY <1>5 DEF FillOutputs, All
  <2>2. \A o \in Live' : All(o)' \subseteq work'
    BY <2>1 DEF Live, All, lists
  <2> QED BY <2>1, <2>2 DEF GrantedInv
<1>6. CASE StartOrphans
  <2>1. pc = "closing" /\ pc' = "orphans" /\ work = {} /\ UNCHANGED <<outs, lists, life>>
    BY <1>6 DEF StartOrphans
  <2> QED BY <2>1 DEF GrantedInv, outs, lists, life, Live, All
<1>7. CASE DestroySeat
  <2>1. CASE pc = "orphans" /\ pc' = "windows" /\ cursor' = 0
             /\ UNCHANGED <<outs, lists, life>>
    BY <2>1 DEF GrantedInv, outs, lists, life, Live, All, Typed
  <2> QED BY <1>2, <1>7, <2>1 DEF DestroySeat
<1>8. ASSUME NEW w \in Window, Placed(w), DestroyWindow(w), UNCHANGED outs
      PROVE  \A o \in Live : (All(o) \cap closed)' = (All(o) \cap closed) \ {w}
  BY <1>8, DestroyWindowFacts, LiveFacts DEF DestroyWindow, All
<1>9. ASSUME NEW w \in Window, CloseOrRestore(w) PROVE GrantedInv'
  <2>1. CASE ~Crash
    <3>1. /\ pc = "closing" /\ pc' = "closing" /\ w \in work
          /\ work' = work \ {w} /\ UNCHANGED outs
      BY <1>9, <2>1 DEF CloseOrRestore
    <3>2. Placed(w) /\ Live' = Live /\ \E o \in Live : w \in All(o)
      BY <3>1, WorkPlaced DEF outs, Live, Visits
    <3>3. \A o \in Live : (All(o) \cap closed)' \subseteq (All(o) \cap closed) \ {w}
      <4>1. CASE DestroyWindow(w)
        BY <1>8, <3>1, <3>2, <4>1
      <4>2. CASE ToggleMinimized(w, OutputOf(w)) /\ UNCHANGED life /\ w \notin closed
        <5>1. OutputOf(w) \in Live /\ w \in All(OutputOf(w))
          BY <3>2, OutputOfFacts
        <5>2. \A o \in Output : All(o)' = All(o)
          BY <4>2, <5>1, LiveFacts DEF ToggleMinimized, Put, All, Typed
        <5> QED BY <4>2, <5>2, LiveFacts DEF life
      <4>3. CASE w \notin closed /\ UNCHANGED <<lists, life>>
        BY <4>3 DEF lists, life, All
      <4> QED BY <1>9, <2>1, <4>1, <4>2, <4>3 DEF CloseOrRestore
    <3> QED BY <3>1, <3>2, <3>3 DEF GrantedInv
  <2> QED BY <1>2, <2>1
<1>10. CASE VisitOrphan
  <2> DEFINE w == (mOrphanedWindows \o tail)[cursor]
  <2>1. pc = "orphans" /\ cursor <= Len(mOrphanedWindows \o tail)
    BY <1>10 DEF VisitOrphan
  <2>2. CASE pc' = pc /\ UNCHANGED <<outs, lists, life>>
    BY <2>1, <2>2 DEF GrantedInv, outs, lists, life, Live, All
  <2>3. CASE w \in closed /\ DestroyWindow(w) /\ UNCHANGED outs /\ pc' = pc
    <3>1. w \in Alive
      BY <2>3 DEF Lifetimes
    <3>2. w \in Window /\ Placed(w)
      BY <2>1, <3>1, VisitOrphanFacts
    <3> HIDE DEF w
    <3>3. \A o \in Live : (All(o) \cap closed)' \subseteq All(o) \cap closed
      BY <1>8, <2>3, <3>2
    <3> QED BY <2>1, <2>3, <3>3 DEF GrantedInv, outs, Live
  <2> QED BY <1>2, <1>10, <2>2, <2>3 DEF VisitOrphan, Advance
<1>11. CASE NextOutput
  <2>1. /\ pc = "windows" /\ work = {}
        /\ UNCHANGED <<outs, lists, life, state, wants>>
    BY <1>11 DEF NextOutput
  <2>2. \A o \in Live' : (All(o) \cap closed)' = {}
    BY <2>1 DEF GrantedInv, outs, lists, life, Live, All
  <2>3. \A w : Granted(w) => Granted(w)'
    BY <2>1 DEF Granted, life, state, wants
  <2>4. CASE /\ cursor < Len(mOutputs) /\ cursor' = cursor + 1 /\ pc' = pc
             /\ work' = windows[mOutputs[cursor']]
    <3>1. ASSUME NEW i \in DOMAIN mOutputs', i <= cursor',
                 NEW w \in windows'[mOutputs'[i]] \ work'
          PROVE  Granted(w)'
      <4>1. i # cursor' /\ i \in Nat /\ i \in DOMAIN mOutputs
        BY <2>1, <2>4, <3>1 DEF Typed, outs, lists
      <4>2. i <= cursor
        BY <2>4, <3>1, <4>1 DEF Typed
      <4>3. w \in windows[mOutputs[i]] \ work
        BY <2>1, <3>1 DEF outs, lists
      <4> QED BY <2>1, <2>3, <4>1, <4>2, <4>3 DEF GrantedInv
    <3> QED BY <2>1, <2>2, <2>4, <3>1 DEF GrantedInv
  <2>5. CASE cursor = Len(mOutputs) /\ pc' = "stashed"
    <3>1. ASSUME NEW o \in Live', NEW w \in windows'[o]
          PROVE  Granted(w)'
      <4>1. PICK i \in DOMAIN mOutputs : o = mOutputs[i]
        BY <2>1, <3>1 DEF Live, ToSet, outs
      <4>2. i <= cursor /\ w \in windows[mOutputs[i]] \ work
        BY <2>1, <2>5, <4>1 DEF lists, Typed
      <4> QED BY <2>1, <2>3, <4>1, <4>2 DEF GrantedInv
    <3> QED BY <2>2, <2>5, <3>1 DEF GrantedInv
  <2> QED BY <1>11, <2>4, <2>5 DEF NextOutput
<1>12. ASSUME NEW w \in Window, ManageWindow(w) PROVE GrantedInv'
  <2>1. CASE /\ WindowManage(w) /\ work' = work \ {w}
             /\ UNCHANGED <<pc, cursor, tail, noted, outs>>
    <3>1. Placed(w) /\ pc \in {"windows", "stashed"} /\ w \in work
      BY <1>12, WorkPlaced DEF ManageWindow
    <3>2. Live' = Live /\ mOutputs' = mOutputs /\ closed' = closed
      BY <2>1, <3>1, WindowManageFacts DEF outs, Live
    <3>3. w \notin Orphans => w \notin closed
      BY <3>1 DEF GrantedInv, Placed
    <3>4. \A o \in Live : (All(o) \cap closed)' = {}
      <4>1. CASE w \in Orphans
        <5>1. \A o \in Live : w \notin All(o)
          BY <4>1, LiveFacts DEF WindowsListed
        <5>2. \A o \in Live : w \notin All(o)' /\ All(o)' \ {w} \subseteq All(o)
          BY <2>1, <3>1, <5>1, WindowManageGrants
        <5> QED BY <3>1, <3>2, <5>2 DEF GrantedInv
      <4>2. CASE w \notin Orphans
        <5>1. \A o \in Live : All(o)' \ {w} \subseteq All(o)
          BY <2>1, <3>1, WindowManageGrants
        <5> QED BY <3>1, <3>2, <3>3, <4>2, <5>1 DEF GrantedInv
      <4> QED BY <4>1, <4>2
    <3>5. ASSUME pc = "windows", NEW i \in DOMAIN mOutputs, i <= cursor,
                 NEW v \in windows'[mOutputs[i]] \ work'
          PROVE  Granted(v)'
      <4>1. mOutputs[i] \in Live
        BY DEF Typed, Live, ToSet
      <4>2. CASE v = w
        <5>1. \E o \in Live : w \in windows[o]
          BY <3>1, <3>5 DEF Visits
        <5> QED BY <2>1, <3>1, <4>2, <5>1, WindowManageGrants
      <4>3. CASE v # w
        <5>1. v \in windows[mOutputs[i]] \ work
          BY <2>1, <3>1, <4>1, <4>3, WindowManageGrants
        <5>2. v \in Window
          BY <4>1, <5>1, LiveFacts DEF Typed
        <5>3. Granted(v)
          BY <3>5, <5>1 DEF GrantedInv
        <5> QED BY <2>1, <3>1, <4>3, <5>2, <5>3, WindowManageGrants
      <4> QED BY <4>2, <4>3
    <3>6. ASSUME pc = "stashed", NEW o \in Live, NEW v \in windows'[o]
          PROVE  Granted(v)'
      <4>1. \A p \in Live : w \notin All(p)
        BY <3>1, <3>6, LiveFacts DEF Visits, WindowsListed
      <4>2. v # w
        BY <2>1, <3>1, <4>1, WindowManageGrants DEF All
      <4>3. v \in windows[o] /\ v \in Window
        BY <2>1, <3>1, <4>2, LiveFacts, WindowManageGrants DEF Typed
      <4> QED BY <2>1, <3>1, <3>6, <4>2, <4>3, WindowManageGrants DEF GrantedInv
    <3> QED BY <2>1, <3>1, <3>2, <3>4, <3>5, <3>6 DEF GrantedInv
  <2> QED BY <1>2, <1>12, <2>1 DEF ManageWindow
<1> QED BY <1>1, <1>3, <1>4, <1>5, <1>6, <1>7, <1>9, <1>10, <1>11, <1>12
        DEF Next, ManageSequence

\* A manage sequence ends with every wish of a shown window granted.
THEOREM WishesGrantedHolds == Spec => WishesGranted
<1> DEFINE granted == SequenceEnds =>
       \A o \in Live : \A w \in windows[o] :
         /\ w \in maximized <=> w \in wantMaximized
         /\ w \in fullscreen <=> w \in wantFullscreen
         /\ w \notin isNew \cup wantMinimized \cup moveRequested
                         \cup resizeRequested \cup closed
<1>1. Init => GrantedInv
  BY DEF Init, GrantedInv
<1>2. Inv /\ GrantedInv /\ [Next]_vars => GrantedInv'
  BY GrantedStep
<1>3. Inv /\ GrantedInv /\ [Next]_vars => [granted]_vars
  BY EndsStashed DEF GrantedInv, Granted, All
<1> HIDE DEF granted
<1>4. Spec => [][granted]_vars
  BY <1>1, <1>2, <1>3, InvHolds, PTL DEF Spec
<1> QED BY <1>4 DEF WishesGranted, granted

(***************************************************************************)
(* FocusTakenOver.                                                         *)
(***************************************************************************)

\* seat_manage leaves the focus empty only with nothing to give it to: the
\* output under the pointer is empty when it looks, and afterwards shows at
\* most the window it has put there.
LEMMA ManageSeatFocuses ==
  ASSUME Inv, ManageSeat, pc' # "crashed"
  PROVE  FocusTakenOver'
<1> USE DEF Inv
<1>1. UNCHANGED <<mOutputs, removed, under, isNew>>
  BY ManageSeatFacts DEF ManageDone, life
<1>2. Live' = Live /\ Usable' = Usable
  BY <1>1 DEF Usable, Live
<1> SUFFICES ASSUME focused' = None
             PROVE  IF under = None THEN Usable = {}
                                    ELSE windows'[under] \subseteq {dropped'}
  BY <1>1, <1>2 DEF FocusTakenOver
<1>3. (Usable = {} /\ under = None) \/ (under \in Usable /\ windows[under] = {})
  <2>1. \A o \in Usable : None \notin windows[o]
    BY LiveFacts, NoneAssumption DEF Typed, Usable
  <2> QED BY <2>1, ManageSeatFacts
<1>4. CASE under \in Usable /\ windows[under] = {}
  <2>1. under \in Output /\ under # None
    BY <1>4, LiveFacts DEF Usable
  <2>2. CASE UNCHANGED lists
    BY <1>4, <2>1, <2>2 DEF lists
  <2>3. ASSUME NEW w \in Window, NEW out \in Usable, Placed(w), dropped' = w,
               Place(w, out, w \in minimized)
        PROVE  windows'[under] \subseteq {dropped'}
    <3> DEFINE hide == w \in minimized
    <3>1. hide \in BOOLEAN /\ Place(w, out, hide)
      BY <2>3
    <3> HIDE DEF hide
    <3> QED BY <1>4, <2>1, <2>3, <3>1, PlaceFacts
  <2> QED BY <2>1, <2>2, <2>3, ManageSeatFacts
<1> QED BY <1>3, <1>4

\* The events in between leave it so.
LEMMA FocusStep ==
  ASSUME Inv, FocusTakenOver, [Next]_vars
  PROVE  FocusTakenOver'
<1> USE DEF Inv
<1> DEFINE quiet == UNCHANGED <<pc, under, dropped, seat, focused, mOutputs, removed,
                                windows, isNew>>
<1>1. quiet => FocusTakenOver'
  BY DEF FocusTakenOver, Usable, Live
<1>2. pc' # "idle" => FocusTakenOver'
  BY DEF FocusTakenOver
<1>3. ASSUME NEW o \in Output, OutputEvent(o) PROVE FocusTakenOver'
  <2>1. CASE OutputAnnounced(o)
    <3>1. /\ Live' = Live \cup {o} /\ removed' = removed /\ pc = "idle"
          /\ UNCHANGED <<under, dropped, windows, isNew, seat, focused>>
      BY <2>1, ToSetFacts
         DEF OutputAnnounced, Idle, Typed, Live, loop, noted, lists, life, seats
    <3>2. windows[o] = {} /\ Usable' \subseteq Usable \cup {o}
      BY <2>1, <3>1 DEF OutputAnnounced, OutputsListed, All, Usable
    <3> QED BY <3>1, <3>2 DEF FocusTakenOver
  <2>2. CASE OutputRemoved(o)
    <3>1. /\ Live' = Live /\ Usable' \subseteq Usable /\ pc = "idle"
          /\ UNCHANGED <<under, dropped, windows, isNew, seat, focused>>
      BY <2>2 DEF OutputRemoved, Idle, Usable, Live, loop, noted, lists, life, seats
    <3> QED BY <3>1 DEF FocusTakenOver
  <2>3. CASE Moved(o)
    <3>1. quiet
      BY <2>3 DEF Moved, Idle, loop, noted, lists, life, seats
    <3> QED BY <1>1, <3>1
  <2> QED BY <1>3, <2>1, <2>2, <2>3 DEF OutputEvent, OutputPosition, OutputDimensions
<1>4. ASSUME NEW w \in Window, WindowEvent(w) PROVE FocusTakenOver'
  <2>1. CASE WindowCreated(w)
    <3>1. /\ \A o \in Output : windows'[o] \subseteq windows[o] \cup {w}
          /\ isNew' = isNew \cup {w} /\ pc = "idle"
          /\ UNCHANGED <<under, dropped, mOutputs, removed, seat, focused>>
      BY <2>1 DEF WindowCreated, Idle, loop, noted, outs, seats, Typed
    <3>2. Live' = Live /\ Usable' = Usable
      BY <3>1 DEF Live, Usable
    <3>3. Usable \subseteq Output /\ under \in Output \cup {None}
      BY LiveFacts DEF Typed, Usable
    <3> QED BY <3>1, <3>2, <3>3 DEF FocusTakenOver
  <2>2. CASE ~WindowCreated(w)
    <3>1. quiet
      BY <1>4, <2>2
         DEF WindowEvent, WindowClosed, MaximizeRequested, FullscreenRequested,
             ExitFullscreenRequested, MinimizeRequested, PointerOpRequested,
             IconClicked, Request, Idle, loop, noted, outs, lists, life, seats
    <3> QED BY <1>1, <3>1
  <2> QED BY <2>1, <2>2
<1>5. CASE SeatInput
  <2>1. CASE SeatAnnounced
    BY <2>1 DEF SeatAnnounced, FocusTakenOver
  <2>2. CASE ~SeatAnnounced
    <3>1. quiet \/ pc' = "crashed"
      BY <1>5, <2>2
         DEF SeatInput, SeatRemoved, OpReleased, WindowInteraction,
             PointerEntersWindow, PointerEntersDecoration, ButtonReleased,
             BindingReleased, BindingPressed, SeatEvent, Idle, Crash, loop, noted, outs,
             lists, life, seats
    <3> QED BY <1>1, <1>2, <3>1
  <2> QED BY <2>1, <2>2
<1>6. CASE RenderStart
  <2>1. quiet
    BY <1>6 DEF RenderStart, Idle, loop, noted, outs, lists, life, seats
  <2> QED BY <1>1, <2>1
<1>7. CASE WritesFreedOutput
  BY <1>2, <1>7 DEF WritesFreedOutput, Crash
<1>8. CASE ManageNoSeat
  <2>1. seat' # "ready" \/ pc' # "idle"
    BY <1>8 DEF ManageNoSeat, Crash, seats
  <2> QED BY <2>1 DEF FocusTakenOver
<1>9. CASE ManageSeat
  <2>1. CASE pc' = "crashed"
    BY <1>2, <2>1
  <2> QED BY <1>9, <2>1, ManageSeatFocuses
<1>10. CASE ManageSequence /\ ~ManageSeat /\ ~ManageNoSeat
  <2>1. pc' # "idle"
    BY <1>10
       DEF ManageSequence, ManageStart, VisitOutput, AdoptOrphans, FillOutputs,
           StartOrphans, VisitOrphan, DestroySeat, NextOutput, CloseOrRestore,
           ManageWindow, Advance, Crash
  <2> QED BY <1>2, <2>1
<1>11. CASE UNCHANGED vars
  <2>1. quiet
    BY <1>11 DEF vars, loop, noted, outs, lists, life, seats
  <2> QED BY <1>1, <2>1
<1> QED BY <1>3, <1>4, <1>5, <1>6, <1>7, <1>8, <1>9, <1>10, <1>11 DEF Next

\* Between sequences the focus is empty only while the output under the pointer
\* shows nothing that was there when seat_manage looked.
THEOREM FocusTakenOverHolds == Spec => []FocusTakenOver
<1>1. Init => FocusTakenOver
  BY DEF Init, FocusTakenOver
<1>2. Inv /\ FocusTakenOver /\ [Next]_vars => FocusTakenOver'
  BY FocusStep
<1> QED BY <1>1, <1>2, InvHolds, PTL DEF Spec
=============================================================================
