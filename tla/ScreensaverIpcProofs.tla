------------------------ MODULE ScreensaverIpcProofs ------------------------
(***************************************************************************)
(* What the shell and the screensaver's loader behind the lock dialog      *)
(* guarantee, for any number of surfaces, sizes and buffers, and any room  *)
(* in the socket to the loader: what is presented fits, nothing is left    *)
(* behind by a screensaver or a surface that is gone, and the loader does  *)
(* not draw into a buffer that the shell uses.                             *)
(***************************************************************************)
EXTENDS ScreensaverIpc, SequenceTheorems, WellFoundedInduction, TLAPS

\* A lock surface without a size shows nothing.
NothingYet == \A s \in Surface : shown[s].size = None => shown[s].buffer = None

Inv == TypeOK /\ PresentedFits /\ NothingLeftBehind /\ NothingYet

LEMMA ConstantFacts ==
  /\ None \notin Size /\ NBuffers \in Nat \ {0} /\ None \notin Buffer
  /\ Black \notin Buffer /\ MaxConfigures \in Nat /\ Room \in Nat
  BY ConstantsOK DEF ConstantsOK, Buffer, Id

LEMMA ToLoaderFacts ==
  /\ \A s \in Surface, sz \in Size : [type |-> "CONFIGURE", output |-> s, size |-> sz] \in ToLoader
  /\ \A s \in Surface : /\ [type |-> "REMOVE", output |-> s] \in ToLoader
                        /\ [type |-> "FRAME", output |-> s] \in ToLoader
  /\ \A s \in Surface, i \in Id :
       [type |-> "RELEASE", output |-> s, buffer |-> i] \in ToLoader
  /\ \A m \in ToLoader :
       m.output \in Surface /\ (m.type = "CONFIGURE" => m.size \in Size)
  BY DEF ToLoader

LEMMA ToShellFacts ==
  /\ \A s \in Surface, b \in Buffer, sz \in Size :
       [type |-> "BUFFER", output |-> s, buffer |-> b, size |-> sz] \in ToShell
  /\ \A s \in Surface, b \in Buffer :
       [type |-> "READY", output |-> s, buffer |-> b] \in ToShell
  /\ \A m \in ToShell :
       /\ m.output \in Surface /\ m.buffer \in Buffer
       /\ m.type = "BUFFER" => m.size \in Size
  BY DEF ToShell

LEMMA BufferFacts ==
  /\ \A n \in Nat, i \in Id : <<n, i>> \in Buffer
  /\ \A b \in Buffer : b[2] \in Id
  BY DEF Buffer

\* scr_send keeps everything but the socket to the loader.
LEMMA ScrSendFacts ==
  ASSUME TypeOK, NEW m \in ToLoader, ScrSend(m)
  PROVE  /\ scrFd' = scrFd /\ toShell' = toShell
         /\ toLoader' \in Seq(ToLoader) /\ dropped' \subseteq Surface
<1>1. m.output \in Surface
  BY ToLoaderFacts
<1>2. toLoader \in Seq(ToLoader) /\ dropped \subseteq Surface
  BY DEF TypeOK
<1>3. Append(toLoader, m) \in Seq(ToLoader)
  BY <1>2, AppendProperties
<1> QED
  BY <1>1, <1>2, <1>3 DEF ScrSend, socket

Content == [buffer : Buffer \cup {None, Black}, size : Size \cup {None}]

\* show_black gives a configured surface black content of its size.
LEMMA BlackenedFacts ==
  ASSUME TypeOK, NEW there \in SUBSET Surface, NEW sizes \in [Surface -> Size \cup {None}]
  PROVE  /\ Blackened(there, sizes) \in [Surface -> Content]
         /\ \A s \in there : sizes[s] # None =>
              Blackened(there, sizes)[s] = [buffer |-> Black, size |-> sizes[s]]
         /\ \A s \in Surface : s \notin there \/ sizes[s] = None =>
              Blackened(there, sizes)[s] = shown[s]
  BY DEF TypeOK, Blackened, Configured, Content

LEMMA NoSlotsType == NoSlots \in [Id -> Slot \cup {None}]
  BY DEF NoSlots

\* scr_present shows what fits.
LEMMA ScrPresentFacts ==
  ASSUME TypeOK, NEW s \in Surface, NEW b \in Slot, ScrPresent(s, b)
  PROVE  /\ shown' \in [Surface -> Content] /\ reading' \in [Surface -> SUBSET Buffer]
         /\ callback' \subseteq callback \cup {s}
         /\ \A t \in Surface : t # s => shown'[t] = shown[t]
         /\ shown'[s] = shown[s] \/ shown'[s] = [buffer |-> b.buffer, size |-> size[s]]
         /\ size[s] = None => shown'[s] = shown[s]
<1>1. /\ shown \in [Surface -> Content] /\ reading \in [Surface -> SUBSET Buffer]
      /\ b.buffer \in Buffer /\ b.size \in Size /\ b.size # None
  BY ConstantFacts DEF TypeOK, Content, Slot
<1>2. CASE Fits(s, b.size)
  <2>1. /\ shown' = [shown EXCEPT ![s] = [buffer |-> b.buffer, size |-> b.size]]
        /\ reading' = [reading EXCEPT ![s] = @ \cup {b.buffer}]
        /\ callback' = callback \cup {s} /\ b.size = size[s]
    BY <1>2 DEF ScrPresent, Fits
  <2>2. [buffer |-> b.buffer, size |-> b.size] \in Content
    BY <1>1 DEF Content
  <2> QED
    BY <1>1, <2>1, <2>2
<1>3. CASE ~Fits(s, b.size)
  BY <1>1, <1>3 DEF ScrPresent
<1> QED
  BY <1>2, <1>3

\* The smallest of some buffer ids is there to be chosen (output_draw).
LEMMA Smallest ==
  ASSUME NEW T \in SUBSET Id, T # {}
  PROVE  (CHOOSE i \in T : \A j \in T : i <= j) \in T
<1>1. T \subseteq Nat
  BY ConstantFacts DEF Id
<1>2. \E i \in T : \A j \in T : ~(<<j, i>> \in OpToRel(<, Nat))
  BY <1>1, NatLessThanWellFounded, WFMin
<1>3. \A i, j \in Nat : ~(<<j, i>> \in OpToRel(<, Nat)) => i <= j
  BY DEF OpToRel
<1>4. \E i \in T : \A j \in T : i <= j
  BY <1>1, <1>2, <1>3
<1> QED
  BY <1>4

(***************************************************************************)
(* The shell's steps.                                                      *)
(***************************************************************************)

\* screensaver_failed blackens the surfaces that have a size.
LEMMA FailedFacts ==
  ASSUME Inv, NEW sizes \in [Surface -> Size \cup {None}], ScreensaverFailed(live, sizes)
  PROVE  /\ scrFd' = FALSE /\ callback' = {} /\ slot' = [s \in Surface |-> NoSlots]
         /\ slot' \in [Surface -> [Id -> Slot \cup {None}]]
         /\ toShell' \in Seq(ToShell) /\ toLoader' \in Seq(ToLoader)
         /\ dropped' \subseteq Surface /\ shown' \in [Surface -> Content]
         /\ \A s \in live : sizes[s] # None =>
              shown'[s] = [buffer |-> Black, size |-> sizes[s]]
         /\ \A s \in Surface : s \notin live \/ sizes[s] = None => shown'[s] = shown[s]
<1>1. /\ live \in SUBSET Surface /\ toLoader \in Seq(ToLoader) /\ dropped \subseteq Surface
      /\ TypeOK
  BY DEF Inv, TypeOK
<1>2. /\ scrFd' = FALSE /\ callback' = {} /\ slot' = [s \in Surface |-> NoSlots]
      /\ toShell' = <<>> /\ toLoader' = toLoader /\ dropped' = dropped
  BY DEF ScreensaverFailed, StopScreensaver
<1>3. slot' \in [Surface -> [Id -> Slot \cup {None}]]
  BY <1>2, NoSlotsType
<1>4. shown' = Blackened(live, sizes)
  BY DEF ScreensaverFailed
<1>5. /\ shown' \in [Surface -> Content]
      /\ \A s \in live : sizes[s] # None =>
           shown'[s] = [buffer |-> Black, size |-> sizes[s]]
      /\ \A s \in Surface : s \notin live \/ sizes[s] = None => shown'[s] = shown[s]
  BY <1>1, <1>4, BlackenedFacts
<1> QED
  BY <1>1, <1>2, <1>3, <1>5, EmptySeq

\* Surfaces that stay, with the sizes they are blackened for, are as they should be.
LEMMA FailedSafe ==
  ASSUME Inv, NEW sizes \in [Surface -> Size \cup {None}], ScreensaverFailed(live, sizes),
         size' = sizes, live' \subseteq live,
         \A s \in live : sizes[s] = None => size[s] = None
  PROVE  PresentedFits' /\ NothingLeftBehind' /\ NothingYet'
<1>1. live \subseteq Surface
  BY DEF Inv, TypeOK
<1>2. PresentedFits /\ NothingYet
  BY DEF Inv
<1>0. /\ scrFd' = FALSE /\ callback' = {} /\ slot' = [s \in Surface |-> NoSlots]
      /\ \A s \in live : sizes[s] # None =>
           shown'[s] = [buffer |-> Black, size |-> sizes[s]]
      /\ \A s \in Surface : s \notin live \/ sizes[s] = None => shown'[s] = shown[s]
  BY FailedFacts
<1>3. ASSUME NEW s \in live'
      PROVE  shown'[s].size = size'[s] /\ shown'[s].buffer \in {None, Black}
  <2>1. s \in live /\ s \in Surface
    BY <1>1, <1>3
  <2>2. CASE sizes[s] = None
    BY <1>0, <1>2, <2>1, <2>2 DEF PresentedFits, NothingYet
  <2>3. CASE sizes[s] # None
    <3>1. shown'[s] = [buffer |-> Black, size |-> sizes[s]]
      BY <1>0, <2>1, <2>3
    <3> QED
      BY <3>1
  <2> QED
    BY <2>2, <2>3
<1>4. ASSUME NEW s \in Surface, shown'[s].size = None PROVE shown'[s].buffer = None
  <2>1. CASE s \in live /\ sizes[s] # None
    <3>1. shown'[s] = [buffer |-> Black, size |-> sizes[s]]
      BY <1>0, <2>1
    <3> QED
      BY <1>4, <2>1, <3>1
  <2>2. CASE s \notin live \/ sizes[s] = None
    BY <1>0, <1>2, <1>4, <2>2 DEF NothingYet
  <2> QED
    BY <2>1, <2>2
<1> QED
  BY <1>0, <1>3, <1>4 DEF PresentedFits, NothingLeftBehind, NothingYet

\* What ends the screensaver in the middle of anything else keeps Inv.
LEMMA FailedKeepsInv ==
  ASSUME Inv, ScreensaverFailed(live, size),
         UNCHANGED <<live, size, loaderVars, reading, configures, drawn, hadSizes, returned>>
  PROVE  Inv'
<1> USE FailedFacts DEF Inv, Content
<1>0. size \in [Surface -> Size \cup {None}]
  BY DEF TypeOK
<1>1. TypeOK'
  BY <1>0 DEF TypeOK, loaderVars
<1>2. PresentedFits' /\ NothingLeftBehind' /\ NothingYet'
  BY <1>0, FailedSafe
<1> QED
  BY <1>1, <1>2

LEMMA SurfaceConfiguredInv ==
  ASSUME Inv, NEW s \in Surface, NEW sz \in Size, SurfaceConfigured(s, sz) PROVE Inv'
<1> USE DEF Inv, Content
<1>1. /\ s \in live /\ size' = [size EXCEPT ![s] = sz] /\ live' = live
      /\ size' \in [Surface -> Size \cup {None}]
      /\ UNCHANGED <<loader, todo, loSize, gen, busy, wanted, reading, drawn>>
  BY DEF SurfaceConfigured, TypeOK, loaderVars
<1>0. \A t \in Surface : t # s => size'[t] = size[t]
  BY DEF SurfaceConfigured, TypeOK
<1>2. configures' \in 0 .. MaxConfigures /\ hadSizes' \in [Surface -> SUBSET Size]
      /\ returned' \subseteq Surface
  BY ConstantFacts DEF SurfaceConfigured, TypeOK
<1>3. CASE /\ ScrSend([type |-> "CONFIGURE", output |-> s, size |-> sz])
           /\ slot' = [slot EXCEPT ![s] = NoSlots]
           /\ callback' = callback \ {s}
           /\ shown' = Blackened({s}, size')
  <2>1. /\ shown' \in [Surface -> Content]
        /\ shown'[s] = [buffer |-> Black, size |-> sz]
        /\ \A t \in Surface : t # s => shown'[t] = shown[t]
    <3>1. {s} \in SUBSET Surface /\ size'[s] = sz /\ sz # None /\ TypeOK
      BY <1>1, ConstantFacts DEF TypeOK
    <3> QED
      <4>1. shown' = Blackened({s}, size') /\ s \in {s}
        BY <1>3
      <4>2. /\ Blackened({s}, size') \in [Surface -> Content]
            /\ \A t \in {s} : size'[t] # None =>
                 Blackened({s}, size')[t] = [buffer |-> Black, size |-> size'[t]]
            /\ \A t \in Surface : t \notin {s} \/ size'[t] = None =>
                 Blackened({s}, size')[t] = shown[t]
        BY <1>1, <3>1, BlackenedFacts
      <4> HIDE DEF Content
      <4> QED
        BY <3>1, <4>1, <4>2
  <2>2. /\ scrFd' = scrFd /\ toShell' = toShell
        /\ toLoader' \in Seq(ToLoader) /\ dropped' \subseteq Surface
    BY <1>3, ScrSendFacts, ToLoaderFacts
  <2>3. TypeOK'
    BY <1>1, <1>2, <1>3, <2>1, <2>2, NoSlotsType DEF TypeOK
  <2>4. PresentedFits' /\ NothingYet'
    <3>1. \A t \in live : t \in Surface
      BY DEF TypeOK
    <3>2. PresentedFits'
      BY <1>0, <1>1, <2>1, <3>1 DEF PresentedFits
    <3>3. NothingYet'
      BY <2>1, ConstantFacts DEF NothingYet
    <3> QED
      BY <3>2, <3>3
  <2>5. NothingLeftBehind'
    <3>1. slot'[s] = NoSlots /\ \A t \in Surface : t # s => slot'[t] = slot[t]
      BY <1>3 DEF TypeOK
    <3>2. \A t \in live : t \in Surface
      BY DEF TypeOK
    <3> QED
      <4>1. \A t \in live' : ~scrFd' => shown'[t].buffer \in {None, Black}
        BY <1>1, <2>1, <2>2, <3>2 DEF NothingLeftBehind
      <4>2. \A t \in Surface : ~scrFd' \/ t \notin live' =>
              slot'[t] = NoSlots /\ t \notin callback'
        BY <1>1, <1>3, <2>2, <3>1 DEF NothingLeftBehind
      <4> QED
        BY <4>1, <4>2 DEF NothingLeftBehind
  <2> QED
    BY <2>3, <2>4, <2>5
<1>4. CASE ScreensaverFailed(live, size')
  <2>1. TypeOK'
    BY <1>1, <1>2, <1>4, FailedFacts DEF TypeOK
  <2>2. PresentedFits' /\ NothingLeftBehind' /\ NothingYet'
    <3>1. \A t \in live : size'[t] = None => size[t] = None
      <4>1. size \in [Surface -> Size \cup {None}] /\ live \subseteq Surface
        BY DEF TypeOK
      <4> QED
        BY <1>1, <4>1, ConstantFacts
    <3> QED
      BY <1>1, <1>4, <3>1, FailedSafe
  <2> QED
    BY <2>1, <2>2
<1> QED
  BY <1>3, <1>4 DEF SurfaceConfigured

LEMMA OutputRemovedInv ==
  ASSUME Inv, NEW s \in Surface, OutputRemoved(s) PROVE Inv'
<1> USE DEF Inv, Content
<1>1. /\ live' = live \ {s}
      /\ UNCHANGED <<size, loader, todo, loSize, gen, busy, wanted, reading, configures,
                     drawn, hadSizes, returned>>
  BY DEF OutputRemoved, loaderVars
<1>2. CASE /\ ScrSend([type |-> "REMOVE", output |-> s])
           /\ slot' = CleanedUp(s)
           /\ callback' = callback \ {s}
           /\ UNCHANGED shown
  <2>1. /\ scrFd' = scrFd /\ toShell' = toShell
        /\ toLoader' \in Seq(ToLoader) /\ dropped' \subseteq Surface
    BY <1>2, ScrSendFacts, ToLoaderFacts
  <2>2. TypeOK'
    BY <1>1, <1>2, <2>1, NoSlotsType DEF TypeOK, CleanedUp
  <2>3. PresentedFits' /\ NothingYet'
    BY <1>1, <1>2 DEF PresentedFits, NothingYet
  <2>4. NothingLeftBehind'
    BY <1>1, <1>2, <2>1 DEF TypeOK, NothingLeftBehind, CleanedUp
  <2> QED
    BY <2>2, <2>3, <2>4
<1>3. CASE ScreensaverFailed(live, size)
  <2>1. size \in [Surface -> Size \cup {None}]
    BY DEF TypeOK
  <2>2. TypeOK'
    BY <1>1, <1>3, <2>1, FailedFacts DEF TypeOK
  <2>3. PresentedFits' /\ NothingLeftBehind' /\ NothingYet'
    BY <1>1, <1>3, <2>1, FailedSafe
  <2> QED
    BY <2>2, <2>3
<1> QED
  BY <1>2, <1>3 DEF OutputRemoved

LEMMA UnlockInv == ASSUME Inv, Unlock PROVE Inv'
<1>1. TypeOK'
  <2>1. /\ scrFd' = FALSE /\ callback' = {} /\ live' = {}
        /\ slot' \in [Surface -> [Id -> Slot \cup {None}]]
        /\ toShell' = <<>> /\ toShell' \in Seq(ToShell)
        /\ UNCHANGED <<toLoader, size, loader, todo, loSize, gen, busy, wanted, shown,
                       reading, configures, drawn, hadSizes, returned, dropped>>
    BY NoSlotsType, EmptySeq DEF Unlock, StopScreensaver, loaderVars, compositor, history
  <2> QED
    BY <2>1 DEF Inv, TypeOK
<1>2. PresentedFits' /\ NothingLeftBehind' /\ NothingYet'
  BY DEF Inv, PresentedFits, NothingLeftBehind, NothingYet, Unlock, StopScreensaver,
     compositor
<1> QED
  BY <1>1, <1>2 DEF Inv

\* A handler that has a loader and only gives slots and callbacks to, and presents on,
\* a surface there is keeps Inv.
LEMMA PresentingInv ==
  ASSUME Inv, NEW s \in live, scrFd,
         UNCHANGED <<scrFd, live, size, toLoader, loader, todo, loSize, gen, busy, wanted,
                     configures, history>>,
         toShell' \in Seq(ToShell),
         slot' \in [Surface -> [Id -> Slot \cup {None}]],
         \A t \in Surface : t # s => slot'[t] = slot[t],
         \/ UNCHANGED <<callback, shown, reading>>
         \/ \E b \in Slot : ScrPresent(s, b)
  PROVE  Inv'
<1> USE DEF Inv, Content
<1>1. s \in Surface
  BY DEF TypeOK
<1>2. CASE UNCHANGED <<callback, shown, reading>>
  <2>1. TypeOK'
    BY <1>2 DEF TypeOK, history
  <2>2. PresentedFits' /\ NothingLeftBehind' /\ NothingYet'
    BY <1>2 DEF TypeOK, PresentedFits, NothingLeftBehind, NothingYet
  <2> QED
    BY <2>1, <2>2
<1>3. ASSUME NEW b \in Slot, ScrPresent(s, b) PROVE Inv'
  <2>1. TypeOK'
    BY <1>1, <1>3, ScrPresentFacts DEF TypeOK, history
  <2>2. PresentedFits' /\ NothingYet'
    <3>1. /\ shown'[s] = shown[s] \/ shown'[s] = [buffer |-> b.buffer, size |-> size[s]]
          /\ size[s] = None => shown'[s] = shown[s]
          /\ \A t \in Surface : t # s => shown'[t] = shown[t]
          /\ live \subseteq Surface /\ size' = size /\ live' = live
      BY <1>1, <1>3, ScrPresentFacts DEF TypeOK
    <3> QED
      <4>1. PresentedFits'
        BY <3>1 DEF PresentedFits
      <4>2. NothingYet'
        BY <1>1, <3>1 DEF NothingYet, PresentedFits
      <4> QED
        BY <4>1, <4>2
  <2>3. NothingLeftBehind'
    BY ZenonT(60), <1>1, <1>3, ScrPresentFacts DEF TypeOK, NothingLeftBehind
  <2> QED
    BY <2>1, <2>2, <2>3
<1> QED
  BY <1>2, <1>3

LEMMA ScrHandleInv == ASSUME Inv, ScrHandle PROVE Inv'
<1> DEFINE m == Head(toShell)
           s == m.output
           i == m.buffer[2]
           b == slot[s][i]
<1>1. /\ scrFd /\ m \in ToShell /\ toShell' \in Seq(ToShell)
      /\ UNCHANGED <<scrFd, live, size, toLoader, loader, todo, loSize, gen, busy, wanted,
                     configures, history>>
  BY HeadTailProperties DEF ScrHandle, Inv, TypeOK, loaderVars
<1>2. s \in Surface /\ m.buffer \in Buffer /\ i \in Id /\ b \in Slot \cup {None}
      /\ slot \in [Surface -> [Id -> Slot \cup {None}]]
  BY <1>1, ToShellFacts, BufferFacts DEF Inv, TypeOK
<1>3. CASE HandleBuffer(m)
  <2>1. CASE s \in live /\ Fits(s, m.size)
    <3>1. slot' = [slot EXCEPT ![s][i] = [buffer |-> m.buffer, size |-> m.size,
                                          imported |-> FALSE, ready |-> FALSE]]
      BY <1>3, <2>1 DEF HandleBuffer
    <3>2. [buffer |-> m.buffer, size |-> m.size, imported |-> FALSE, ready |-> FALSE] \in Slot
      BY <1>1, <1>2, <1>3, ToShellFacts DEF HandleBuffer, Slot
    <3>3. /\ slot' \in [Surface -> [Id -> Slot \cup {None}]]
          /\ \A t \in Surface : t # s => slot'[t] = slot[t]
      BY <1>2, <3>1, <3>2
    <3> QED
      BY <1>1, <1>3, <2>1, <3>3, PresentingInv DEF HandleBuffer
  <2>2. CASE ~(s \in live /\ Fits(s, m.size))
    <3>1. UNCHANGED <<slot, callback, shown, reading>>
      BY <1>3, <2>2 DEF HandleBuffer
    <3>2. TypeOK'
      BY <1>1, <3>1 DEF Inv, TypeOK, history
    <3> QED
      BY <1>1, <3>1, <3>2 DEF Inv, PresentedFits, NothingLeftBehind, NothingYet
  <2> QED
    BY <2>1, <2>2
<1>4. CASE HandleReady(m)
  <2>1. CASE s \notin live \/ b = None \/ ~Fits(s, b.size)
    <3>1. UNCHANGED <<slot, callback, shown, reading>>
      BY <1>4, <2>1 DEF HandleReady
    <3>2. TypeOK'
      BY <1>1, <3>1 DEF Inv, TypeOK, history
    <3> QED
      BY <1>1, <3>1, <3>2 DEF Inv, PresentedFits, NothingLeftBehind, NothingYet
  <2>2. CASE ~(s \notin live \/ b = None \/ ~Fits(s, b.size))
    <3>1. s \in live /\ b \in Slot
      BY <1>2, <2>2
    <3>2. CASE b.imported
      BY <1>1, <1>2, <1>4, <2>2, <3>1, <3>2, PresentingInv DEF HandleReady
    <3>3. CASE ~b.imported
      <4>1. /\ slot' = [slot EXCEPT ![s][i].ready = TRUE]
            /\ UNCHANGED <<callback, shown, reading>>
        BY <1>4, <2>2, <3>3 DEF HandleReady
      <4>2. [b EXCEPT !.ready = TRUE] \in Slot
        BY <3>1 DEF Slot
      <4>3. slot'[s] = [slot[s] EXCEPT ![i] = [b EXCEPT !.ready = TRUE]]
            /\ slot' = [slot EXCEPT ![s] = [slot[s] EXCEPT ![i] = [b EXCEPT !.ready = TRUE]]]
        BY <1>2, <4>1
      <4>4. /\ slot' \in [Surface -> [Id -> Slot \cup {None}]]
            /\ \A t \in Surface : t # s => slot'[t] = slot[t]
        BY <1>2, <4>2, <4>3
      <4> QED
        BY <1>1, <3>1, <4>1, <4>4, PresentingInv
    <3> QED
      BY <3>2, <3>3
  <2> QED
    BY <2>1, <2>2
<1> QED
  BY <1>3, <1>4 DEF ScrHandle

LEMMA ParamsCreatedInv ==
  ASSUME Inv, NEW s \in Surface, NEW i \in Id, ParamsCreated(s, i) PROVE Inv'
<1> DEFINE b == slot[s][i]
           c == [b EXCEPT !.imported = TRUE, !.ready = FALSE]
<1>1. /\ b # None /\ b \in Slot /\ c \in Slot
      /\ slot \in [Surface -> [Id -> Slot \cup {None}]]
  <2>1. b # None /\ slot \in [Surface -> [Id -> Slot \cup {None}]]
    BY DEF Inv, TypeOK, ParamsCreated
  <2>2. b \in Slot
    BY <2>1
  <2>3. c \in Slot
    BY <2>2 DEF Slot
  <2> QED
    BY <2>1, <2>2, <2>3
<1>2. s \in live /\ scrFd
  BY <1>1 DEF Inv, NothingLeftBehind, NoSlots
<1>3. slot' = [slot EXCEPT ![s] = [slot[s] EXCEPT ![i] = c]]
  BY <1>1 DEF ParamsCreated
<1>4. /\ slot' \in [Surface -> [Id -> Slot \cup {None}]]
      /\ \A t \in Surface : t # s => slot'[t] = slot[t]
  BY <1>1, <1>3
<1>5. /\ toShell' \in Seq(ToShell)
      /\ UNCHANGED <<scrFd, live, size, toLoader, loader, todo, loSize, gen, busy, wanted,
                     configures, history>>
  BY DEF ParamsCreated, socket, loaderVars, Inv, TypeOK
<1>6. UNCHANGED <<callback, shown, reading>> \/ ScrPresent(s, b)
  BY DEF ParamsCreated
<1> QED
  BY <1>1, <1>2, <1>4, <1>5, <1>6, PresentingInv

LEMMA FrameDoneInv == ASSUME Inv, NEW s \in Surface, FrameDone(s) PROVE Inv'
<1>1. CASE /\ ScrSend([type |-> "FRAME", output |-> s])
           /\ callback' = callback \ {s}
           /\ UNCHANGED <<slot, shown>>
  <2>1. /\ scrFd' = scrFd /\ toShell' = toShell
        /\ toLoader' \in Seq(ToLoader) /\ dropped' \subseteq Surface
    BY <1>1, ScrSendFacts, ToLoaderFacts DEF Inv
  <2>2. UNCHANGED <<live, size, loader, todo, loSize, gen, busy, wanted, reading,
                    configures, drawn, hadSizes, returned>>
    BY DEF FrameDone, loaderVars
  <2>3. TypeOK'
    BY <1>1, <2>1, <2>2 DEF Inv, TypeOK
  <2> QED
    BY <1>1, <2>1, <2>2, <2>3 DEF Inv, PresentedFits, NothingLeftBehind, NothingYet
<1>2. CASE ScreensaverFailed(live, size)
  BY <1>2, FailedKeepsInv DEF FrameDone
<1> QED
  BY <1>1, <1>2 DEF FrameDone

LEMMA BufferReleaseInv ==
  ASSUME Inv, NEW s \in Surface, NEW b \in reading[s], BufferRelease(s, b) PROVE Inv'
<1>1. b \in Buffer /\ b[2] \in Id
  BY BufferFacts DEF Inv, TypeOK
<1>2. /\ reading' \in [Surface -> SUBSET Buffer]
      /\ UNCHANGED <<live, size, loader, todo, loSize, gen, busy, wanted, configures,
                     drawn, hadSizes, returned>>
  BY DEF BufferRelease, loaderVars, Inv, TypeOK
<1>3. CASE /\ UNCHANGED <<slot, callback, shown, scrFd, toShell>>
           /\ toLoader' \in Seq(ToLoader) /\ dropped' \subseteq Surface
  <2>1. TypeOK'
    BY <1>2, <1>3 DEF Inv, TypeOK
  <2> QED
    BY <1>2, <1>3, <2>1 DEF Inv, PresentedFits, NothingLeftBehind, NothingYet
<1>4. CASE ScreensaverFailed(live, size)
  <2>0. size \in [Surface -> Size \cup {None}]
    BY DEF Inv, TypeOK
  <2>1. TypeOK'
    BY <1>2, <1>4, <2>0, FailedFacts DEF Inv, TypeOK, Content
  <2>2. PresentedFits' /\ NothingLeftBehind' /\ NothingYet'
    BY <1>2, <1>4, <2>0, FailedSafe
  <2> QED
    BY <2>1, <2>2 DEF Inv
<1>5. CASE /\ ScrSend([type |-> "RELEASE", output |-> s, buffer |-> b[2]])
           /\ UNCHANGED <<slot, callback, shown>>
  <2>1. [type |-> "RELEASE", output |-> s, buffer |-> b[2]] \in ToLoader
    BY <1>1, ToLoaderFacts
  <2> QED
    BY <1>3, <1>5, <2>1, ScrSendFacts DEF Inv
<1>6. CASE UNCHANGED <<scrFd, slot, callback, socket, shown, dropped>>
  BY <1>3, <1>6 DEF socket, Inv, TypeOK
<1> QED
  BY <1>4, <1>5, <1>6 DEF BufferRelease

(***************************************************************************)
(* The loader's steps.                                                     *)
(***************************************************************************)

\* A step that leaves the shell's and the compositor's state alone keeps Inv if it keeps
\* the types.
LEMMA ElsewhereInv ==
  ASSUME Inv, UNCHANGED <<shell, compositor>>, TypeOK' PROVE Inv'
  BY DEF Inv, PresentedFits, NothingLeftBehind, NothingYet, shell, compositor

LEMMA LoaderReceivesInv == ASSUME Inv, LoaderReceives PROVE Inv'
<1> DEFINE m == Head(toLoader)
           s == m.output
<1> USE DEF Inv
<1>1. /\ toLoader \in Seq(ToLoader) /\ toLoader # <<>>
      /\ toLoader' = Tail(toLoader)
      /\ UNCHANGED <<shell, todo, compositor, history>>
  BY DEF LoaderReceives, TypeOK
<1>2. toLoader' \in Seq(ToLoader) /\ m \in ToLoader
  BY <1>1, HeadTailProperties
<1>3. s \in Surface /\ (m.type = "CONFIGURE" => m.size \in Size)
  BY <1>2, ToLoaderFacts
<1>4. /\ gen \in [Surface -> Nat] /\ busy \in [Surface -> SUBSET Id]
      /\ loSize \in [Surface -> Size \cup {None}] /\ wanted \subseteq Surface
      /\ toShell \in Seq(ToShell)
  BY DEF TypeOK
<1>5. CASE OutputConfigure(m)
  <2> DEFINE Made(n) == [type |-> "BUFFER", output |-> s,
                         buffer |-> <<gen[s] + 1, n - 1>>, size |-> m.size]
             Buffers == [n \in 1 .. NBuffers |-> Made(n)]
  <2>1. m.size \in Size
    BY <1>3, <1>5 DEF OutputConfigure
  <2>2. Buffers \in Seq(ToShell)
    <3>1. ASSUME NEW n \in 1 .. NBuffers PROVE Made(n) \in ToShell
      <4>1. gen[s] + 1 \in Nat /\ n - 1 \in Id
        BY <1>3, <1>4, ConstantFacts DEF Id
      <4>2. <<gen[s] + 1, n - 1>> \in Buffer
        BY <4>1, BufferFacts
      <4> QED
        BY <1>3, <2>1, <4>2, ToShellFacts
    <3>2. NBuffers \in Nat
      BY ConstantFacts
    <3> HIDE DEF Made
    <3> QED
      BY <3>1, <3>2
  <2>3. toShell' \in {toShell, toShell \o Buffers}
    BY <1>5 DEF OutputConfigure
  <2>4. toShell' \in Seq(ToShell)
    <3> HIDE DEF Buffers
    <3> QED
      <4>1. toShell \o Buffers \in Seq(ToShell)
        BY <1>4, <2>2, ConcatProperties
      <4> QED
        BY <1>4, <2>3, <4>1
  <2>5. /\ loader' \in {"more", "exited"}
        /\ loSize' \in [Surface -> Size \cup {None}]
        /\ gen' \in [Surface -> Nat] /\ busy' \in [Surface -> SUBSET Id]
        /\ wanted' \subseteq Surface
    <3>1. /\ loSize' \in {loSize, [loSize EXCEPT ![s] = m.size]}
          /\ gen' \in {gen, [gen EXCEPT ![s] = @ + 1]}
          /\ busy' \in {busy, [busy EXCEPT ![s] = {}]}
          /\ wanted' \in {wanted, wanted \cup {s}}
          /\ loader' \in {"more", "exited"}
      BY <1>5 DEF OutputConfigure
    <3> HIDE DEF s, m
    <3>2. [gen EXCEPT ![s] = @ + 1] \in [Surface -> Nat]
      BY <1>3, <1>4
    <3> QED
      BY <1>3, <1>4, <2>1, <3>1, <3>2
  <2>6. TypeOK'
    BY <1>1, <1>2, <2>4, <2>5 DEF TypeOK, shell, compositor, history
  <2> QED
    BY <1>1, <2>6, ElsewhereInv
<1>6. CASE OtherMessage(m)
  <2>1. /\ loader' = "more" /\ UNCHANGED <<toShell, gen>>
        /\ loSize' \in [Surface -> Size \cup {None}]
        /\ busy' \in [Surface -> SUBSET Id]
        /\ wanted' \subseteq Surface
    BY <1>3, <1>4, <1>6 DEF OtherMessage
  <2>2. TypeOK'
    BY <1>1, <1>2, <2>1 DEF TypeOK, shell, compositor, history
  <2> QED
    BY <1>1, <2>2, ElsewhereInv
<1> QED
  BY <1>5, <1>6 DEF LoaderReceives

LEMMA OutputDrawInv == ASSUME Inv, NEW s \in Surface, OutputDraw(s) PROVE Inv'
<1> DEFINE id == CHOOSE i \in FreeBuffers(s) : \A j \in FreeBuffers(s) : i <= j
           b == <<gen[s], id>>
<1> USE DEF Inv
<1>1. /\ todo' \subseteq Surface
      /\ UNCHANGED <<shell, toLoader, loSize, gen, compositor, hadSizes, returned, dropped>>
  BY DEF OutputDraw, TypeOK
<1>2. CASE FreeBuffers(s) = {}
  <2>1. TypeOK'
    BY <1>1, <1>2 DEF OutputDraw, TypeOK, shell, compositor
  <2> QED
    BY <1>1, <2>1, ElsewhereInv
<1>3. CASE FreeBuffers(s) # {}
  <2>1. id \in Id
    <3>1. FreeBuffers(s) \in SUBSET Id
      BY DEF FreeBuffers
    <3>2. id \in FreeBuffers(s)
      BY <1>3, <3>1, Smallest
    <3> QED
      BY <3>1, <3>2
  <2>2. b \in Buffer /\ [type |-> "READY", output |-> s, buffer |-> b] \in ToShell
    BY <2>1, BufferFacts, ToShellFacts DEF TypeOK
  <2>3. /\ busy' = [busy EXCEPT ![s] = @ \cup {id}]
        /\ wanted' = wanted \ {s}
        /\ drawn' = [drawn EXCEPT ![s] = @ \cup {b}]
        /\ loader' \in {loader, "exited"}
        /\ \/ toShell' = toShell
           \/ toShell' = Append(toShell, [type |-> "READY", output |-> s, buffer |-> b])
    BY <1>3 DEF OutputDraw
  <2> HIDE DEF id, b
  <2>4. toShell' \in Seq(ToShell)
    <3>1. toShell \in Seq(ToShell)
      BY DEF TypeOK
    <3>2. Append(toShell, [type |-> "READY", output |-> s, buffer |-> b]) \in Seq(ToShell)
      BY <2>2, <3>1, AppendProperties
    <3> QED
      BY <2>3, <3>1, <3>2
  <2>5. TypeOK'
    BY <1>1, <2>1, <2>2, <2>3, <2>4 DEF TypeOK, shell, compositor
  <2> QED
    BY <1>1, <2>5, ElsewhereInv
<1> QED
  BY <1>2, <1>3

LEMMA LoaderTurnsInv ==
  ASSUME Inv, LoaderCaughtUp \/ LoaderDrawn \/ LoaderExits PROVE Inv'
<1>1. /\ loader' \in {"recv", "draw", "exited"}
      /\ todo' \in {todo, wanted}
      /\ UNCHANGED <<shell, socket, loSize, gen, busy, wanted, compositor, history>>
  BY DEF LoaderCaughtUp, LoaderDrawn, LoaderExits
<1>2. TypeOK'
  BY <1>1 DEF Inv, TypeOK, shell, socket, compositor, history
<1> QED
  BY <1>1, <1>2, ElsewhereInv

(***************************************************************************)
(* The theorems.                                                           *)
(***************************************************************************)

LEMMA InitInv == Init => Inv
<1> SUFFICES ASSUME Init PROVE Inv
  OBVIOUS
<1>1. TypeOK
  BY ConstantFacts, NoSlotsType, EmptySeq DEF Init, TypeOK
<1> QED
  BY <1>1 DEF Init, Inv, PresentedFits, NothingLeftBehind, NothingYet

LEMMA NextInv == Inv /\ [Next]_vars => Inv'
<1> SUFFICES ASSUME Inv, [Next]_vars PROVE Inv'
  OBVIOUS
<1>1. CASE ScrHandle
  BY <1>1, ScrHandleInv
<1>2. CASE ScrGone
  BY <1>2, FailedKeepsInv DEF ScrGone
<1>3. CASE Unlock
  BY <1>3, UnlockInv
<1>4. CASE LoaderReceives
  BY <1>4, LoaderReceivesInv
<1>5. CASE LoaderCaughtUp \/ LoaderDrawn \/ LoaderExits
  BY <1>5, LoaderTurnsInv
<1>6. ASSUME NEW s \in Surface, OutputRemoved(s) \/ FrameDone(s) \/ OutputDraw(s)
      PROVE  Inv'
  BY <1>6, OutputRemovedInv, FrameDoneInv, OutputDrawInv
<1>7. ASSUME NEW s \in Surface, NEW sz \in Size, SurfaceConfigured(s, sz) PROVE Inv'
  BY <1>7, SurfaceConfiguredInv
<1>8. ASSUME NEW s \in Surface, NEW i \in Id, ParamsCreated(s, i) PROVE Inv'
  BY <1>8, ParamsCreatedInv
<1>9. ASSUME NEW s \in Surface, NEW i \in Id, ParamsFailed(s, i) PROVE Inv'
  BY <1>9, FailedKeepsInv DEF ParamsFailed
<1>10. ASSUME NEW s \in Surface, NEW b \in reading[s], BufferRelease(s, b) PROVE Inv'
  BY <1>10, BufferReleaseInv
<1>11. CASE UNCHANGED vars
  <2>1. UNCHANGED <<shell, compositor>> /\ TypeOK'
    BY <1>11 DEF vars, Inv, TypeOK, shell, socket, loaderVars, compositor, history
  <2> QED
    BY <2>1, ElsewhereInv
<1> QED
  BY <1>1, <1>2, <1>3, <1>4, <1>5, <1>6, <1>7, <1>8, <1>9, <1>10, <1>11 DEF Next

LEMMA Invariant == Spec => []Inv
  BY InitInv, NextInv, PTL DEF Spec

\* Every variable of the shell, the loader and the sockets keeps its type, for any sizes
\* and any number of surfaces and buffers.
THEOREM TypeCorrect == Spec => []TypeOK
<1>1. Inv => TypeOK
  BY DEF Inv
<1> QED
  BY <1>1, Invariant, PTL

\* No frame of another size is ever presented (scr_present), in any order of configures,
\* frames and imports, on any number of surfaces.
THEOREM PresentedFitsHolds == Spec => []PresentedFits
<1>1. Inv => PresentedFits
  BY DEF Inv
<1> QED
  BY <1>1, Invariant, PTL

\* A screensaver that ends leaves its surfaces black (screensaver_failed), and neither it
\* nor a surface that goes leaves a listener behind (destroy_surface).
THEOREM NothingLeftBehindHolds == Spec => []NothingLeftBehind
<1>1. Inv => NothingLeftBehind
  BY DEF Inv
<1> QED
  BY <1>1, Invariant, PTL

(***************************************************************************)
(* What the shell uses the loader's buffers for.                           *)
(***************************************************************************)

\* The messages in q of a type about s.
About(q, type, s) == {n \in DOMAIN q : q[n].type = type /\ q[n].output = s}

\* As long as a surface goes through sizes it has not had before, its size tells
\* which of its buffers are current: those of the loader's last generation, once the
\* loader has read of the size, and nothing is on its way to the loader that could make
\* others before that.
Sizes(s) ==
  LET C == About(toLoader, "CONFIGURE", s)
      B == About(toShell, "BUFFER", s)
  IN /\ {size[s], loSize[s]} \subseteq hadSizes[s] \cup {None}
     /\ \A k \in C : toLoader[k].size \in hadSizes[s]
     /\ \A k \in B : toShell[k].size \in hadSizes[s]
     /\ \A k \in C : toLoader[k].size = size[s] => \A j \in C : j <= k
     /\ loSize[s] = size[s] /\ size[s] # None => C = {}
     /\ \A k \in B : toShell[k].size = size[s] =>
          toShell[k].buffer[1] = gen[s] /\ loSize[s] = size[s]
     /\ \A i \in Id : slot[s][i] # None =>
          slot[s][i].buffer = <<gen[s], i>> /\ slot[s][i].size = size[s] /\ loSize[s] = size[s]

\* What the order of the messages gives: a RELEASE is read before the CONFIGURE that
\* makes other buffers, a READY about older buffers before the BUFFERs that replace them.
Orders(s) ==
  /\ About(toLoader, "REMOVE", s) = {}
  /\ \A k \in About(toLoader, "CONFIGURE", s), r \in About(toLoader, "RELEASE", s) : r < k
  /\ \A n \in About(toShell, "READY", s) :
       /\ toShell[n].buffer \in drawn[s]
       /\ toShell[n].buffer[1] # gen[s] =>
            /\ slot[s] = NoSlots
            /\ \A k \in About(toShell, "BUFFER", s) : k < n => toShell[k].size # size[s]
  /\ \A i \in Id : slot[s][i] # None /\ slot[s][i].ready => slot[s][i].buffer \in drawn[s]

\* The ways in which the shell uses, or is going to, buffer i of the current generation,
\* and the RELEASE with which that ends.
Announced(s, i) == {n \in About(toShell, "READY", s) : toShell[n].buffer = <<gen[s], i>>}
Waiting(s, i) == slot[s][i] # None /\ slot[s][i].ready
Shown(s, i) == <<gen[s], i>> \in reading[s]
Freed(s, i) == {n \in About(toLoader, "RELEASE", s) : toLoader[n].buffer = i}

\* There is one of them at most, and none for a buffer the loader may draw into.
Tokens(s, i) ==
  /\ Announced(s, i) # {} \/ Waiting(s, i) \/ Shown(s, i) \/ Freed(s, i) # {} => i \in busy[s]
  /\ Announced(s, i) # {} => ~Waiting(s, i) /\ ~Shown(s, i) /\ Freed(s, i) = {}
  /\ Waiting(s, i) => ~Shown(s, i) /\ Freed(s, i) = {}
  /\ Shown(s, i) => Freed(s, i) = {}
  /\ \A m, n \in Announced(s, i) : m = n
  /\ \A m, n \in Freed(s, i) : m = n

\* What is under way between the shell and the loader about a surface.
Conversation(s) == Sizes(s) /\ Orders(s) /\ \A i \in Id : Tokens(s, i)

\* The invariant: a surface that goes away, or back to a size it had before, has no
\* more to do with it.
UseInv ==
  /\ \A s \in Surface : \A b \in drawn[s] : b[1] <= gen[s]
  /\ DrawnBeforeShown
  /\ scrFd => \A s \in live \ returned : Conversation(s)

\* A queue that a step has changed still holds what it did about s, d messages further
\* on; FRAMEs do not matter.
Matters(m, s) == m.output = s /\ m.type # "FRAME"
Carried(q, p, s, d) ==
  \A n \in DOMAIN p : Matters(p[n], s) => n + d \in DOMAIN q /\ p[n] = q[n + d]

\* Messages about a surface that were carried along were there before.
LEMMA CarriedAbout ==
  ASSUME NEW s, NEW d \in Nat, NEW e \in Nat,
         DOMAIN toLoader' \subseteq Nat \ {0}, DOMAIN toShell' \subseteq Nat \ {0},
         Carried(toLoader, toLoader', s, d), Carried(toShell, toShell', s, e)
  PROVE  /\ \A type \in {"CONFIGURE", "RELEASE", "REMOVE"} :
              \A n \in About(toLoader', type, s) :
                /\ n \in Nat \ {0} /\ n + d \in About(toLoader, type, s)
                /\ toLoader'[n] = toLoader[n + d]
         /\ \A type \in {"BUFFER", "READY"} : \A n \in About(toShell', type, s) :
                /\ n \in Nat \ {0} /\ n + e \in About(toShell, type, s)
                /\ toShell'[n] = toShell[n + e]
  BY DEF Carried, Matters, About

\* A step that at most clears slots or flags the buffers in them keeps sizes and orders.
LEMMA FlagsConverse ==
  ASSUME NEW s, Conversation(s), NEW d \in Nat, NEW e \in Nat,
         DOMAIN toLoader' \subseteq Nat \ {0}, DOMAIN toShell' \subseteq Nat \ {0},
         Carried(toLoader, toLoader', s, d), Carried(toShell, toShell', s, e),
         UNCHANGED <<size[s], loSize[s], gen[s], hadSizes[s]>>,
         drawn[s] \subseteq drawn'[s],
         slot[s] = NoSlots => slot'[s] = NoSlots,
         \A i \in Id : slot'[s][i] # None =>
           /\ slot[s][i] # None
           /\ slot'[s][i].buffer = slot[s][i].buffer /\ slot'[s][i].size = slot[s][i].size
           /\ slot'[s][i].ready => slot[s][i].ready \/ slot[s][i].buffer \in drawn[s]
  PROVE  Sizes(s)' /\ Orders(s)'
<1>1. /\ \A type \in {"CONFIGURE", "RELEASE", "REMOVE"} :
              \A n \in About(toLoader', type, s) :
                /\ n \in Nat \ {0} /\ n + d \in About(toLoader, type, s)
                /\ toLoader'[n] = toLoader[n + d]
      /\ \A type \in {"BUFFER", "READY"} : \A n \in About(toShell', type, s) :
                /\ n \in Nat \ {0} /\ n + e \in About(toShell, type, s)
                /\ toShell'[n] = toShell[n + e]
  BY CarriedAbout
<1>2. Sizes(s)'
  BY <1>1 DEF Conversation, Sizes
<1>3. Orders(s)'
  BY <1>1 DEF Conversation, Orders
<1> QED BY <1>2, <1>3

\* A step about other surfaces keeps what is under way about this one.
LEMMA ConversationCarried ==
  ASSUME NEW s, Conversation(s), NEW d \in Nat, NEW e \in Nat,
         DOMAIN toLoader' \subseteq Nat \ {0}, DOMAIN toShell' \subseteq Nat \ {0},
         Carried(toLoader, toLoader', s, d), Carried(toShell, toShell', s, e),
         UNCHANGED <<size[s], loSize[s], gen[s], slot[s], hadSizes[s], busy[s]>>,
         drawn[s] \subseteq drawn'[s], reading'[s] \subseteq reading[s]
  PROVE  Conversation(s)'
<1>1. Sizes(s)' /\ Orders(s)'
  BY FlagsConverse
<1>2. ASSUME NEW i \in Id PROVE Tokens(s, i)'
  <2>1. \A n \in Announced(s, i)' : n \in Nat /\ n + e \in Announced(s, i)
    BY CarriedAbout DEF Announced
  <2>2. \A n \in Freed(s, i)' : n \in Nat /\ n + d \in Freed(s, i)
    BY CarriedAbout DEF Freed
  <2> QED BY <2>1, <2>2 DEF Conversation, Tokens, Waiting, Shown
<1> QED BY <1>1, <1>2 DEF Conversation

\* How the queues change: they lose their head, or get more at the end.
LEMMA QueueFacts ==
  ASSUME NEW S, NEW q \in Seq(S), NEW s
  PROVE  /\ DOMAIN q \subseteq Nat \ {0} /\ Carried(q, q, s, 0)
         /\ q # <<>> => Carried(q, Tail(q), s, 1)
         /\ \A m \in S : ~Matters(m, s) => Carried(q, Append(q, m), s, 0)
         /\ \A r \in Seq(S) : (\A n \in DOMAIN r : ~Matters(r[n], s)) => Carried(q, q \o r, s, 0)
<1>1. DOMAIN q \subseteq Nat \ {0} /\ Carried(q, q, s, 0)
  BY DEF Carried
<1>2. ASSUME q # <<>> PROVE Carried(q, Tail(q), s, 1)
  <2>1. /\ Tail(q) \in Seq(S) /\ Len(Tail(q)) = Len(q) - 1
        /\ \A n \in 1 .. Len(q) - 1 : Tail(q)[n] = q[n + 1]
    BY <1>2, HeadTailProperties
  <2> QED BY <2>1 DEF Carried
<1>3. ASSUME NEW m \in S, ~Matters(m, s) PROVE Carried(q, Append(q, m), s, 0)
  BY <1>3, AppendProperties DEF Carried
<1>4. ASSUME NEW r \in Seq(S), \A n \in DOMAIN r : ~Matters(r[n], s)
      PROVE  Carried(q, q \o r, s, 0)
  <2> SUFFICES ASSUME NEW n \in DOMAIN (q \o r), Matters((q \o r)[n], s)
               PROVE  n + 0 \in DOMAIN q /\ (q \o r)[n] = q[n + 0]
    BY DEF Carried
  <2>1. n \in 1 .. Len(q) + Len(r) /\ DOMAIN q = 1 .. Len(q)
    BY ConcatProperties
  <2>2. CASE n <= Len(q)
    BY <2>1, <2>2, ConcatProperties
  <2>3. CASE n > Len(q)
    <3>1. n - Len(q) \in DOMAIN r /\ (q \o r)[n] = r[n - Len(q)]
      BY <2>1, <2>3, ConcatProperties
    <3> QED BY <3>1, <1>4
  <2> QED BY <2>1, <2>2, <2>3
<1> QED BY <1>1, <1>2, <1>3, <1>4

\* The types that matter here.
UseTyped ==
  /\ toLoader \in Seq(ToLoader) /\ toShell \in Seq(ToShell)
  /\ size \in [Surface -> Size \cup {None}] /\ loSize \in [Surface -> Size \cup {None}]
  /\ slot \in [Surface -> [Id -> Slot \cup {None}]]
  /\ gen \in [Surface -> Nat] /\ busy \in [Surface -> SUBSET Id]
  /\ reading \in [Surface -> SUBSET Buffer] /\ drawn \in [Surface -> SUBSET Buffer]
  /\ hadSizes \in [Surface -> SUBSET Size]

\* scr_send of a message about another surface.
LEMMA SendCarries ==
  ASSUME UseTyped, NEW m \in ToLoader, ScrSend(m), NEW s, ~Matters(m, s)
  PROVE  Carried(toLoader, toLoader', s, 0) /\ toShell' = toShell /\ scrFd' = scrFd
<1>1. toLoader' \in {toLoader, Append(toLoader, m)} /\ toShell' = toShell /\ scrFd' = scrFd
  BY DEF ScrSend, socket
<1>2. /\ Carried(toLoader, toLoader, s, 0)
      /\ Carried(toLoader, Append(toLoader, m), s, 0)
  BY QueueFacts DEF UseTyped
<1> QED BY <1>1, <1>2

\* surface_configure: no slot is current until the loader has read of the new size.
LEMMA ConfiguredConverses ==
  ASSUME Inv, Inv', NEW s \in Surface, NEW sz \in Size, SurfaceConfigured(s, sz),
         scrFd', s \notin returned', Conversation(s)
  PROVE  Conversation(s)'
<1> DEFINE m == [type |-> "CONFIGURE", output |-> s, size |-> sz]
<1>1. UseTyped /\ UseTyped'
  BY DEF Inv, TypeOK, UseTyped
<1>2. /\ ScrSend(m) /\ slot' = [slot EXCEPT ![s] = NoSlots]
      /\ size' = [size EXCEPT ![s] = sz] /\ sz \notin hadSizes[s]
      /\ hadSizes' = [hadSizes EXCEPT ![s] = @ \cup {sz}]
      /\ UNCHANGED <<loader, todo, loSize, gen, busy, wanted, reading, drawn>>
  BY DEF SurfaceConfigured, ScreensaverFailed, StopScreensaver, loaderVars
<1>3. /\ toShell' = toShell /\ toLoader' \in {toLoader, Append(toLoader, m)}
      /\ m \in ToLoader
  BY <1>2, ToLoaderFacts DEF ScrSend, socket
<1>4. /\ size'[s] = sz /\ hadSizes'[s] = hadSizes[s] \cup {sz} /\ slot'[s] = NoSlots
      /\ sz # None /\ size[s] # sz
  BY <1>1, <1>2, ConstantFacts DEF UseTyped, SurfaceConfigured
<1>5. /\ \A n \in DOMAIN toLoader' : n \in Nat
      /\ \A n \in DOMAIN toLoader : n \in DOMAIN toLoader' /\ n \in 1 .. Len(toLoader)
      /\ \A n \in DOMAIN toLoader' : \/ n \in DOMAIN toLoader /\ toLoader'[n] = toLoader[n]
                                     \/ n = Len(toLoader) + 1 /\ toLoader'[n] = m
  <2> HIDE DEF m
  <2>1. toLoader \in Seq(ToLoader) /\ m \in ToLoader
    BY <1>1, <1>3 DEF UseTyped
  <2>2. CASE toLoader' = toLoader
    BY <2>1, <2>2
  <2>3. CASE toLoader' = Append(toLoader, m)
    BY <2>1, <2>3, AppendProperties
  <2> QED BY <1>3, <2>2, <2>3
<1> DEFINE C == About(toLoader, "CONFIGURE", s)
           R == About(toLoader, "RELEASE", s)
<1>6. /\ \A n \in About(toLoader, "CONFIGURE", s)' :
           \/ n \in C /\ toLoader'[n] = toLoader[n]
           \/ n = Len(toLoader) + 1 /\ toLoader'[n] = m
      /\ About(toLoader, "RELEASE", s)' \subseteq R
      /\ About(toLoader, "REMOVE", s)' \subseteq About(toLoader, "REMOVE", s)
      /\ \A n \in C \cup R : n \in Nat /\ n < Len(toLoader) + 1
      /\ \A n \in R : toLoader'[n] = toLoader[n]
  <2>1. m.type = "CONFIGURE"
    OBVIOUS
  <2>2. \A n \in R : n \in DOMAIN toLoader' /\ n <= Len(toLoader)
    BY <1>5 DEF About
  <2> HIDE DEF m
  <2> QED BY <1>5, <2>1, <2>2 DEF About
<1>7. Sizes(s)'
  <2>1. \A k \in About(toShell, "BUFFER", s)' :
          toShell'[k].size \in hadSizes[s] /\ toShell'[k].size # sz
    BY <1>2, <1>3 DEF Conversation, Sizes, About
  <2>2. loSize'[s] # sz
    BY <1>2, <1>4 DEF Conversation, Sizes
  <2>3. \A k \in About(toLoader, "CONFIGURE", s)' :
          \/ k < Len(toLoader) + 1 /\ toLoader'[k].size \in hadSizes[s]
          \/ k = Len(toLoader) + 1 /\ toLoader'[k].size = sz
    BY <1>6 DEF Conversation, Sizes
  <2>4. \A k, j \in About(toLoader, "CONFIGURE", s)' : toLoader'[k].size = sz => j <= k
    BY <1>2, <1>6, <2>3
  <2>5. \A i \in Id : slot'[s][i] = None
    BY <1>4 DEF NoSlots
  <2>6. {size'[s], loSize'[s]} \subseteq hadSizes'[s] \cup {None}
    BY <1>2, <1>4 DEF Conversation, Sizes
  <2> QED BY <1>4, <2>1, <2>2, <2>3, <2>4, <2>5, <2>6 DEF Sizes
<1>8. Orders(s)'
  <2>1. \A n \in About(toShell, "READY", s)' : toShell'[n].buffer \in drawn'[s]
    BY <1>2, <1>3 DEF Conversation, Orders, About
  <2>2. \A k \in About(toShell, "BUFFER", s)' : toShell'[k].size # size'[s]
    BY <1>2, <1>3, <1>4 DEF Conversation, Sizes, About
  <2>3. \A i \in Id : slot'[s][i] = None
    BY <1>4 DEF NoSlots
  <2>4. \A k \in About(toLoader, "CONFIGURE", s)', r \in About(toLoader, "RELEASE", s)' : r < k
    BY <1>6 DEF Conversation, Orders
  <2> QED BY <1>4, <1>6, <2>1, <2>2, <2>3, <2>4 DEF Orders, Conversation
<1>9. ASSUME NEW i \in Id PROVE Tokens(s, i)'
  <2>1. Announced(s, i)' = Announced(s, i) /\ (Shown(s, i)' <=> Shown(s, i))
    BY <1>2, <1>3 DEF Announced, About, Shown
  <2>2. ~Waiting(s, i)'
    BY <1>4 DEF Waiting, NoSlots
  <2>3. Freed(s, i)' \subseteq Freed(s, i)
    BY <1>6 DEF Freed
  <2> QED BY <1>2, <2>1, <2>2, <2>3 DEF Conversation, Tokens
<1> QED BY <1>7, <1>8, <1>9 DEF Conversation

\* The head of a queue, and the rest.
LEMMA TailFacts ==
  ASSUME NEW S, NEW q \in Seq(S), q # <<>>
  PROVE  /\ DOMAIN Tail(q) \subseteq Nat /\ Tail(q) \in Seq(S)
         /\ \A n \in DOMAIN Tail(q) : n + 1 \in DOMAIN q /\ Tail(q)[n] = q[n + 1]
         /\ 1 \in DOMAIN q /\ Head(q) = q[1] /\ Head(q) \in S
  BY HeadTailProperties

\* scr_handle_buffer takes a buffer only if it is of the current generation.
LEMMA HandleBufferConverses ==
  ASSUME Inv, Inv', ScrHandle, HandleBuffer(Head(toShell)),
         NEW s \in Surface, s = Head(toShell).output, Conversation(s)
  PROVE  Conversation(s)'
<1> DEFINE m == Head(toShell)
           i == m.buffer[2]
           new == [buffer |-> m.buffer, size |-> m.size, imported |-> FALSE, ready |-> FALSE]
<1>1. UseTyped /\ UseTyped'
  BY DEF Inv, TypeOK, UseTyped
<1>2. /\ toShell # <<>> /\ toShell' = Tail(toShell) /\ m.type = "BUFFER"
      /\ UNCHANGED <<toLoader, size, loSize, gen, busy, reading, drawn, hadSizes>>
  BY DEF ScrHandle, HandleBuffer, loaderVars, history
<1>3. m \in ToShell /\ m = toShell[1] /\ 1 \in About(toShell, "BUFFER", s)
  BY <1>1, <1>2, TailFacts DEF UseTyped, About
<1>4. Carried(toLoader, toLoader', s, 0) /\ Carried(toShell, toShell', s, 1)
  BY <1>1, <1>2, QueueFacts DEF UseTyped
<1>5. DOMAIN toLoader' \subseteq Nat \ {0} /\ DOMAIN toShell' \subseteq Nat \ {0}
  BY <1>1, QueueFacts DEF UseTyped
<1>6. CASE UNCHANGED slot
  BY <1>2, <1>4, <1>5, <1>6, ConversationCarried
<1>7. CASE s \in live /\ Fits(s, m.size)
  <2>1. m.buffer \in Buffer /\ i \in Id /\ m.size = size[s]
    BY <1>2, <1>3, <1>7, ToShellFacts, BufferFacts DEF Fits
  <2>2. m.buffer = <<gen[s], i>> /\ loSize[s] = size[s]
    BY <1>3, <2>1 DEF Conversation, Sizes, Buffer
  <2>3. /\ slot'[s][i] = new
        /\ \A j \in Id : j # i => slot'[s][j] = slot[s][j]
    <3>1. slot' = [slot EXCEPT ![s][i] = new]
      BY <1>7 DEF HandleBuffer
    <3> HIDE DEF new
    <3>2. slot'[s] = [slot[s] EXCEPT ![i] = new]
      BY <1>1, <3>1 DEF UseTyped
    <3>3. slot[s] \in [Id -> Slot \cup {None}] /\ slot'[s] \in [Id -> Slot \cup {None}]
      BY <1>1 DEF UseTyped
    <3>4. slot'[s][i] = new /\ \A j \in Id : j # i => slot'[s][j] = slot[s][j]
      BY <2>1, <3>2, <3>3
    <3> QED BY <3>4
  <2>4. /\ new.buffer = <<gen[s], i>> /\ new.size = size[s] /\ ~new.ready
    BY <2>1, <2>2
  <2> HIDE DEF new
  <2>5. /\ \A n \in About(toShell, "BUFFER", s)' :
             n + 1 \in About(toShell, "BUFFER", s) /\ toShell'[n] = toShell[n + 1] /\ n \in Nat
        /\ \A n \in About(toShell, "READY", s)' :
             n + 1 \in About(toShell, "READY", s) /\ toShell'[n] = toShell[n + 1]
             /\ n \in Nat /\ n # 0
    <3>1. DOMAIN toShell' \subseteq Nat \ {0}
      BY <1>1, <1>2 DEF UseTyped
    <3> QED BY <1>4, <3>1 DEF Carried, Matters, About
  <2>6. Sizes(s)'
    <3>1. \A j \in Id : slot'[s][j] # None =>
            /\ slot'[s][j].buffer = <<gen'[s], j>> /\ slot'[s][j].size = size'[s]
            /\ loSize'[s] = size'[s]
      BY <1>2, <2>2, <2>3, <2>4 DEF Conversation, Sizes
    <3>2. \A n \in About(toShell, "BUFFER", s)' :
            /\ toShell'[n].size \in hadSizes'[s]
            /\ toShell'[n].size = size'[s] =>
                 toShell'[n].buffer[1] = gen'[s] /\ loSize'[s] = size'[s]
      <4>1. \A n \in About(toShell, "BUFFER", s)' :
              /\ toShell'[n].size \in hadSizes[s]
              /\ toShell'[n].size = size[s] =>
                   toShell'[n].buffer[1] = gen[s] /\ loSize[s] = size[s]
        BY <2>5 DEF Conversation, Sizes
      <4> QED BY <1>2, <4>1
    <3> QED BY <1>2, <3>1, <3>2 DEF Conversation, Sizes
  <2>7. \A n \in About(toShell, "READY", s)' : toShell'[n].buffer[1] = gen[s]
    BY <1>3, <2>1, <2>5 DEF Conversation, Orders
  <2>8. Orders(s)'
    <3>1. \A j \in Id : slot'[s][j] # None /\ slot'[s][j].ready =>
            slot'[s][j].buffer \in drawn'[s]
      BY <1>2, <2>3, <2>4 DEF Conversation, Orders
    <3>2. \A n \in About(toShell, "READY", s)' : toShell'[n].buffer \in drawn'[s]
      BY <1>2, <2>5 DEF Conversation, Orders
    <3> QED BY <1>2, <2>7, <3>1, <3>2 DEF Conversation, Orders
  <2>9. ASSUME NEW j \in Id PROVE Tokens(s, j)'
    <3>1. \A n \in Announced(s, j)' : n \in Nat /\ n + 1 \in Announced(s, j)
      BY <1>2, <2>5 DEF Announced
    <3>2. Freed(s, j)' = Freed(s, j) /\ (Shown(s, j)' <=> Shown(s, j))
      BY <1>2 DEF Freed, Shown
    <3>3. Waiting(s, j)' => Waiting(s, j)
      BY <2>3, <2>4 DEF Waiting
    <3> QED BY <1>2, <3>1, <3>2, <3>3 DEF Conversation, Tokens
  <2> QED BY <2>6, <2>8, <2>9 DEF Conversation
<1> QED BY <1>6, <1>7 DEF HandleBuffer

\* A READY that finds a buffer in its slot is about that one.
LEMMA HandleReadyConverses ==
  ASSUME Inv, Inv', ScrHandle, HandleReady(Head(toShell)),
         NEW s \in Surface, s = Head(toShell).output, Conversation(s),
         reading[s] \subseteq drawn[s]
  PROVE  Conversation(s)' /\ reading'[s] \subseteq drawn'[s]
<1>m. PICK m : m = Head(toShell)
  OBVIOUS
<1>i. PICK i : i = m.buffer[2]
  OBVIOUS
<1> DEFINE b == slot[s][i]
<1>1. UseTyped /\ UseTyped'
  BY DEF Inv, TypeOK, UseTyped
<1>2. /\ toShell # <<>> /\ toShell' = Tail(toShell) /\ m.type = "READY"
      /\ UNCHANGED <<toLoader, size, loSize, gen, busy, drawn, hadSizes>>
  BY <1>m DEF ScrHandle, HandleReady, loaderVars, history
<1>3. m \in ToShell /\ m = toShell[1] /\ 1 \in About(toShell, "READY", s)
  BY <1>1, <1>2, <1>m, TailFacts DEF UseTyped, About
<1>4. Carried(toLoader, toLoader', s, 0) /\ Carried(toShell, toShell', s, 1)
  BY <1>1, <1>2, QueueFacts DEF UseTyped
<1>5. DOMAIN toLoader' \subseteq Nat \ {0} /\ DOMAIN toShell' \subseteq Nat \ {0}
  BY <1>1, QueueFacts DEF UseTyped
<1>6. CASE UNCHANGED <<slot, callback, shown, reading>>
  BY <1>2, <1>4, <1>5, <1>6, ConversationCarried
<1>7. CASE b # None /\ ~UNCHANGED <<slot, callback, shown, reading>>
  <2>1. m.buffer \in Buffer /\ i \in Id
    BY <1>3, <1>i, ToShellFacts, BufferFacts
  <2>2. m.buffer = <<gen[s], i>>
    <3>1. slot[s] # NoSlots
      BY <1>7, <2>1 DEF NoSlots
    <3>2. m.buffer[1] = gen[s]
      BY <1>3, <3>1 DEF Conversation, Orders
    <3> QED BY <1>i, <2>1, <3>2 DEF Buffer
  <2>3. b.buffer = m.buffer /\ m.buffer \in drawn[s]
    BY <1>3, <1>7, <2>1, <2>2 DEF Conversation, Sizes, Orders
  <2>4. 1 \in Announced(s, i)
    BY <1>3, <2>2 DEF Announced
  <2>5. /\ i \in busy[s] /\ ~Waiting(s, i) /\ ~Shown(s, i) /\ Freed(s, i) = {}
        /\ \A n \in Announced(s, i) : n = 1
    BY <2>1, <2>4 DEF Conversation, Tokens
  <2>0. b = slot[s][i]
    OBVIOUS
  <2> HIDE DEF b
  <2>6. \A j \in Id : \A n \in Announced(s, j)' : n \in Nat \ {0} /\ n + 1 \in Announced(s, j)
    <3>1. \A n \in About(toShell', "READY", s) :
            /\ n \in Nat \ {0} /\ n + 1 \in About(toShell, "READY", s)
            /\ toShell'[n] = toShell[n + 1]
      BY <1>4, <1>5, CarriedAbout
    <3> QED BY <1>2, <3>1 DEF Announced
  <2>7. Announced(s, i)' = {} /\ \A j \in Id : Freed(s, j)' = Freed(s, j)
    <3>1. ASSUME NEW n \in Announced(s, i)' PROVE FALSE
      BY <2>1, <2>5, <2>6
    <3>2. ASSUME NEW j \in Id PROVE Freed(s, j)' = Freed(s, j)
      BY <1>2 DEF Freed, About
    <3> QED BY <3>1, <3>2
  <2>8. CASE UNCHANGED slot /\ ScrPresent(s, b)
    <3>1. reading'[s] \in {reading[s], reading[s] \cup {<<gen[s], i>>}}
      <4>1. b.buffer = <<gen[s], i>>
        BY <2>2, <2>3
      <4>2. reading' \in {reading, [reading EXCEPT ![s] = @ \cup {b.buffer}]}
        BY <2>8 DEF ScrPresent
      <4> QED BY <1>1, <4>1, <4>2 DEF UseTyped
    <3>2. Sizes(s)' /\ Orders(s)'
      BY <1>2, <1>4, <1>5, <2>8, FlagsConverse
    <3>3. ASSUME NEW j \in Id PROVE Tokens(s, j)'
      <4>1. CASE j = i
        <5>1. Freed(s, i)' = {} /\ ~Waiting(s, i)' /\ i \in busy'[s]
          BY <1>2, <2>1, <2>5, <2>7, <2>8 DEF Waiting
        <5> QED BY <2>7, <4>1, <5>1 DEF Tokens
      <4>2. CASE j # i
        <5>1. (Shown(s, j)' <=> Shown(s, j)) /\ (Waiting(s, j)' <=> Waiting(s, j))
          BY <1>2, <2>8, <3>1, <4>2 DEF Shown, Waiting
        <5> QED BY <1>2, <2>6, <2>7, <5>1 DEF Tokens, Conversation
      <4> QED BY <4>1, <4>2
    <3> QED BY <1>2, <2>2, <2>3, <3>1, <3>2, <3>3 DEF Conversation
  <2>9. CASE slot' = [slot EXCEPT ![s][i].ready = TRUE] /\ UNCHANGED <<callback, shown, reading>>
    <3>1. /\ slot'[s][i] = [b EXCEPT !.ready = TRUE]
          /\ \A j \in Id : j # i => slot'[s][j] = slot[s][j]
      <4>1. slot' = [slot EXCEPT ![s] = [slot[s] EXCEPT ![i] = [b EXCEPT !.ready = TRUE]]]
        BY <1>1, <2>0, <2>1, <2>9 DEF UseTyped
      <4>2. slot'[s] = [slot[s] EXCEPT ![i] = [b EXCEPT !.ready = TRUE]]
        BY <1>1, <4>1 DEF UseTyped
      <4>3. slot[s] \in [Id -> Slot \cup {None}]
        BY <1>1 DEF UseTyped
      <4> QED BY <2>1, <4>2, <4>3
    <3>2. b \in Slot
      BY <1>1, <1>7, <2>0, <2>1 DEF UseTyped
    <3>3. /\ slot'[s][i].buffer = b.buffer /\ slot'[s][i].size = b.size
      BY <3>1, <3>2 DEF Slot
    <3>4. slot[s] # NoSlots
      BY <1>7, <2>0, <2>1 DEF NoSlots
    <3>5. Sizes(s)' /\ Orders(s)'
      BY <1>2, <1>4, <1>5, <1>7, <2>0, <2>3, <3>1, <3>3, <3>4, FlagsConverse
    <3>6. ASSUME NEW j \in Id PROVE Tokens(s, j)'
      <4>1. Shown(s, j)' <=> Shown(s, j)
        BY <1>2, <2>9 DEF Shown
      <4>2. CASE j = i
        <5>1. Freed(s, i)' = {} /\ i \in busy'[s] /\ ~Shown(s, i)
          BY <1>2, <2>1, <2>5, <2>7
        <5> QED BY <2>7, <4>1, <4>2, <5>1 DEF Tokens
      <4>3. CASE j # i
        BY <1>2, <2>6, <2>7, <3>1, <4>1, <4>3 DEF Tokens, Waiting, Conversation
      <4> QED BY <4>2, <4>3
    <3> QED BY <1>2, <2>9, <3>5, <3>6 DEF Conversation
  <2> QED BY <1>m, <1>i, <1>7, <2>8, <2>9 DEF HandleReady, b
<1> QED BY <1>m, <1>i, <1>6, <1>7 DEF HandleReady

\* params_created presents a buffer that was announced before.
LEMMA ParamsCreatedConverses ==
  ASSUME Inv, Inv', NEW s \in Surface, NEW i \in Id, ParamsCreated(s, i),
         Conversation(s), reading[s] \subseteq drawn[s]
  PROVE  Conversation(s)' /\ reading'[s] \subseteq drawn'[s]
<1> DEFINE b == slot[s][i]
           c == [b EXCEPT !.imported = TRUE, !.ready = FALSE]
<1>1. UseTyped /\ UseTyped'
  BY DEF Inv, TypeOK, UseTyped
<1>2. /\ b # None
      /\ UNCHANGED <<toLoader, toShell, size, loSize, gen, busy, drawn, hadSizes>>
  BY DEF ParamsCreated, socket, loaderVars, history
<1>3. /\ Carried(toLoader, toLoader', s, 0) /\ Carried(toShell, toShell', s, 0)
      /\ DOMAIN toLoader' \subseteq Nat \ {0} /\ DOMAIN toShell' \subseteq Nat \ {0}
  BY <1>1, <1>2, QueueFacts DEF UseTyped
<1>4. /\ b \in Slot /\ b.buffer = <<gen[s], i>> /\ slot[s] # NoSlots
      /\ b.ready => b.buffer \in drawn[s]
  BY <1>1, <1>2 DEF UseTyped, Conversation, Sizes, Orders, NoSlots
<1>5. c.buffer = b.buffer /\ c.size = b.size /\ ~c.ready
  BY <1>4 DEF Slot
<1>6. slot'[s][i] = c /\ \A j \in Id : j # i => slot'[s][j] = slot[s][j]
  <2>1. slot' = [slot EXCEPT ![s] = [slot[s] EXCEPT ![i] = c]]
    BY <1>1 DEF ParamsCreated, UseTyped
  <2> HIDE DEF b, c
  <2>2. slot'[s] = [slot[s] EXCEPT ![i] = c]
    BY <1>1, <2>1 DEF UseTyped
  <2>3. slot[s] \in [Id -> Slot \cup {None}]
    BY <1>1 DEF UseTyped
  <2> QED BY <2>2, <2>3
<1> HIDE DEF c
<1>7. Sizes(s)' /\ Orders(s)'
  BY <1>2, <1>3, <1>4, <1>5, <1>6, FlagsConverse
<1>8. /\ reading'[s] \in {reading[s], reading[s] \cup {<<gen[s], i>>}}
      /\ ~b.ready => reading'[s] = reading[s]
  <2>1. CASE b.ready /\ ScrPresent(s, b)
    <3>1. reading' \in {reading, [reading EXCEPT ![s] = @ \cup {b.buffer}]}
      BY <2>1 DEF ScrPresent
    <3> HIDE DEF b
    <3> QED BY <1>1, <1>4, <2>1, <3>1 DEF UseTyped
  <2>2. CASE ~b.ready /\ UNCHANGED reading
    BY <2>2
  <2> QED BY <2>1, <2>2 DEF ParamsCreated, Imported
<1>9. \A j \in Id : Announced(s, j)' = Announced(s, j) /\ Freed(s, j)' = Freed(s, j)
  BY <1>2 DEF Announced, Freed, About
<1>10. ~Waiting(s, i)'
  BY <1>5, <1>6 DEF Waiting
<1>11. b.ready <=> Waiting(s, i)
  BY <1>2 DEF Waiting
<1>12. ASSUME NEW j \in Id PROVE Tokens(s, j)'
  <2>1. CASE j = i /\ reading'[s] = reading[s]
    <3>1. Shown(s, i)' <=> Shown(s, i)
      BY <1>2, <2>1 DEF Shown
    <3> QED BY <1>2, <1>9, <1>10, <2>1, <3>1 DEF Conversation, Tokens
  <2>2. CASE j = i /\ Waiting(s, i)
    BY <1>2, <1>9, <1>10, <2>2 DEF Conversation, Tokens
  <2>3. CASE j # i
    <3>1. (Shown(s, j)' <=> Shown(s, j)) /\ (Waiting(s, j)' <=> Waiting(s, j))
      BY <1>2, <1>6, <1>8, <2>3 DEF Shown, Waiting
    <3> QED BY <1>2, <1>9, <3>1 DEF Conversation, Tokens
  <2> QED BY <1>8, <1>11, <2>1, <2>2, <2>3
<1>13. reading'[s] \subseteq drawn'[s]
  BY <1>2, <1>4, <1>8
<1> QED BY <1>7, <1>12, <1>13 DEF Conversation

\* buffer_release: the RELEASE is about a buffer of the current generation.
LEMMA BufferReleaseConverses ==
  ASSUME Inv, Inv', NEW s \in Surface, NEW b \in reading[s], BufferRelease(s, b), scrFd',
         Conversation(s)
  PROVE  Conversation(s)'
<1>1. UseTyped /\ UseTyped'
  BY DEF Inv, TypeOK, UseTyped
<1>2. /\ UNCHANGED <<size, loSize, gen, busy, drawn, hadSizes, slot, toShell>>
      /\ reading'[s] = reading[s] \ {b} /\ b \in Buffer /\ b[2] \in Id
  BY <1>1, BufferFacts
     DEF BufferRelease, ScreensaverFailed, StopScreensaver, loaderVars, ScrSend, socket, UseTyped
<1>3. /\ Carried(toShell, toShell', s, 0)
      /\ DOMAIN toLoader' \subseteq Nat \ {0} /\ DOMAIN toShell' \subseteq Nat \ {0}
  BY <1>1, <1>2, QueueFacts DEF UseTyped
<1>4. CASE UNCHANGED toLoader
  <2>1. Carried(toLoader, toLoader', s, 0)
    BY <1>1, <1>4, QueueFacts DEF UseTyped
  <2> QED BY <1>2, <1>3, <2>1, ConversationCarried
<1>5. CASE ~UNCHANGED toLoader
  <2> DEFINE m == [type |-> "RELEASE", output |-> s, buffer |-> b[2]]
  <2>1. /\ Released(s, b) /\ toLoader' = Append(toLoader, m) /\ m \in ToLoader
    BY <1>2, <1>5, ToLoaderFacts
       DEF BufferRelease, ScreensaverFailed, StopScreensaver, ScrSend, socket
  <2>2. m.type = "RELEASE" /\ m.output = s /\ m.buffer = b[2]
    OBVIOUS
  <2> HIDE DEF m
  <2>3. PICK i \in Id : i = b[2]
    BY <1>2
  <2>4. b = <<gen[s], i>> /\ loSize[s] = size[s] /\ size[s] # None
    <3>1. slot[s][i] # None /\ slot[s][i].buffer = b
      BY <2>1, <2>3 DEF Released
    <3>2. slot[s][i] \in Slot
      BY <1>1, <3>1 DEF UseTyped
    <3> QED BY <3>1, <3>2, ConstantFacts DEF Conversation, Sizes, Slot
  <2>5. Shown(s, i) /\ ~Shown(s, i)'
    BY <1>2, <2>4 DEF Shown
  <2>6. /\ i \in busy[s] /\ Announced(s, i) = {} /\ ~Waiting(s, i) /\ Freed(s, i) = {}
        /\ About(toLoader, "CONFIGURE", s) = {}
    BY <2>4, <2>5 DEF Conversation, Tokens, Sizes
  <2>7. /\ \A n \in DOMAIN toLoader' : n \in Nat
        /\ \A n \in DOMAIN toLoader : n \in DOMAIN toLoader' /\ n < Len(toLoader) + 1
        /\ \A n \in DOMAIN toLoader' : \/ n \in DOMAIN toLoader /\ toLoader'[n] = toLoader[n]
                                       \/ n = Len(toLoader) + 1 /\ toLoader'[n] = m
    BY <1>1, <2>1, AppendProperties DEF UseTyped
  <2>8. /\ About(toLoader, "CONFIGURE", s)' = {}
        /\ About(toLoader, "REMOVE", s)' = {}
    BY <2>2, <2>6, <2>7 DEF About, Conversation, Orders
  <2>9. \A j \in Id : \A n \in Freed(s, j)' :
           n \in Freed(s, j) \/ (j = i /\ n = Len(toLoader) + 1)
    BY <2>2, <2>3, <2>7 DEF Freed, About
  <2>10. /\ About(toShell, "BUFFER", s)' = About(toShell, "BUFFER", s)
         /\ About(toShell, "READY", s)' = About(toShell, "READY", s)
    BY <1>2 DEF About
  <2>11. Sizes(s)' /\ Orders(s)'
    BY <1>2, <2>8, <2>10 DEF Conversation, Sizes, Orders
  <2>12. ASSUME NEW j \in Id PROVE Tokens(s, j)'
    <3>1. Announced(s, j)' = Announced(s, j) /\ (Waiting(s, j)' <=> Waiting(s, j))
      BY <1>2, <2>10 DEF Announced, Waiting
    <3>2. CASE j = i
      BY <1>2, <2>5, <2>6, <2>9, <3>1, <3>2 DEF Tokens
    <3>3. CASE j # i
      <4>1. Freed(s, j)' \subseteq Freed(s, j) /\ (Shown(s, j)' => Shown(s, j))
        BY <1>2, <2>9, <3>3 DEF Shown
      <4> QED BY <1>2, <3>1, <4>1 DEF Conversation, Tokens
    <3> QED BY <3>2, <3>3
  <2> QED BY <2>11, <2>12 DEF Conversation
<1> QED BY <1>4, <1>5

\* output_draw takes a buffer that nothing uses.
LEMMA OutputDrawConverses ==
  ASSUME Inv, Inv', NEW s \in Surface, OutputDraw(s), Conversation(s)
  PROVE  Conversation(s)'
<1>1. UseTyped /\ UseTyped'
  BY DEF Inv, TypeOK, UseTyped
<1>2. UNCHANGED <<size, loSize, gen, hadSizes, slot, toLoader, reading>>
  BY DEF OutputDraw, shell, compositor
<1>3. /\ Carried(toLoader, toLoader', s, 0)
      /\ DOMAIN toLoader' \subseteq Nat \ {0} /\ DOMAIN toShell' \subseteq Nat \ {0}
  BY <1>1, <1>2, QueueFacts DEF UseTyped
<1>4. CASE FreeBuffers(s) = {}
  <2>1. UNCHANGED <<toShell, busy, drawn>>
    BY <1>4 DEF OutputDraw
  <2>2. Carried(toShell, toShell', s, 0)
    BY <1>1, <2>1, QueueFacts DEF UseTyped
  <2> QED BY <1>2, <1>3, <2>1, <2>2, ConversationCarried
<1>5. CASE FreeBuffers(s) # {}
  <2>1. PICK i : i = CHOOSE j \in FreeBuffers(s) : \A k \in FreeBuffers(s) : j <= k
    OBVIOUS
  <2> DEFINE b == <<gen[s], i>>
             m == [type |-> "READY", output |-> s, buffer |-> b]
  <2>2. i \in Id /\ i \notin busy[s]
    <3>1. FreeBuffers(s) \in SUBSET Id
      BY DEF FreeBuffers
    <3>2. i \in FreeBuffers(s)
      BY <1>5, <2>1, <3>1, Smallest
    <3> QED BY <3>2 DEF FreeBuffers
  <2>3. /\ busy' = [busy EXCEPT ![s] = @ \cup {i}]
        /\ drawn' = [drawn EXCEPT ![s] = @ \cup {b}]
        /\ toShell' \in {toShell, Append(toShell, m)}
    BY <1>5, <2>1 DEF OutputDraw
  <2>4. b \in Buffer /\ m \in ToShell
    BY <1>1, <2>2, BufferFacts, ToShellFacts DEF UseTyped
  <2>5. m.type = "READY" /\ m.output = s /\ m.buffer = b /\ b = <<gen[s], i>> /\ b[1] = gen[s]
    OBVIOUS
  <2> HIDE DEF m, b
  <2>6. busy'[s] = busy[s] \cup {i} /\ drawn'[s] = drawn[s] \cup {b}
    BY <1>1, <2>3 DEF UseTyped
  <2>7. \A n \in DOMAIN toShell' : \/ n \in DOMAIN toShell /\ toShell'[n] = toShell[n]
                                   \/ n = Len(toShell) + 1 /\ toShell'[n] = m
    <3>1. toShell \in Seq(ToShell)
      BY <1>1 DEF UseTyped
    <3> QED BY <2>3, <2>4, <3>1, AppendProperties
  <2>8. /\ About(toShell, "BUFFER", s)' \subseteq About(toShell, "BUFFER", s)
        /\ \A n \in About(toShell, "BUFFER", s)' : toShell'[n] = toShell[n]
        /\ \A n \in About(toShell, "READY", s)' :
             \/ n \in About(toShell, "READY", s) /\ toShell'[n] = toShell[n]
             \/ n = Len(toShell) + 1 /\ toShell'[n] = m
    BY <2>5, <2>7 DEF About
  <2>9. \A type : About(toLoader, type, s)' = About(toLoader, type, s)
    BY <1>2 DEF About
  <2>10. Sizes(s)'
    BY <1>2, <2>8, <2>9 DEF Conversation, Sizes
  <2>11. Orders(s)'
    BY <1>2, <2>5, <2>6, <2>8, <2>9 DEF Conversation, Orders
  <2>12. ASSUME NEW j \in Id PROVE Tokens(s, j)'
    <3>1. /\ Freed(s, j)' = Freed(s, j) /\ (Waiting(s, j)' <=> Waiting(s, j))
          /\ (Shown(s, j)' <=> Shown(s, j))
      BY <1>2, <2>9 DEF Freed, Waiting, Shown
    <3>2. \A n \in Announced(s, j)' :
            n \in Announced(s, j) \/ (j = i /\ n = Len(toShell) + 1)
      BY <1>2, <2>5, <2>8 DEF Announced
    <3>3. CASE j = i
      <4>1. Announced(s, i) = {} /\ ~Waiting(s, i) /\ ~Shown(s, i) /\ Freed(s, i) = {}
        BY <2>2 DEF Conversation, Tokens
      <4> QED BY <2>6, <3>1, <3>2, <3>3, <4>1 DEF Tokens
    <3>4. CASE j # i
      BY <2>6, <3>1, <3>2, <3>4 DEF Conversation, Tokens
    <3> QED BY <3>3, <3>4
  <2> QED BY <2>10, <2>11, <2>12 DEF Conversation
<1> QED BY <1>4, <1>5

\* output_configure makes a new generation, of which nothing is in use yet.
LEMMA OutputConfigureConverses ==
  ASSUME Inv, Inv', LoaderReceives, OutputConfigure(Head(toLoader)), scrFd,
         NEW s \in Surface, s = Head(toLoader).output, Conversation(s),
         \A b \in drawn[s] : b[1] <= gen[s], reading[s] \subseteq drawn[s]
  PROVE  Conversation(s)'
<1>m. PICK m : m = Head(toLoader)
  OBVIOUS
<1>1. UseTyped /\ UseTyped'
  BY DEF Inv, TypeOK, UseTyped
<1>2. /\ toLoader # <<>> /\ toLoader' = Tail(toLoader) /\ m.type = "CONFIGURE"
      /\ UNCHANGED <<size, drawn, hadSizes, slot, reading>>
  BY <1>m DEF LoaderReceives, OutputConfigure, shell, compositor, history
<1>3. /\ m \in ToLoader /\ m = toLoader[1] /\ 1 \in About(toLoader, "CONFIGURE", s)
      /\ m.output = s
  BY <1>1, <1>2, <1>m, TailFacts DEF UseTyped, About
<1>4. /\ Carried(toLoader, toLoader', s, 1)
      /\ DOMAIN toLoader' \subseteq Nat \ {0} /\ DOMAIN toShell' \subseteq Nat \ {0}
  BY <1>1, <1>2, QueueFacts DEF UseTyped
<1>5. CASE loSize[s] = m.size
  <2>1. UNCHANGED <<toShell, loSize, gen, busy>>
    BY <1>m, <1>3, <1>5 DEF OutputConfigure
  <2>2. Carried(toShell, toShell', s, 0)
    BY <1>1, <2>1, QueueFacts DEF UseTyped
  <2> QED BY <1>2, <1>4, <2>1, <2>2, ConversationCarried
<1>6. CASE loSize[s] # m.size
  <2> DEFINE Made(n) == [type |-> "BUFFER", output |-> s,
                         buffer |-> <<gen[s] + 1, n - 1>>, size |-> m.size]
             made == [n \in 1 .. NBuffers |-> Made(n)]
  <2>1. /\ loSize' = [loSize EXCEPT ![s] = m.size]
        /\ gen' = [gen EXCEPT ![s] = @ + 1]
        /\ busy' = [busy EXCEPT ![s] = {}]
        /\ toShell' = toShell \o made
    BY <1>m, <1>3, <1>6 DEF OutputConfigure
  <2>2. m.size \in Size /\ m.size # None /\ m.size \in hadSizes[s]
    BY <1>2, <1>3, ToLoaderFacts, ConstantFacts DEF Conversation, Sizes
  <2>3. /\ \A n \in 1 .. NBuffers :
             /\ made[n].type = "BUFFER" /\ made[n].output = s
             /\ made[n].size = m.size /\ made[n].buffer[1] = gen[s] + 1
             /\ made[n] \in ToShell
        /\ DOMAIN made = 1 .. NBuffers /\ made \in Seq(ToShell)
    <3>1. ASSUME NEW n \in 1 .. NBuffers
          PROVE  /\ Made(n).type = "BUFFER" /\ Made(n).output = s
                 /\ Made(n).size = m.size /\ Made(n).buffer[1] = gen[s] + 1
                 /\ Made(n) \in ToShell
      <4>1. gen[s] + 1 \in Nat /\ n - 1 \in Id
        BY <1>1, ConstantFacts DEF UseTyped, Id
      <4> QED BY <2>2, <4>1, BufferFacts, ToShellFacts
    <3>2. NBuffers \in Nat
      BY ConstantFacts
    <3> HIDE DEF Made
    <3> QED BY <3>1, <3>2
  <2> HIDE DEF made
  <2>4. /\ loSize'[s] = m.size /\ gen'[s] = gen[s] + 1 /\ busy'[s] = {}
        /\ gen[s] \in Nat
    BY <1>1, <2>1 DEF UseTyped
  <2>5. loSize[s] # size[s] \/ size[s] = None
    BY <1>3 DEF Conversation, Sizes
  <2>6. /\ \A i \in Id : slot[s][i] = None
        /\ \A k \in About(toShell, "BUFFER", s) : toShell[k].size # size[s]
    <3>1. size[s] = None => \A k \in About(toShell, "BUFFER", s) : toShell[k].size # size[s]
      BY <1>1, ConstantFacts DEF Conversation, Sizes, UseTyped
    <3>2. ASSUME NEW i \in Id, slot[s][i] # None PROVE FALSE
      <4>1. slot[s][i] \in Slot
        BY <1>1, <3>2 DEF UseTyped
      <4> QED BY <2>5, <3>2, <4>1, ConstantFacts DEF Conversation, Sizes, Slot
    <3> QED BY <2>5, <3>1, <3>2 DEF Conversation, Sizes
  <2>7. slot[s] = NoSlots
    BY <1>1, <2>6 DEF UseTyped, NoSlots
  <2>8. \A n \in DOMAIN toShell' :
          \/ n \in DOMAIN toShell /\ toShell'[n] = toShell[n]
          \/ n > Len(toShell) /\ \E k \in 1 .. NBuffers : toShell'[n] = made[k]
    <3>1. toShell \in Seq(ToShell)
      BY <1>1 DEF UseTyped
    <3>2. ASSUME NEW n \in DOMAIN toShell', n > Len(toShell)
          PROVE  \E k \in 1 .. NBuffers : toShell'[n] = made[k]
      <4>1. /\ Len(made) = NBuffers /\ NBuffers \in Nat /\ Len(toShell) \in Nat
            /\ DOMAIN toShell' = 1 .. Len(toShell) + Len(made)
        BY <2>1, <2>3, <3>1, ConstantFacts, ConcatProperties
      <4>2. n - Len(toShell) \in 1 .. NBuffers
        BY <3>2, <4>1
      <4>3. toShell'[n] = made[n - Len(toShell)]
        BY <2>1, <2>3, <3>1, <3>2, <4>1, ConcatProperties
      <4> QED BY <4>2, <4>3
    <3>3. ASSUME NEW n \in DOMAIN toShell', ~(n > Len(toShell))
          PROVE  n \in DOMAIN toShell /\ toShell'[n] = toShell[n]
      BY <2>1, <2>3, <3>1, <3>3, ConcatProperties
    <3> QED BY <3>2, <3>3
  <2>9. /\ \A n \in About(toShell, "READY", s)' :
             /\ n \in About(toShell, "READY", s) /\ toShell'[n] = toShell[n]
             /\ n \in Nat /\ n <= Len(toShell)
        /\ \A n \in About(toShell, "BUFFER", s)' :
             \/ n \in About(toShell, "BUFFER", s) /\ toShell'[n] = toShell[n]
             \/ /\ n > Len(toShell) /\ toShell'[n].size = m.size
                /\ toShell'[n].buffer[1] = gen[s] + 1
    <3>1. toShell \in Seq(ToShell)
      BY <1>1 DEF UseTyped
    <3> QED BY <2>3, <2>8, <3>1 DEF About
  <2>10. /\ \A type \in {"CONFIGURE", "RELEASE", "REMOVE"} : \A n \in About(toLoader', type, s) :
              /\ n \in Nat \ {0} /\ n + 1 \in About(toLoader, type, s)
              /\ toLoader'[n] = toLoader[n + 1]
    <3>1. Carried(toShell, toShell, s, 0)
      BY <1>1, QueueFacts DEF UseTyped
    <3> QED BY <1>4 DEF Carried, Matters, About
  <2>11. m.size = size[s] => About(toLoader', "CONFIGURE", s) = {}
    <3>1. ASSUME NEW n \in About(toLoader', "CONFIGURE", s), m.size = size[s] PROVE FALSE
      <4>1. n \in Nat \ {0} /\ n + 1 \in About(toLoader, "CONFIGURE", s)
        BY <2>10
      <4>2. n + 1 <= 1
        BY <1>3, <3>1, <4>1 DEF Conversation, Sizes
      <4> QED BY <4>1, <4>2
    <3> QED BY <3>1
  <2>12. Sizes(s)'
    <3>1. \A k \in About(toLoader', "CONFIGURE", s) :
            /\ toLoader'[k].size \in hadSizes'[s]
            /\ toLoader'[k].size = size'[s] =>
                 \A j \in About(toLoader', "CONFIGURE", s) : j <= k
      <4>1. ASSUME NEW k \in About(toLoader', "CONFIGURE", s)
            PROVE  toLoader'[k].size \in hadSizes'[s]
        BY <1>2, <2>10 DEF Conversation, Sizes
      <4>2. ASSUME NEW k \in About(toLoader', "CONFIGURE", s), toLoader'[k].size = size'[s],
                   NEW j \in About(toLoader', "CONFIGURE", s)
            PROVE  j <= k
        <5>1. /\ k + 1 \in About(toLoader, "CONFIGURE", s) /\ toLoader[k + 1].size = size[s]
              /\ j + 1 \in About(toLoader, "CONFIGURE", s) /\ j \in Nat /\ k \in Nat
          BY <1>2, <2>10, <4>2
        <5>2. j + 1 <= k + 1
          BY <5>1 DEF Conversation, Sizes
        <5> QED BY <5>1, <5>2
      <4> QED BY <4>1, <4>2
    <3>2. \A k \in About(toShell, "BUFFER", s)' :
            /\ toShell'[k].size \in hadSizes'[s]
            /\ toShell'[k].size = size'[s] =>
                 toShell'[k].buffer[1] = gen'[s] /\ loSize'[s] = size'[s]
      <4>1. \A k \in About(toShell, "BUFFER", s) :
              toShell[k].size \in hadSizes[s] /\ toShell[k].size # size[s]
        BY <2>6 DEF Conversation, Sizes
      <4> QED BY <1>2, <2>2, <2>4, <2>9, <4>1
    <3>3. {size'[s], loSize'[s]} \subseteq hadSizes'[s] \cup {None}
      BY <1>2, <2>2, <2>4 DEF Conversation, Sizes
    <3>4. loSize'[s] = size'[s] => About(toLoader', "CONFIGURE", s) = {}
      BY <1>2, <2>4, <2>11
    <3>5. \A i \in Id : slot'[s][i] = None
      BY <1>2, <2>6
    <3> QED BY <3>1, <3>2, <3>3, <3>4, <3>5 DEF Sizes
  <2>13. Orders(s)'
    <3>1. \A n \in About(toShell, "READY", s)' :
            /\ toShell'[n].buffer \in drawn'[s]
            /\ slot'[s] = NoSlots
            /\ \A k \in About(toShell, "BUFFER", s)' : k < n => toShell'[k].size # size'[s]
      <4>1. ASSUME NEW n \in About(toShell, "READY", s)',
                   NEW k \in About(toShell, "BUFFER", s)', k < n
            PROVE  toShell'[k].size # size'[s]
        <5>1. n \in Nat /\ n <= Len(toShell) /\ k \in Nat
          BY <1>4, <2>9 DEF About
        <5>2. Len(toShell) \in Nat
          BY <1>1, LenProperties DEF UseTyped
        <5>3. k \in About(toShell, "BUFFER", s) /\ toShell'[k] = toShell[k]
          BY <2>9, <4>1, <5>1, <5>2
        <5> QED BY <1>2, <2>6, <5>3
      <4>2. \A n \in About(toShell, "READY", s)' : toShell'[n].buffer \in drawn'[s]
        BY <1>2, <2>9 DEF Conversation, Orders
      <4> QED BY <1>2, <2>7, <4>1, <4>2
    <3>2. \A i \in Id : slot'[s][i] = None
      BY <1>2, <2>6
    <3>3. /\ About(toLoader', "REMOVE", s) = {}
          /\ \A k \in About(toLoader', "CONFIGURE", s), r \in About(toLoader', "RELEASE", s) :
               r < k
      BY <2>10 DEF Conversation, Orders
    <3> QED BY <3>1, <3>2, <3>3 DEF Orders
  <2>14. ASSUME NEW i \in Id PROVE Tokens(s, i)'
    <3>1. <<gen[s] + 1, i>> \notin drawn[s]
      BY <2>4
    <3>2. Announced(s, i)' = {}
      BY <1>2, <2>4, <3>1, <2>9 DEF Announced, Conversation, Orders
    <3>3. ~Shown(s, i)'
      BY <1>2, <2>4, <3>1 DEF Shown, Conversation
    <3>4. ~Waiting(s, i)'
      BY <1>2, <2>6 DEF Waiting
    <3>5. Freed(s, i)' = {}
      <4>1. ASSUME NEW r \in About(toLoader', "RELEASE", s) PROVE FALSE
        <5>1. r \in Nat \ {0} /\ r + 1 \in About(toLoader, "RELEASE", s)
          BY <2>10
        <5>2. r + 1 < 1
          BY <1>3, <5>1 DEF Conversation, Orders
        <5> QED BY <5>1, <5>2
      <4> QED BY <4>1 DEF Freed
    <3> QED BY <3>2, <3>3, <3>4, <3>5 DEF Tokens
  <2> QED BY <2>12, <2>13, <2>14 DEF Conversation
<1> QED BY <1>5, <1>6

\* A RELEASE ends the last use of its buffer.
LEMMA OtherMessageConverses ==
  ASSUME Inv, Inv', LoaderReceives, OtherMessage(Head(toLoader)),
         NEW s \in Surface, Conversation(s)
  PROVE  Conversation(s)'
<1>m. PICK m : m = Head(toLoader)
  OBVIOUS
<1>1. UseTyped /\ UseTyped'
  BY DEF Inv, TypeOK, UseTyped
<1>2. /\ toLoader # <<>> /\ toLoader' = Tail(toLoader) /\ m.type # "CONFIGURE"
      /\ UNCHANGED <<size, drawn, hadSizes, slot, reading, gen, toShell>>
  BY <1>m DEF LoaderReceives, OtherMessage, shell, compositor, history
<1>3. m \in ToLoader /\ m = toLoader[1] /\ 1 \in DOMAIN toLoader /\ m.output \in Surface
  BY <1>1, <1>2, <1>m, TailFacts, ToLoaderFacts DEF UseTyped
<1>4. /\ Carried(toLoader, toLoader', s, 1) /\ Carried(toShell, toShell', s, 0)
      /\ DOMAIN toLoader' \subseteq Nat \ {0} /\ DOMAIN toShell' \subseteq Nat \ {0}
  BY <1>1, <1>2, QueueFacts DEF UseTyped
<1>5. ~(m.output = s /\ m.type = "REMOVE")
  BY <1>3 DEF Conversation, Orders, About
<1>6. loSize'[s] = loSize[s]
  BY <1>1, <1>3, <1>5, <1>m DEF OtherMessage, UseTyped
<1>7. CASE UNCHANGED busy[s]
  BY <1>2, <1>4, <1>6, <1>7, ConversationCarried
<1>8. CASE ~UNCHANGED busy[s]
  <2>1. m.output = s /\ m.type = "RELEASE" /\ busy'[s] = busy[s] \ {m.buffer}
    BY <1>1, <1>3, <1>5, <1>8, <1>m DEF OtherMessage, UseTyped
  <2>2. /\ slot'[s] = slot[s]
        /\ \A i \in Id : slot[s][i] # None =>
             (slot[s][i].ready => slot[s][i].ready \/ slot[s][i].buffer \in drawn[s])
    BY <1>2
  <2>3. Sizes(s)' /\ Orders(s)'
    BY <1>2, <1>4, <1>6, <2>2, FlagsConverse
  <2>4. ASSUME NEW i \in Id PROVE Tokens(s, i)'
    <3>1. /\ Announced(s, i)' = Announced(s, i)
          /\ (Waiting(s, i)' <=> Waiting(s, i)) /\ (Shown(s, i)' <=> Shown(s, i))
      BY <1>2 DEF Announced, About, Waiting, Shown
    <3>2. \A n \in Freed(s, i)' : n \in Nat \ {0} /\ n + 1 \in Freed(s, i)
      BY <1>4 DEF Freed, Carried, Matters, About
    <3>3. CASE i = m.buffer
      <4>1. 1 \in Freed(s, i)
        BY <1>3, <2>1, <3>3 DEF Freed, About
      <4>2. /\ Announced(s, i) = {} /\ ~Waiting(s, i) /\ ~Shown(s, i)
            /\ \A n \in Freed(s, i) : n = 1
        BY <4>1 DEF Conversation, Tokens
      <4>3. Freed(s, i)' = {}
        <5>1. ASSUME NEW n \in Freed(s, i)' PROVE FALSE
          BY <3>2, <4>2
        <5> QED BY <5>1
      <4> QED BY <3>1, <4>2, <4>3 DEF Tokens
    <3>4. CASE i # m.buffer
      BY <2>1, <3>1, <3>2, <3>4 DEF Conversation, Tokens
    <3> QED BY <3>3, <3>4
  <2> QED BY <2>3, <2>4 DEF Conversation
<1> QED BY <1>7, <1>8

\* The surfaces about which the shell and the loader talk.
Talks(s) == s \in live \ returned /\ scrFd

\* What the shell sends.
LEMMA ShellConverses ==
  ASSUME Inv, Inv', NEW s \in Surface, Talks(s)', Talks(s), Conversation(s),
         \/ \E t \in Surface, sz \in Size : SurfaceConfigured(t, sz)
         \/ \E t \in Surface : OutputRemoved(t) \/ FrameDone(t)
         \/ \E t \in Surface : \E b \in reading[t] : BufferRelease(t, b)
  PROVE  Conversation(s)'
<1>1. UseTyped /\ UseTyped'
  BY DEF Inv, TypeOK, UseTyped
<1>2. DOMAIN toLoader' \subseteq Nat \ {0} /\ DOMAIN toShell' \subseteq Nat \ {0}
      /\ Carried(toLoader, toLoader, s, 0) /\ Carried(toShell, toShell, s, 0)
  BY <1>1, QueueFacts DEF UseTyped
<1>3. s \in live' /\ scrFd' /\ s \notin returned'
  BY DEF Talks
<1>4. ASSUME NEW t \in Surface, NEW sz \in Size, SurfaceConfigured(t, sz), t # s
      PROVE  Conversation(s)'
  <2>1. /\ ScrSend([type |-> "CONFIGURE", output |-> t, size |-> sz])
        /\ slot' = [slot EXCEPT ![t] = NoSlots]
        /\ size' = [size EXCEPT ![t] = sz]
        /\ hadSizes' = [hadSizes EXCEPT ![t] = @ \cup {sz}]
        /\ UNCHANGED <<loSize, gen, busy, reading, drawn>>
    BY <1>3, <1>4 DEF SurfaceConfigured, ScreensaverFailed, StopScreensaver, loaderVars
  <2>2. Carried(toLoader, toLoader', s, 0) /\ toShell' = toShell
    BY <1>1, <1>4, <2>1, SendCarries, ToLoaderFacts DEF Matters
  <2> QED BY <1>1, <1>2, <1>4, <2>1, <2>2, ConversationCarried DEF UseTyped
<1>5. ASSUME NEW t \in Surface, OutputRemoved(t) PROVE Conversation(s)'
  <2>1. /\ ScrSend([type |-> "REMOVE", output |-> t]) /\ t # s
        /\ slot' = [slot EXCEPT ![t] = NoSlots]
        /\ UNCHANGED <<size, hadSizes, loSize, gen, busy, reading, drawn>>
    BY <1>3, <1>5
       DEF OutputRemoved, CleanedUp, ScreensaverFailed, StopScreensaver, loaderVars
  <2>2. Carried(toLoader, toLoader', s, 0) /\ toShell' = toShell
    BY <1>1, <1>5, <2>1, SendCarries, ToLoaderFacts DEF Matters
  <2> QED BY <1>1, <1>2, <1>5, <2>1, <2>2, ConversationCarried DEF UseTyped
<1>6. ASSUME NEW t \in Surface, FrameDone(t) PROVE Conversation(s)'
  <2>1. /\ ScrSend([type |-> "FRAME", output |-> t])
        /\ UNCHANGED <<slot, size, hadSizes, loSize, gen, busy, reading, drawn>>
    BY <1>3, <1>6 DEF FrameDone, ScreensaverFailed, StopScreensaver, loaderVars
  <2>2. Carried(toLoader, toLoader', s, 0) /\ toShell' = toShell
    BY <1>1, <1>6, <2>1, SendCarries, ToLoaderFacts DEF Matters
  <2> QED BY <1>2, <2>1, <2>2, ConversationCarried
<1>7. ASSUME NEW t \in Surface, NEW b \in reading[t], BufferRelease(t, b), t # s
      PROVE  Conversation(s)'
  <2>1. UNCHANGED <<slot, size, hadSizes, loSize, gen, busy, drawn>>
        /\ reading' = [reading EXCEPT ![t] = @ \ {b}] /\ b \in Buffer
    BY <1>1, <1>3, <1>7
       DEF BufferRelease, ScreensaverFailed, StopScreensaver, loaderVars, UseTyped
  <2>2. \/ ScrSend([type |-> "RELEASE", output |-> t, buffer |-> b[2]])
        \/ UNCHANGED socket
    BY <1>3, <1>7 DEF BufferRelease, ScreensaverFailed, StopScreensaver
  <2>3. Carried(toLoader, toLoader', s, 0) /\ toShell' = toShell
    BY <1>1, <1>2, <1>7, <2>1, <2>2, SendCarries, ToLoaderFacts, BufferFacts
       DEF Matters, socket
  <2> QED BY <1>1, <1>2, <1>7, <2>1, <2>3, ConversationCarried DEF UseTyped
<1> QED BY <1>3, <1>4, <1>5, <1>6, <1>7, ConfiguredConverses, BufferReleaseConverses

\* What the shell receives.
LEMMA ScrHandleConverses ==
  ASSUME Inv, Inv', NEW s \in Surface, Conversation(s), ScrHandle, reading[s] \subseteq drawn[s]
  PROVE  Conversation(s)' /\ reading'[s] \subseteq drawn'[s]
<1>m. PICK m : m = Head(toShell)
  OBVIOUS
<1>1. UseTyped /\ UseTyped'
  BY DEF Inv, TypeOK, UseTyped
<1>2. /\ toShell # <<>> /\ toShell' = Tail(toShell)
      /\ UNCHANGED <<toLoader, size, loSize, gen, busy, drawn, hadSizes>>
  BY DEF ScrHandle, loaderVars, history
<1>3. m \in ToShell /\ m.output \in Surface /\ m.buffer[2] \in Id
  BY <1>1, <1>2, <1>m, TailFacts, ToShellFacts, BufferFacts DEF UseTyped
<1>4. CASE m.output = s
  <2>1. CASE HandleReady(m)
    BY <1>m, <1>4, <2>1, HandleReadyConverses
  <2>2. CASE HandleBuffer(m)
    BY <1>m, <1>2, <1>4, <2>2, HandleBufferConverses DEF HandleBuffer
  <2> QED BY <1>m, <2>1, <2>2 DEF ScrHandle
<1>5. CASE m.output # s
  <2>1. /\ Carried(toLoader, toLoader', s, 0) /\ Carried(toShell, toShell', s, 1)
        /\ DOMAIN toLoader' \subseteq Nat \ {0} /\ DOMAIN toShell' \subseteq Nat \ {0}
    BY <1>1, <1>2, QueueFacts DEF UseTyped
  <2>2. slot'[s] = slot[s] /\ reading'[s] = reading[s]
    <3>1. CASE HandleBuffer(m)
      BY <1>1, <1>5, <3>1 DEF HandleBuffer, UseTyped
    <3>2. CASE HandleReady(m)
      BY <1>1, <1>5, <3>2 DEF HandleReady, ScrPresent, UseTyped
    <3> QED BY <1>m, <3>1, <3>2 DEF ScrHandle
  <2> QED BY <1>2, <2>1, <2>2, ConversationCarried
<1> QED BY <1>4, <1>5

\* What the loader receives.
LEMMA LoaderReceivesConverses ==
  ASSUME Inv, Inv', NEW s \in Surface, Conversation(s), LoaderReceives, scrFd,
         \A b \in drawn[s] : b[1] <= gen[s], reading[s] \subseteq drawn[s]
  PROVE  Conversation(s)'
<1>m. PICK m : m = Head(toLoader)
  OBVIOUS
<1>1. UseTyped /\ UseTyped'
  BY DEF Inv, TypeOK, UseTyped
<1>2. CASE OtherMessage(m)
  BY <1>m, <1>2, OtherMessageConverses
<1>3. CASE OutputConfigure(m) /\ m.output = s
  BY <1>m, <1>3, OutputConfigureConverses
<1>4. CASE OutputConfigure(m) /\ m.output # s
  <2>1. /\ toLoader # <<>> /\ toLoader' = Tail(toLoader) /\ m.type = "CONFIGURE"
        /\ UNCHANGED <<size, drawn, hadSizes, slot, reading>>
    BY <1>4 DEF LoaderReceives, OutputConfigure, shell, compositor, history
  <2>2. m \in ToLoader /\ m.output \in Surface /\ m.size \in Size
    BY <1>1, <1>m, <2>1, TailFacts, ToLoaderFacts DEF UseTyped
  <2>3. UNCHANGED <<loSize[s], gen[s], busy[s]>>
    BY <1>1, <1>4, <2>2 DEF OutputConfigure, UseTyped
  <2> DEFINE Made(n) == [type |-> "BUFFER", output |-> m.output,
                         buffer |-> <<gen[m.output] + 1, n - 1>>, size |-> m.size]
             made == [n \in 1 .. NBuffers |-> Made(n)]
  <2>4. toShell' \in {toShell, toShell \o made}
    BY <1>4 DEF OutputConfigure
  <2>5. made \in Seq(ToShell) /\ \A n \in DOMAIN made : ~Matters(made[n], s)
    <3>1. ASSUME NEW n \in 1 .. NBuffers
          PROVE  Made(n) \in ToShell /\ ~Matters(Made(n), s)
      <4>1. gen[m.output] + 1 \in Nat /\ n - 1 \in Id
        BY <1>1, <2>2, ConstantFacts DEF UseTyped, Id
      <4>2. Made(n) \in ToShell
        BY <2>2, <4>1, BufferFacts, ToShellFacts
      <4> QED BY <1>4, <4>2 DEF Matters
    <3>2. NBuffers \in Nat
      BY ConstantFacts
    <3> HIDE DEF Made
    <3> QED BY <3>1, <3>2
  <2> HIDE DEF made
  <2>6. /\ Carried(toLoader, toLoader', s, 1) /\ Carried(toShell, toShell', s, 0)
        /\ DOMAIN toLoader' \subseteq Nat \ {0} /\ DOMAIN toShell' \subseteq Nat \ {0}
    <3>1. /\ Carried(toShell, toShell, s, 0)
          /\ Carried(toShell, toShell \o made, s, 0)
      BY <1>1, <2>5, QueueFacts DEF UseTyped
    <3>2. Carried(toLoader, toLoader', s, 1)
      BY <1>1, <2>1, QueueFacts DEF UseTyped
    <3>3. DOMAIN toLoader' \subseteq Nat \ {0} /\ DOMAIN toShell' \subseteq Nat \ {0}
      BY <1>1, QueueFacts DEF UseTyped
    <3> QED BY <2>4, <3>1, <3>2, <3>3
  <2> QED BY <2>1, <2>3, <2>6, ConversationCarried
<1> QED BY <1>m, <1>2, <1>3, <1>4 DEF LoaderReceives

\* To begin with nothing is under way.
LEMMA InitUse == Init => UseInv
<1> SUFFICES ASSUME Init PROVE UseInv
  OBVIOUS
<1>1. \A s \in Surface : drawn[s] = {} /\ reading[s] = {}
  BY DEF Init
<1>2. ASSUME NEW s \in Surface PROVE Conversation(s)
  <2>1. /\ \A type : About(toLoader, type, s) = {} /\ About(toShell, type, s) = {}
        /\ size[s] = None /\ loSize[s] = None
        /\ \A i \in Id : slot[s][i] = None
    BY DEF Init, About, NoSlots
  <2> QED
    BY <1>1, <2>1 DEF Conversation, Sizes, Orders, Tokens, Announced, Waiting, Shown, Freed
<1>3. live = Surface
  BY DEF Init
<1>4. DrawnBeforeShown /\ \A s \in Surface : \A b \in drawn[s] : b[1] <= gen[s]
  BY <1>1 DEF DrawnBeforeShown
<1> QED BY <1>2, <1>3, <1>4 DEF UseInv

\* The generations of what has been drawn are those there have been.
LEMMA DrawnStep ==
  ASSUME Inv, Inv', [Next]_vars, NEW s \in Surface, \A b \in drawn[s] : b[1] <= gen[s]
  PROVE  drawn[s] \subseteq drawn'[s] /\ \A b \in drawn'[s] : b[1] <= gen'[s]
<1>1. UseTyped /\ UseTyped'
  BY DEF Inv, TypeOK, UseTyped
<1>2. CASE drawn'[s] = drawn[s] /\ gen'[s] \in {gen[s], gen[s] + 1}
  <2>1. \A b \in drawn[s] : b[1] \in Nat /\ gen[s] \in Nat
    BY <1>1 DEF UseTyped, Buffer
  <2> QED BY <1>2, <2>1
<1>3. ASSUME NEW t \in Surface, OutputDraw(t)
      PROVE  drawn[s] \subseteq drawn'[s] /\ \A b \in drawn'[s] : b[1] <= gen'[s]
  <2>1. PICK i : i = CHOOSE j \in FreeBuffers(t) : \A k \in FreeBuffers(t) : j <= k
    OBVIOUS
  <2>2. gen' = gen /\ drawn' \in {drawn, [drawn EXCEPT ![t] = @ \cup {<<gen[t], i>>}]}
    BY <1>3, <2>1 DEF OutputDraw
  <2>3. drawn'[s] \in {drawn[s], drawn[s] \cup {<<gen[s], i>>}}
    BY <1>1, <2>2 DEF UseTyped
  <2>4. gen[s] \in Nat /\ <<gen[s], i>>[1] = gen[s]
    BY <1>1 DEF UseTyped
  <2> QED BY <2>2, <2>3, <2>4
<1>4. CASE LoaderReceives
  <2>1. drawn' = drawn
    BY <1>4 DEF LoaderReceives, history
  <2>2. gen' = gen \/ \E t \in Surface : gen' = [gen EXCEPT ![t] = @ + 1]
    <3>1. Head(toLoader).output \in Surface
      BY <1>1, <1>4, TailFacts, ToLoaderFacts DEF UseTyped, LoaderReceives
    <3> QED BY <1>4, <3>1 DEF LoaderReceives, OtherMessage, OutputConfigure
  <2>3. gen'[s] \in {gen[s], gen[s] + 1}
    BY <1>1, <2>2 DEF UseTyped
  <2> QED BY <1>2, <2>1, <2>3
<1>5. CASE ~LoaderReceives /\ ~\E t \in Surface : OutputDraw(t)
  <2>1. UNCHANGED <<drawn, gen>>
    BY <1>5
       DEF Next, vars, history, loaderVars, ScrHandle, ScrGone, Unlock, LoaderCaughtUp,
           LoaderDrawn, LoaderExits, OutputRemoved, FrameDone, SurfaceConfigured,
           ParamsCreated, ParamsFailed, BufferRelease
  <2> QED BY <1>2, <2>1
<1> QED BY <1>3, <1>4, <1>5

\* Every step of the shell, the loader and the compositor keeps the invariant.
LEMMA UseStep ==
  ASSUME Inv, Inv', UseInv, [Next]_vars
  PROVE  UseInv'
<1>1. UseTyped /\ UseTyped'
  BY DEF Inv, TypeOK, UseTyped
<1>2. \A s \in Surface : drawn[s] \subseteq drawn'[s] /\ \A b \in drawn'[s] : b[1] <= gen'[s]
  BY DrawnStep DEF UseInv
<1>3. returned \subseteq returned' /\ live' \subseteq live /\ (scrFd' => scrFd)
  <2>1. CASE \/ ScrHandle \/ LoaderReceives \/ LoaderCaughtUp \/ LoaderDrawn \/ LoaderExits
             \/ \E s \in Surface : OutputDraw(s) \/ \E i \in Id : ParamsCreated(s, i)
             \/ UNCHANGED vars
    <3>1. UNCHANGED <<returned, live, scrFd>>
      BY <2>1 DEF vars, shell, history, ScrHandle, LoaderReceives, LoaderCaughtUp,
                  LoaderDrawn, LoaderExits, OutputDraw, ParamsCreated
    <3> QED BY <3>1
  <2>2. CASE ScrGone \/ Unlock \/ \E s \in Surface : \E i \in Id : ParamsFailed(s, i)
    BY <2>2 DEF ScrGone, Unlock, ParamsFailed, ScreensaverFailed, StopScreensaver, history
  <2>3. ASSUME NEW s \in Surface, OutputRemoved(s) \/ FrameDone(s)
        PROVE  returned \subseteq returned' /\ live' \subseteq live /\ (scrFd' => scrFd)
    BY <2>3 DEF OutputRemoved, FrameDone, ScrSend, ScreensaverFailed, StopScreensaver
  <2>4. ASSUME NEW s \in Surface, NEW sz \in Size, SurfaceConfigured(s, sz)
        PROVE  returned \subseteq returned' /\ live' \subseteq live /\ (scrFd' => scrFd)
    BY <2>4 DEF SurfaceConfigured, ScrSend, ScreensaverFailed, StopScreensaver
  <2>5. ASSUME NEW s \in Surface, NEW b \in reading[s], BufferRelease(s, b)
        PROVE  returned \subseteq returned' /\ live' \subseteq live /\ (scrFd' => scrFd)
    BY <2>5 DEF BufferRelease, ScrSend, ScreensaverFailed, StopScreensaver
  <2> QED BY <2>1, <2>2, <2>3, <2>4, <2>5 DEF Next
<1>4. ASSUME NEW s \in Surface, Talks(s)
      PROVE  /\ reading'[s] \subseteq drawn'[s]
             /\ Talks(s)' => Conversation(s)'
  <2>1. Conversation(s) /\ reading[s] \subseteq drawn[s] /\ \A b \in drawn[s] : b[1] <= gen[s]
    BY <1>4 DEF Talks, UseInv, DrawnBeforeShown
  <2>2. CASE ScrHandle
    BY <2>1, <2>2, ScrHandleConverses
  <2>3. ASSUME NEW i \in Id, ParamsCreated(s, i)
        PROVE  reading'[s] \subseteq drawn'[s] /\ Conversation(s)'
    BY <2>1, <2>3, ParamsCreatedConverses
  <2>4. ASSUME reading'[s] \subseteq reading[s], Talks(s)' => Conversation(s)'
        PROVE  reading'[s] \subseteq drawn'[s] /\ (Talks(s)' => Conversation(s)')
    BY <1>2, <2>1, <2>4
  <2>5. CASE ScrGone \/ Unlock \/ \E t \in Surface : \E i \in Id : ParamsFailed(t, i)
    <3>1. scrFd' = FALSE /\ UNCHANGED reading
      BY <2>5 DEF ScrGone, Unlock, ParamsFailed, StopScreensaver, ScreensaverFailed, compositor
    <3> QED BY <2>4, <3>1 DEF Talks
  <2>6. CASE LoaderReceives
    <3>1. UNCHANGED reading
      BY <2>6 DEF LoaderReceives, compositor
    <3> QED BY <1>4, <2>1, <2>4, <2>6, <3>1, LoaderReceivesConverses DEF Talks
  <2>7. CASE \/ \E t \in Surface, sz \in Size : SurfaceConfigured(t, sz)
             \/ \E t \in Surface : OutputRemoved(t) \/ FrameDone(t)
             \/ \E t \in Surface : \E b \in reading[t] : BufferRelease(t, b)
    <3>1. \/ UNCHANGED reading
          \/ \E t \in Surface : \E b \in reading[t] : reading' = [reading EXCEPT ![t] = @ \ {b}]
      BY <2>7 DEF SurfaceConfigured, OutputRemoved, FrameDone, BufferRelease
    <3>2. reading'[s] \subseteq reading[s]
      BY ZenonT(60), <1>1, <1>4, <3>1 DEF UseTyped
    <3> QED BY <1>4, <2>1, <2>4, <2>7, <3>2, ShellConverses
  <2>8. ASSUME NEW t \in Surface, OutputDraw(t)
        PROVE  reading'[s] \subseteq drawn'[s] /\ (Talks(s)' => Conversation(s)')
    <3>1. UNCHANGED <<reading, toLoader, size, loSize, gen, hadSizes, slot>>
      BY <2>8 DEF OutputDraw, compositor, shell
    <3>2. CASE t = s
      BY <2>1, <2>4, <2>8, <3>1, <3>2, OutputDrawConverses
    <3>3. CASE t # s
      <4>1. PICK i : i = CHOOSE j \in FreeBuffers(t) : \A k \in FreeBuffers(t) : j <= k
        OBVIOUS
      <4> DEFINE m == [type |-> "READY", output |-> t, buffer |-> <<gen[t], i>>]
      <4>2. /\ busy' \in {busy, [busy EXCEPT ![t] = @ \cup {i}]}
            /\ toShell' \in {toShell, Append(toShell, m)}
        BY <2>8, <4>1 DEF OutputDraw
      <4>3. busy'[s] = busy[s]
        BY <1>1, <3>3, <4>2 DEF UseTyped
      <4>4. Carried(toShell, toShell', s, 0)
        <5>1. toShell' = toShell \/ (toShell' = Append(toShell, m) /\ m \in ToShell)
          <6>1. CASE FreeBuffers(t) = {}
            BY <2>8, <6>1 DEF OutputDraw
          <6>2. CASE FreeBuffers(t) # {}
            <7>1. FreeBuffers(t) \in SUBSET Id
              BY DEF FreeBuffers
            <7>2. i \in Id
              BY <4>1, <6>2, <7>1, Smallest
            <7>3. gen[t] \in Nat
              BY <1>1 DEF UseTyped
            <7> QED BY <4>2, <7>2, <7>3, BufferFacts, ToShellFacts
          <6> QED BY <6>1, <6>2
        <5>2. ~Matters(m, s)
          BY <3>3 DEF Matters
        <5> HIDE DEF m
        <5>3. CASE toShell' = toShell
          BY <1>1, <5>3, QueueFacts DEF UseTyped
        <5>4. CASE toShell' = Append(toShell, m) /\ m \in ToShell
          BY <1>1, <5>2, <5>4, QueueFacts DEF UseTyped
        <5> QED BY <5>1, <5>3, <5>4
      <4>5. Carried(toLoader, toLoader', s, 0)
            /\ DOMAIN toLoader' \subseteq Nat \ {0} /\ DOMAIN toShell' \subseteq Nat \ {0}
        BY <1>1, <3>1, QueueFacts DEF UseTyped
      <4> QED BY <1>2, <2>1, <2>4, <3>1, <4>3, <4>4, <4>5, ConversationCarried
    <3> QED BY <3>2, <3>3
  <2>9. ASSUME NEW t \in Surface, NEW i \in Id, ParamsCreated(t, i), t # s
        PROVE  reading'[s] \subseteq drawn'[s] /\ (Talks(s)' => Conversation(s)')
    <3>1. UNCHANGED <<toLoader, toShell, size, loSize, gen, busy, drawn, hadSizes>>
      BY <2>9 DEF ParamsCreated, socket, loaderVars, history
    <3>2. UNCHANGED <<slot[s], reading[s]>>
      BY <1>1, <2>9 DEF ParamsCreated, ScrPresent, UseTyped
    <3>3. /\ Carried(toLoader, toLoader', s, 0) /\ Carried(toShell, toShell', s, 0)
          /\ DOMAIN toLoader' \subseteq Nat \ {0} /\ DOMAIN toShell' \subseteq Nat \ {0}
      BY <1>1, <3>1, QueueFacts DEF UseTyped
    <3> QED BY <2>1, <2>4, <3>1, <3>2, <3>3, ConversationCarried
  <2>10. CASE LoaderCaughtUp \/ LoaderDrawn \/ LoaderExits \/ UNCHANGED vars
    <3>1. /\ UNCHANGED <<toLoader, toShell, size, loSize, gen, busy, drawn, hadSizes>>
          /\ UNCHANGED <<slot, reading>>
      BY <2>10 DEF LoaderCaughtUp, LoaderDrawn, LoaderExits, vars, shell, socket, loaderVars,
                   compositor, history
    <3>2. /\ Carried(toLoader, toLoader', s, 0) /\ Carried(toShell, toShell', s, 0)
          /\ DOMAIN toLoader' \subseteq Nat \ {0} /\ DOMAIN toShell' \subseteq Nat \ {0}
      BY <1>1, <3>1, QueueFacts DEF UseTyped
    <3> QED BY <2>1, <2>4, <3>1, <3>2, ConversationCarried
  <2> QED BY <2>2, <2>3, <2>5, <2>6, <2>7, <2>8, <2>9, <2>10 DEF Next
<1>5. ASSUME NEW s \in Surface, ~Talks(s), s \notin returned
      PROVE  reading'[s] \subseteq drawn'[s]
  <2>1. reading[s] \subseteq drawn[s]
    BY <1>5 DEF UseInv, DrawnBeforeShown
  <2>2. \A i \in Id : slot[s][i] = None
    BY <1>5 DEF Inv, NothingLeftBehind, Talks, NoSlots
  <2>3. reading'[s] \subseteq reading[s]
    <3>1. CASE ScrHandle
      BY <1>1, <1>5, <3>1 DEF ScrHandle, HandleBuffer, HandleReady, ScrPresent, UseTyped, Talks
    <3>2. ASSUME NEW t \in Surface, NEW i \in Id, ParamsCreated(t, i)
          PROVE  reading'[s] \subseteq reading[s]
      <4>1. t # s
        BY <2>2, <3>2 DEF ParamsCreated
      <4> QED BY <1>1, <3>2, <4>1 DEF ParamsCreated, ScrPresent, UseTyped
    <3>3. ASSUME NEW t \in Surface, NEW b \in reading[t], BufferRelease(t, b)
          PROVE  reading'[s] \subseteq reading[s]
      BY <1>1, <3>3 DEF BufferRelease, UseTyped
    <3>4. CASE /\ ~ScrHandle
               /\ ~\E t \in Surface, i \in Id : ParamsCreated(t, i)
               /\ ~\E t \in Surface : \E b \in reading[t] : BufferRelease(t, b)
      BY <3>4
         DEF Next, vars, compositor, ScrGone, Unlock, LoaderReceives, LoaderCaughtUp,
             LoaderDrawn, LoaderExits, OutputRemoved, FrameDone, OutputDraw,
             SurfaceConfigured, ParamsFailed
    <3> QED BY <3>1, <3>2, <3>3, <3>4
  <2> QED BY <1>2, <2>1, <2>3
<1>6. DrawnBeforeShown'
  BY <1>3, <1>4, <1>5 DEF DrawnBeforeShown
<1>7. ASSUME scrFd', NEW s \in live' \ returned' PROVE Conversation(s)'
  <2>1. s \in Surface /\ Talks(s) /\ Talks(s)'
    BY <1>3, <1>7 DEF Talks, Inv, TypeOK
  <2> QED BY <1>4, <2>1
<1> QED BY <1>2, <1>6, <1>7 DEF UseInv

\* The loader counts a buffer of the current generation that is in use as busy.
LEMMA UseInvSuffices == Inv /\ UseInv => BusyWhileInUse
<1> SUFFICES ASSUME Inv, UseInv, NEW s \in live \ returned, scrFd, NEW b \in InUse(s),
                    b[1] = gen[s]
             PROVE  b[2] \in busy[s]
  BY DEF BusyWhileInUse
<1>1. UseTyped /\ s \in Surface
  BY DEF Inv, TypeOK, UseTyped
<1>2. Conversation(s)
  BY DEF UseInv
<1>3. CASE b \in reading[s]
  <2>1. b \in Buffer
    BY <1>1, <1>3 DEF UseTyped
  <2>2. PICK i \in Id : i = b[2] /\ b = <<gen[s], i>>
    BY <2>1 DEF Buffer
  <2> QED BY <1>2, <1>3, <2>2 DEF Conversation, Tokens, Shown
<1>4. ASSUME NEW n \in About(toShell, "READY", s), b = toShell[n].buffer
      PROVE  b[2] \in busy[s]
  <2>1. b \in Buffer
    BY <1>1, <1>4, ToShellFacts DEF UseTyped, About
  <2>2. PICK i \in Id : i = b[2] /\ b = <<gen[s], i>>
    BY <2>1 DEF Buffer
  <2>3. n \in Announced(s, i)
    BY <1>4, <2>2 DEF Announced
  <2> QED BY <1>2, <2>2, <2>3 DEF Conversation, Tokens
<1>5. ASSUME NEW i \in Id, slot[s][i] # None, slot[s][i].ready, b = slot[s][i].buffer
      PROVE  b[2] \in busy[s]
  <2>1. b[2] = i /\ Waiting(s, i)
    BY <1>2, <1>5 DEF Conversation, Sizes, Waiting
  <2> QED BY <1>2, <2>1 DEF Conversation, Tokens
<1> QED BY <1>3, <1>4, <1>5 DEF InUse, About

\* The invariant holds in every state.
LEMMA UseInvariant == Spec => []UseInv
<1>1. Init => UseInv
  BY InitUse
<1>2. Inv /\ Inv' /\ UseInv /\ [Next]_vars => UseInv'
  BY UseStep
<1> QED BY <1>1, <1>2, Invariant, PTL DEF Spec

\* The loader counts every buffer as busy that the shell shows, is about to show, or is
\* going to read of (Buffer::busy), for any number of buffers, sizes and messages on their
\* way, and whichever of them are lost.
THEOREM BusyWhileInUseHolds == Spec => []BusyWhileInUse
  BY UseInvSuffices, UseInvariant, Invariant, PTL

\* Nothing is shown that has not been drawn: a READY is never taken for one about a
\* buffer of another size.
THEOREM DrawnBeforeShownHolds == Spec => []DrawnBeforeShown
<1>1. UseInv => DrawnBeforeShown
  BY DEF UseInv
<1> QED BY <1>1, UseInvariant, PTL

=============================================================================
