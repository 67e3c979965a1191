------------------------------ MODULE Systray ------------------------------
(***************************************************************************)
(* The tray (systray/src/systray.cpp): its icons, and the one popup that   *)
(* can be open at a time, an item's menu or the volume's mixer.  It is     *)
(* composed with the volume item (PulseVolume) and one StatusNotifierItem  *)
(* with a menu, of which sni_watcher.cpp gets the layout when it is asked  *)
(* for.  The item comes and goes, with its program or without it           *)
(* (StatusNotifier says how); until its properties come, the watcher knows *)
(* no menu of it.                                                          *)
(*                                                                         *)
(* The loop polls the watcher and the sound server, lays the icons out     *)
(* again, and then handles the user's input.                               *)
(***************************************************************************)
EXTENDS PulseVolume

CONSTANT
  MaxCalls  \* bound: layouts being fetched at once

ASSUME MaxCallsOK == MaxCalls \in Nat
ASSUME NoItemOK == None \notin {"volume", "notifier"}

VARIABLES
  phase,          \* of the loop: "poll" or "input"
  mIconWidgets,   \* items with an icon: "volume" and "notifier"
  mNeedsRelayout, mCollapsed,
  mMenu,          \* the item whose menu is open
  mMixer,         \* whether the volume's mixer is
  mMixerOpen,     \* PulseVolume's
  slider,         \* of the mixer's master channel, and how far it goes
  columnMax,
  notifier,       \* the StatusNotifierItem: "none", "Active" or "Passive"
  menuPath,       \* whether the watcher has the path of its menu
  calls,          \* its layouts being fetched
  told,           \* the last of "opened" and "closed" its program has been sent
  \* History, for properties only.
  crossed         \* the item's menu has not opened and closed as it was told

popups == <<mMenu, mMixer, mMixerOpen, slider, columnMax, told, crossed>>
layout == <<mIconWidgets, mNeedsRelayout, mCollapsed>>
vars == <<pulse, phase, layout, popups, notifier, menuPath, calls>>

Init ==
  /\ PulseInit
  /\ phase = "poll"
  /\ mIconWidgets = {} /\ mNeedsRelayout = TRUE /\ mCollapsed = FALSE
  /\ mMenu = None /\ mMixer = FALSE /\ mMixerOpen = FALSE
  /\ slider = None /\ columnMax = None
  /\ notifier = "none" /\ menuPath = FALSE /\ calls = 0
  /\ told = "closed" /\ crossed = FALSE

(***************************************************************************)
(* Definitions with a mistake.                                             *)
(***************************************************************************)

\* Items not told that their menu has closed.
ToldOfClosing_Never == told

\* What else is open left open.
ShowMenu_Only(id) ==
  /\ mMenu' = IF id \in mIconWidgets THEN id ELSE None
  /\ UNCHANGED <<mMixer, mMixerOpen, slider, columnMax>>

(***************************************************************************)
(* Popups.                                                                 *)
(***************************************************************************)

\* sendMenuEvent sends nothing for an item that is gone, or that has no menu so far.
CanTell == notifier # "none" /\ menuPath

\* menuClosed.
ToldOfClosing == IF mMenu = "notifier" /\ CanTell THEN "closed" ELSE told

\* closeMenu, for the item.
TellOfClosing ==
  /\ told' = ToldOfClosing
  /\ crossed' = IF mMenu = "notifier" THEN ~CanTell ELSE crossed

\* closeMixer
CloseMixer == mMixer' = FALSE /\ mMixerOpen' = FALSE /\ slider' = None /\ columnMax' = None

\* closePopups, and what is shown instead: a menu, a mixer or nothing.
ShowMenu(id) ==
  /\ mMenu' = IF id \in mIconWidgets THEN id ELSE None
  /\ CloseMixer

ClosePopups == mMenu' = None /\ CloseMixer /\ TellOfClosing

\* setColumn, for a level.
SetColumn(level) == slider' = level /\ columnMax' = Max({Full, level})

\* activate and showMixer, which closes the notifier's menu.
OpenMixer ==
  /\ mMixer' = TRUE /\ mMixerOpen' = TRUE
  /\ SetColumn(mDevices[DefaultDevice])
  /\ mMenu' = None /\ TellOfClosing

\* MixerWindow::update, by refreshDone and showMixer.
UpdateMixer ==
  /\ IF mMixerOpen /\ mItem' # None THEN SetColumn(mItem') ELSE UNCHANGED <<slider, columnMax>>
  /\ UNCHANGED <<mMenu, mMixer, mMixerOpen, told, crossed>>

(***************************************************************************)
(* Polling.                                                                *)
(***************************************************************************)

\* The answer to GetLayout: "opened", then showMenu, which tells a menu that was open "closed".
LayoutReply ==
  /\ phase = "poll" /\ calls > 0 /\ calls' = calls - 1
  /\ IF notifier = "none" THEN UNCHANGED popups
     ELSE /\ ShowMenu("notifier")
          /\ told' = IF ~CanTell THEN told
                     ELSE IF mMenu = "notifier" THEN "closed" ELSE "opened"
          /\ crossed' = (~CanTell \/ mMenu = "notifier" \/ "notifier" \notin mIconWidgets)
  /\ UNCHANGED <<pulse, phase, layout, notifier, menuPath>>

\* An error instead, or an empty menu.
LayoutError ==
  /\ phase = "poll" /\ calls > 0 /\ calls' = calls - 1
  /\ UNCHANGED <<pulse, phase, layout, popups, notifier, menuPath>>

\* addItem: the item of the program that was told, or of one that has been told nothing.
ItemAdded ==
  /\ phase = "poll" /\ notifier = "none"
  /\ notifier' = "Active" /\ UNCHANGED menuPath
  /\ mNeedsRelayout' \in {mNeedsRelayout, TRUE}
  /\ \/ UNCHANGED <<told, crossed>>
     \/ told' = "closed" /\ crossed' = (mMenu = "notifier")
  /\ UNCHANGED <<pulse, phase, mIconWidgets, mCollapsed, mMenu, mMixer, mMixerOpen, slider,
                 columnMax, calls>>

\* removeItem
ItemRemoved ==
  /\ phase = "poll" /\ notifier # "none"
  /\ notifier' = "none" /\ menuPath' = FALSE
  /\ mNeedsRelayout' = TRUE
  /\ UNCHANGED <<pulse, phase, mIconWidgets, mCollapsed, popups, calls>>

\* propertiesReply: a menu may be named, or be said not to be there.
PropertiesReply ==
  /\ phase = "poll" /\ notifier # "none"
  /\ Count
  /\ notifier' \in {"Active", "Passive"} /\ menuPath' \in BOOLEAN
  /\ mNeedsRelayout' \in {mNeedsRelayout \/ notifier' # notifier, TRUE}
  /\ UNCHANGED <<there, requests, inbox, tray, phase, mIconWidgets, mCollapsed, popups, calls>>

\* itemsChanged, if they have.
NoteItems == mNeedsRelayout' = (mNeedsRelayout \/ mItem' # mItem)

SoundNext ==
  /\ phase = "poll"
  /\ \/ (Ready \/ Failed \/ Event \/ ServerInfo \/ DevicesDone) /\ UNCHANGED popups
     \/ RefreshDone /\ UpdateMixer
  /\ NoteItems
  /\ UNCHANGED <<phase, mIconWidgets, mCollapsed, notifier, menuPath, calls>>

Items == (IF mItem = None THEN {} ELSE {"volume"})
           \cup (IF notifier = "none" THEN {} ELSE {"notifier"})

\* The items that relayout makes icons for.
Shown == IF mCollapsed THEN {} ELSE Items \ (IF notifier = "Passive" THEN {"notifier"} ELSE {})

\* relayout: whose popups close first.
Gone(id) == id \notin Items

Relayout ==
  /\ mNeedsRelayout' = FALSE /\ mIconWidgets' = Shown
  /\ IF mMenu # None /\ Gone(mMenu) THEN mMenu' = None /\ TellOfClosing
                                  ELSE UNCHANGED <<mMenu, told, crossed>>
  /\ IF mMixer /\ Gone("volume") THEN CloseMixer
                                 ELSE UNCHANGED <<mMixer, mMixerOpen, slider, columnMax>>

\* The rest of a round: of what there was to read, 64 messages have been at most.
HandleInput ==
  /\ phase = "poll" /\ phase' = "input"
  /\ Reconnect
  /\ IF mNeedsRelayout THEN Relayout ELSE UNCHANGED <<layout, popups>>
  /\ UNCHANGED <<mCollapsed, notifier, menuPath, calls>>

(***************************************************************************)
(* Input.                                                                  *)
(***************************************************************************)
Input == phase = "input"

\* notchMouseUp.
ClickNotch ==
  /\ Input /\ ClosePopups
  /\ mCollapsed' = ~mCollapsed /\ mNeedsRelayout' = TRUE
  /\ UNCHANGED <<pulse, phase, mIconWidgets, notifier, menuPath, calls>>

\* windowMouseUp.
ClickBar ==
  /\ Input /\ ClosePopups
  /\ UNCHANGED <<pulse, phase, layout, notifier, menuPath, calls>>

\* iconMouseUp on the item whose popup is open.
ClickOwner ==
  /\ Input /\ ClosePopups
  /\ \/ mMixer /\ "volume" \in mIconWidgets
     \/ mMenu # None /\ mMenu \in mIconWidgets
  /\ UNCHANGED <<pulse, phase, layout, notifier, menuPath, calls>>

\* iconMouseUp on another, with the button that opens a menu.
ClickNotifier ==
  /\ Input /\ "notifier" \in mIconWidgets /\ mMenu # "notifier"
  /\ ClosePopups
  /\ calls < MaxCalls
  /\ calls' = IF CanTell THEN calls + 1 ELSE calls
  /\ UNCHANGED <<pulse, phase, layout, notifier, menuPath>>

\* The volume's menu: contextMenu.
RightClickVolume ==
  /\ Input /\ "volume" \in mIconWidgets /\ mMenu # "volume" /\ ~mMixer
  /\ DefaultDevice # None
  /\ ListDevices
  /\ ShowMenu("volume")
  /\ TellOfClosing
  /\ UNCHANGED <<there, requests, inbox, mDirection, mReconnect, refreshing, knowledge, mItem,
                 changes, drawn, phase, layout, notifier, menuPath, calls>>

\* The volume's mixer: activate.
LeftClickVolume ==
  /\ Input /\ "volume" \in mIconWidgets /\ mMenu # "volume" /\ ~mMixer
  /\ DefaultDevice # None
  /\ OpenMixer
  /\ UNCHANGED <<pulse, phase, layout, notifier, menuPath, calls>>

\* iconMouseDown with the wheel.
ScrollVolume ==
  /\ Input /\ "volume" \in mIconWidgets
  /\ Count /\ \E up \in BOOLEAN : Scroll(up)
  /\ UNCHANGED <<phase, layout, popups, notifier, menuPath, calls>>

\* sliderChanged: as far as the column was made to go.
DragSlider ==
  /\ Input /\ mMixer
  /\ \E l \in 0 .. columnMax :
       /\ l # slider /\ slider' = l
       /\ Count /\ SetPercent(l)
  /\ UNCHANGED <<phase, layout, mMenu, mMixer, mMixerOpen, columnMax, told, crossed,
                 notifier, menuPath, calls>>

\* menuChosen, of an output: then closeMenu.
ChooseEntry ==
  /\ Input /\ mMenu = "volume" /\ Count
  /\ \E n \in 1 .. Len(mMenuDevices) : ChooseDevice(n)
  /\ ClosePopups
  /\ UNCHANGED <<phase, layout, notifier, menuPath, calls>>

\* The next round.
Poll ==
  /\ Input /\ phase' = "poll"
  /\ UNCHANGED <<pulse, layout, popups, notifier, menuPath, calls>>

LoopNext ==
  \/ LayoutReply \/ LayoutError \/ ItemAdded \/ ItemRemoved \/ PropertiesReply
  \/ SoundNext \/ HandleInput
  \/ ClickNotch \/ ClickBar \/ ClickOwner \/ ClickNotifier \/ RightClickVolume
  \/ LeftClickVolume \/ ScrollVolume \/ DragSlider \/ ChooseEntry \/ Poll

Elsewhere == ServerNext /\ UNCHANGED <<phase, layout, popups, notifier, menuPath, calls>>

Next == LoopNext \/ Elsewhere

Spec == Init /\ [][Next]_vars

(***************************************************************************)
(* Properties.                                                             *)
(***************************************************************************)

\* The sound server and the tray have nothing to say to each other.
Quiet ==
  /\ connection = "up" /\ subscribed /\ ~announce
  /\ requests = <<>> /\ inbox = <<>>

Agrees ==
  /\ mDefaultDevice = server.default /\ mDevices = server.level
  /\ mStreams = {s \in Stream : server.streams[s] # None}
  /\ LET d == ItemOf(server.default, server.level, mStreams)
     IN mItem = IF d = None THEN None ELSE server.level[d]
  /\ mMixer /\ mItem # None => slider = mItem

\* However changes at the server fall between the three replies of a refresh, and whatever
\* the user sets meanwhile, the item and an open mixer's slider end at what the server has.
VolumeFollows == Quiet => Agrees

\* One popup at most; PulseVolume knows whether its mixer is open, which it would otherwise
\* open by itself at the next refresh; a popup does not outlive its item's round (relayout).
OnePopup ==
  /\ mMixerOpen = mMixer
  /\ mMenu = None \/ ~mMixer
  /\ phase = "input" /\ mMenu # None => mMenu \in Items
  /\ phase = "input" /\ mMixer => "volume" \in Items

\* An item's menu is open when its program was last told so, unless replies crossed: a second
\* layout that comes while the menu is open, or one for an item without an icon; or unless a
\* program could not be told: its item is gone, is listed again and has not named its menu,
\* or is of a new program while the old one's menu is open.
ToldAsShown == ((told = "opened") = (mMenu = "notifier")) \/ crossed

\* The user sets the volume of the device whose level the item shows, but during a refresh:
\* the default device and the list are replaced before the item is (serverInfoCallback,
\* devicesDone).
ActsOnShown ==
  [][phase = "input" /\ Len(requests') > Len(requests) /\ Last(requests').kind = "set_volume"
       => Last(requests').device = drawn \/ mRefreshing]_vars

=============================================================================
