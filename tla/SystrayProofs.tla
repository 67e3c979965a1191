--------------------------- MODULE SystrayProofs ---------------------------
(***************************************************************************)
(* What the tray shows and what it acts on, for any devices, any levels,   *)
(* any number of messages between it and the sound server, and however     *)
(* often that goes away: popups are of items there are, a level is set for *)
(* the device it is shown for, and in the end what is shown is what the    *)
(* server has.                                                             *)
(***************************************************************************)
EXTENDS Systray, FiniteSetTheorems, SequenceLemmas, TLAPS

(***************************************************************************)
(* Popups.                                                                 *)
(***************************************************************************)

\* What is shown is of items there are, until something changes while polling.
Fresh == phase = "input" \/ ~mNeedsRelayout

PopupInv ==
  /\ {mMixer, mNeedsRelayout} \subseteq BOOLEAN
  /\ mMixerOpen = mMixer
  /\ mMenu = None \/ ~mMixer
  /\ Fresh => /\ mIconWidgets \subseteq Items
              /\ mMenu # None => mMenu \in Items
              /\ mMixer => "volume" \in Items

ToldInv == ((told = "opened") = (mMenu = "notifier")) \/ crossed

LEMMA PopupInit == Init => PopupInv /\ ToldInv
  BY NoItemOK DEF Init, PulseInit, PopupInv, ToldInv, Fresh, Items

\* What the watcher has to say of the item.
ItemChanges == ItemAdded \/ ItemRemoved \/ PropertiesReply

\* While polling.
LEMMA PollingPopups ==
  ASSUME PopupInv, LayoutReply \/ LayoutError \/ ItemChanges \/ SoundNext
  PROVE  PopupInv'
<1>1. CASE LayoutReply
  BY <1>1 DEF LayoutReply, PopupInv, Fresh, Items, ShowMenu, CloseMixer, popups, layout, pulse
<1>2. CASE LayoutError
  BY <1>2 DEF LayoutError, PopupInv, Fresh, Items, popups, layout, pulse
<1>3. CASE ItemChanges
  <2>1. UNCHANGED <<phase, mIconWidgets, mMenu, mMixer, mMixerOpen>> /\ phase = "poll"
    BY <1>3 DEF ItemChanges, ItemAdded, ItemRemoved, PropertiesReply, popups
  <2>2. mNeedsRelayout' \in BOOLEAN /\ (~mNeedsRelayout' => ~mNeedsRelayout)
    <3>1. \/ mNeedsRelayout' = mNeedsRelayout \/ mNeedsRelayout' = TRUE
          \/ mNeedsRelayout' = (mNeedsRelayout \/ notifier' # notifier)
      BY <1>3 DEF ItemChanges, ItemAdded, ItemRemoved, PropertiesReply
    <3>2. mNeedsRelayout \in BOOLEAN
      BY DEF PopupInv
    <3>3. mNeedsRelayout' \in BOOLEAN
      BY <3>1, <3>2, Zenon
    <3>4. mNeedsRelayout => mNeedsRelayout'
      BY <3>1, <3>2, Zenon
    <3> QED BY <3>3, <3>4
  <2>3. mItem' = mItem /\ (~mNeedsRelayout' => notifier' # "none" \/ notifier = "none")
    BY <1>3 DEF ItemChanges, ItemAdded, ItemRemoved, PropertiesReply, pulse, tray
  <2>4. ~mNeedsRelayout' => Items \subseteq Items'
    BY <2>3 DEF Items
  <2> QED BY <2>1, <2>2, <2>4 DEF PopupInv, Fresh
<1>4. CASE SoundNext
  <2>1. UNCHANGED <<mMenu, mMixer, mMixerOpen>>
    BY <1>4 DEF SoundNext, UpdateMixer, popups
  <2>2. UNCHANGED <<phase, mIconWidgets, notifier>> /\ phase = "poll" /\ NoteItems
    BY <1>4 DEF SoundNext
  <2>3. Fresh' => Fresh /\ Items' = Items
    BY <2>2 DEF NoteItems, Fresh, Items, PopupInv
  <2> QED BY <2>1, <2>2, <2>3 DEF PopupInv, NoteItems
<1> QED BY <1>1, <1>2, <1>3, <1>4

\* Before the user's input.
LEMMA HandleInputPopups == ASSUME PopupInv, HandleInput PROVE PopupInv'
<1>1. UNCHANGED <<mItem, notifier, mCollapsed>> /\ phase' = "input"
  BY DEF HandleInput, Reconnect, pulse
<1>2. Items' = Items /\ Shown \subseteq Items
  BY <1>1 DEF Items, Shown
<1>3. CASE mNeedsRelayout
  <2>1. Relayout
    BY <1>3 DEF HandleInput
  <2>2. mMixerOpen' = mMixer' /\ (mMenu' = None \/ ~mMixer') /\ mMixer' \in BOOLEAN
    BY <2>1 DEF Relayout, CloseMixer, PopupInv
  <2>3. mNeedsRelayout' = FALSE /\ mIconWidgets' \subseteq Items'
    BY <2>1, <1>2 DEF Relayout
  <2>4. (mMenu' # None => mMenu' \in Items') /\ (mMixer' => "volume" \in Items')
    BY <2>1, <1>2 DEF Relayout, CloseMixer, Gone
  <2> QED BY <2>2, <2>3, <2>4 DEF PopupInv
<1>4. CASE ~mNeedsRelayout
  BY <1>4, <1>1, <1>2 DEF HandleInput, layout, popups, PopupInv, Fresh
<1> QED BY <1>3, <1>4

\* The user does not change what items there are.
LEMMA InputKeepsItems ==
  ASSUME \/ ClickNotch \/ ClickBar \/ ClickOwner \/ ClickNotifier \/ RightClickVolume
         \/ LeftClickVolume \/ ScrollVolume \/ DragSlider \/ ChooseEntry \/ Poll \/ Elsewhere
  PROVE  UNCHANGED <<mItem, notifier, mIconWidgets>> /\ Items' = Items
<1>1. UNCHANGED <<mItem, notifier, mIconWidgets>>
  <2>1. CASE ClickNotch \/ ClickBar \/ ClickOwner \/ ClickNotifier \/ Poll
    BY <2>1 DEF ClickNotch, ClickBar, ClickOwner, ClickNotifier, Poll, pulse, layout
  <2>2. CASE RightClickVolume \/ LeftClickVolume
    BY <2>2 DEF RightClickVolume, LeftClickVolume, pulse, layout
  <2>3. CASE ScrollVolume \/ DragSlider \/ ChooseEntry
    BY <2>3 DEF ScrollVolume, DragSlider, ChooseEntry, Scroll, SetPercent, ChooseDevice, layout
  <2>4. CASE Elsewhere
    BY <2>4 DEF Elsewhere, ServerNext, Accept, Serve, Announce, Change, Lose, tray, layout
  <2> QED BY <2>1, <2>2, <2>3, <2>4
<1> QED BY <1>1 DEF Items

LEMMA InputPopups ==
  ASSUME PopupInv,
         \/ ClickNotch \/ ClickBar \/ ClickOwner \/ ClickNotifier \/ RightClickVolume
         \/ LeftClickVolume \/ ScrollVolume \/ DragSlider \/ ChooseEntry \/ Poll \/ Elsewhere
  PROVE  PopupInv'
<1>1. UNCHANGED <<mItem, notifier, mIconWidgets>> /\ Items' = Items
  BY InputKeepsItems
<1>2. CASE ClosePopups /\ Input /\ mNeedsRelayout' \in BOOLEAN
  BY <1>1, <1>2 DEF ClosePopups, CloseMixer, PopupInv, Fresh, Input, layout
<1>3. CASE RightClickVolume
  BY <1>1, <1>3 DEF RightClickVolume, ShowMenu, CloseMixer, PopupInv, Fresh, Input, layout
<1>4. CASE LeftClickVolume
  BY <1>1, <1>4 DEF LeftClickVolume, OpenMixer, PopupInv, Fresh, Input, layout
<1>5. CASE ScrollVolume \/ DragSlider \/ Poll \/ Elsewhere
  <2>1. UNCHANGED <<mMenu, mMixer, mMixerOpen, mNeedsRelayout>> /\ (Fresh' => Fresh)
    BY <1>5 DEF ScrollVolume, DragSlider, Poll, Elsewhere, popups, layout, Input, Fresh
  <2> QED BY <2>1, <1>1 DEF PopupInv
<1>6. CASE ClickNotch \/ ClickBar \/ ClickOwner \/ ClickNotifier \/ ChooseEntry
  BY <1>2, <1>6 DEF ClickNotch, ClickBar, ClickOwner, ClickNotifier, ChooseEntry, layout, PopupInv
<1> QED BY <1>3, <1>4, <1>5, <1>6

LEMMA PopupStep == PopupInv /\ [Next]_vars => PopupInv'
<1> SUFFICES ASSUME PopupInv, [Next]_vars PROVE PopupInv'
  OBVIOUS
<1>1. CASE UNCHANGED vars
  BY <1>1 DEF vars, pulse, layout, popups, PopupInv, Fresh, Items
<1>2. CASE Next
  BY <1>2, PollingPopups, HandleInputPopups, InputPopups DEF Next, LoopNext, ItemChanges
<1> QED BY <1>1, <1>2

LEMMA ToldStep == PopupInv /\ ToldInv /\ [Next]_vars => ToldInv'
<1> SUFFICES ASSUME PopupInv, ToldInv, [Next]_vars PROVE ToldInv'
  OBVIOUS
<1>1. CASE UNCHANGED <<told, mMenu, crossed>>
  BY <1>1 DEF ToldInv
<1>2. CASE LayoutReply
  BY <1>2, NoItemOK DEF LayoutReply, ShowMenu, popups, ToldInv
<1>3. ASSUME TellOfClosing, mMenu' # "notifier" PROVE ToldInv'
  BY <1>3 DEF TellOfClosing, ToldOfClosing, ToldInv
<1>4. CASE ClosePopups \/ RightClickVolume \/ LeftClickVolume
  <2>1. TellOfClosing /\ mMenu' # "notifier"
    BY <1>4, NoItemOK DEF ClosePopups, RightClickVolume, ShowMenu, LeftClickVolume, OpenMixer
  <2> QED BY <2>1, <1>3
<1>5. CASE ItemAdded
  <2>1. CASE UNCHANGED <<told, crossed>>
    BY <1>5, <2>1, <1>1 DEF ItemAdded
  <2>2. CASE told' = "closed" /\ crossed' = (mMenu = "notifier")
    <3>1. told' # "opened" /\ mMenu' = mMenu
      BY <1>5, <2>2 DEF ItemAdded
    <3>2. CASE mMenu = "notifier"
      BY <3>2, <2>2 DEF ToldInv
    <3>3. CASE mMenu # "notifier"
      BY <3>1, <3>3 DEF ToldInv
    <3> QED BY <3>2, <3>3
  <2> QED BY <1>5, <2>1, <2>2 DEF ItemAdded
<1>7. CASE HandleInput
  <2>1. CASE mNeedsRelayout /\ mMenu # None /\ Gone(mMenu)
    BY <1>7, <2>1, <1>3, NoItemOK DEF HandleInput, Relayout
  <2>2. CASE ~(mNeedsRelayout /\ mMenu # None /\ Gone(mMenu))
    BY <1>7, <2>2, <1>1 DEF HandleInput, Relayout, popups
  <2> QED BY <2>1, <2>2
<1>8. CASE UNCHANGED vars
  BY <1>8, <1>1 DEF vars, popups
<1>9. CASE Next
  <2>1. CASE \/ LayoutError \/ ItemRemoved \/ PropertiesReply \/ SoundNext \/ ScrollVolume
             \/ DragSlider \/ Poll \/ Elsewhere
    BY <2>1, <1>1 DEF LayoutError, ItemRemoved, PropertiesReply, SoundNext, UpdateMixer,
                      ScrollVolume, DragSlider, Poll, Elsewhere, popups
  <2>2. CASE ClickNotch \/ ClickBar \/ ClickOwner \/ ClickNotifier \/ ChooseEntry
    BY <2>2, <1>4 DEF ClickNotch, ClickBar, ClickOwner, ClickNotifier, ChooseEntry
  <2> QED BY <1>9, <2>1, <2>2, <1>2, <1>4, <1>5, <1>7 DEF Next, LoopNext
<1> QED BY <1>8, <1>9

LEMMA PopupInvariant == Spec => [](PopupInv /\ ToldInv)
<1>1. Init => PopupInv /\ ToldInv
  BY PopupInit
<1>2. (PopupInv /\ ToldInv) /\ [Next]_vars => (PopupInv /\ ToldInv)'
  BY PopupStep, ToldStep
<1> QED BY <1>1, <1>2, PTL DEF Spec

\* One popup at most, of an item there is, and a mixer that is PulseVolume's too.
THEOREM OnePopupHolds == Spec => []OnePopup
<1>1. PopupInv => OnePopup
  BY DEF PopupInv, OnePopup, Fresh
<1> QED BY <1>1, PopupInvariant, PTL

\* An item's program was last told that its menu is open when it is, unless replies crossed or
\* it could not be told.
THEOREM ToldAsShownHolds == Spec => []ToldAsShown
<1>1. ToldInv => ToldAsShown
  BY DEF ToldInv, ToldAsShown
<1> QED BY <1>1, PopupInvariant, PTL

(***************************************************************************)
(* The refresh.                                                            *)
(***************************************************************************)
Fetch == {"server", "devices", "streams"}

Has(q, kind) == \E i \in 1 .. Len(q) : q[i].kind = kind
Fetching(q) == \E i \in 1 .. Len(q) : q[i].kind \in Fetch
Single(q) == \A i, j \in 1 .. Len(q) : q[i].kind \in Fetch /\ q[j].kind \in Fetch => i = j

Sequences ==
  /\ \E S : requests \in Seq(S)
  /\ \E S : inbox \in Seq(S)
  /\ {mRefreshing, mRefreshAgain, mReconnect, announce, subscribed} \subseteq BOOLEAN

\* At most one of a refresh's requests and replies is under way, and one is when a refresh is.
OneFetch ==
  /\ Single(requests) /\ Single(inbox) /\ ~(Fetching(requests) /\ Fetching(inbox))
  /\ Fetching(requests) \/ Fetching(inbox) => mRefreshing
  /\ connection = "up" /\ mRefreshing => Fetching(requests) \/ Fetching(inbox)
  /\ mRefreshAgain => mRefreshing

Connection ==
  /\ connection \in {"waiting", "up", "lost"}
  /\ connection = "up" => ~Has(inbox, "failed")
  /\ connection # "up" => requests = <<>> /\ ~announce /\ ~subscribed
  /\ connection = "waiting" => inbox = <<>> /\ ~mRefreshing
  /\ connection = "lost" => inbox = IF mReconnect THEN <<>> ELSE <<Message("failed")>>
  /\ mReconnect => connection = "lost"

\* The item is of what is known, but during a refresh.
Drawn ==
  ~mRefreshing \/ mReconnect =>
    /\ drawn = ItemOf(mDefaultDevice, mDevices, mStreams)
    /\ mItem = IF drawn = None THEN None ELSE mDevices[drawn]

NoItem == drawn = None => mItem = None

FetchInv == Sequences /\ OneFetch /\ Connection /\ Drawn /\ NoItem

LEMMA EmptyFacts ==
  /\ ~Fetching(<<>>) /\ Single(<<>>) /\ \A k : ~Has(<<>>, k)
  BY DEF Fetching, Single, Has

LEMMA OneFacts ==
  ASSUME NEW m
  PROVE  /\ Single(<<m>>)
         /\ Fetching(<<m>>) <=> (m.kind \in Fetch)
         /\ \A k : Has(<<m>>, k) <=> (m.kind = k)
<1> DEFINE q == <<m>>
<1>1. 1 .. Len(q) = {1} /\ q[1] = m
  OBVIOUS
<1> HIDE DEF q
<1>2. Single(q)
  BY <1>1 DEF Single
<1>4. Fetching(q) <=> m.kind \in Fetch
  BY <1>1 DEF Fetching
<1>3. ASSUME NEW k PROVE Has(q, k) <=> (m.kind = k)
  BY <1>1 DEF Has
<1> QED BY <1>2, <1>3, <1>4 DEF q, Fetching

\* What is left of a sequence without its first message.
LEMMA RestFacts ==
  ASSUME NEW S, NEW q \in Seq(S), q # <<>>
  PROVE  /\ Tail(q) \in Seq(S) /\ Len(Tail(q)) = Len(q) - 1 /\ Len(q) \in Nat \ {0}
         /\ \A i \in 1 .. Len(Tail(q)) : i + 1 \in 1 .. Len(q) /\ Tail(q)[i] = q[i + 1]
         /\ \A i \in 1 .. Len(q) : i = 1 \/ (i - 1 \in 1 .. Len(Tail(q)) /\ Tail(q)[i - 1] = q[i])
         /\ Fetching(q) <=> (Head(q).kind \in Fetch \/ Fetching(Tail(q)))
         /\ Single(q) => Single(Tail(q)) /\ (Head(q).kind \in Fetch => ~Fetching(Tail(q)))
         /\ \A k : Has(q, k) <=> (Head(q).kind = k \/ Has(Tail(q), k))
<1>1. /\ Tail(q) \in Seq(S) /\ Len(Tail(q)) = Len(q) - 1 /\ Len(q) \in Nat \ {0}
      /\ Head(q) = q[1] /\ \A i \in 1 .. Len(Tail(q)) : Tail(q)[i] = q[i + 1]
  OBVIOUS
<1> DEFINE t == Tail(q)
<1>2. \A i \in 1 .. Len(t) : i + 1 \in 1 .. Len(q) /\ t[i] = q[i + 1]
  BY <1>1
<1>3. \A i \in 1 .. Len(q) : i = 1 \/ (i - 1 \in 1 .. Len(t) /\ t[i - 1] = q[i])
  BY <1>1
<1>4. 1 \in 1 .. Len(q) /\ Head(q) = q[1]
  BY <1>1
<1> HIDE DEF t
<1>5. Fetching(q) <=> (Head(q).kind \in Fetch \/ Fetching(t))
  <2>1. ASSUME Fetching(q) PROVE Head(q).kind \in Fetch \/ Fetching(t)
    BY <2>1, <1>3, <1>4 DEF Fetching
  <2>2. ASSUME Head(q).kind \in Fetch \/ Fetching(t) PROVE Fetching(q)
    BY <2>2, <1>2, <1>4 DEF Fetching
  <2> QED BY <2>1, <2>2 DEF Fetching
<1>6. ASSUME Single(q) PROVE Single(t) /\ (Head(q).kind \in Fetch => ~Fetching(t))
  <2>1. Single(t)
    <3> SUFFICES ASSUME NEW i \in 1 .. Len(t), NEW j \in 1 .. Len(t),
                        t[i].kind \in Fetch, t[j].kind \in Fetch
                 PROVE  i = j
      BY DEF Single
    <3>1. i + 1 = j + 1
      BY <1>2, <1>6 DEF Single
    <3> QED BY <3>1
  <2>2. ASSUME Head(q).kind \in Fetch, NEW i \in 1 .. Len(t), t[i].kind \in Fetch PROVE FALSE
    <3>1. i + 1 = 1
      BY <2>2, <1>2, <1>4, <1>6 DEF Single
    <3> QED BY <3>1
  <2> QED BY <2>1, <2>2 DEF Fetching
<1>7. ASSUME NEW k PROVE Has(q, k) <=> (Head(q).kind = k \/ Has(t, k))
  <2>1. ASSUME Has(q, k) PROVE Head(q).kind = k \/ Has(t, k)
    BY <2>1, <1>3, <1>4 DEF Has
  <2>2. ASSUME Head(q).kind = k \/ Has(t, k) PROVE Has(q, k)
    BY <2>2, <1>2, <1>4 DEF Has
  <2> QED BY <2>1, <2>2 DEF Has
<1> QED BY <1>1, <1>2, <1>3, <1>5, <1>6, <1>7 DEF t

\* A sequence followed by another.
LEMMA JoinedFacts ==
  ASSUME NEW S, NEW T, NEW q \in Seq(S), NEW ms \in Seq(T)
  PROVE  /\ \E U : q \o ms \in Seq(U)
         /\ Len(q) \in Nat /\ Len(ms) \in Nat /\ Len(q \o ms) = Len(q) + Len(ms)
         /\ \A i \in 1 .. Len(q) : i \in 1 .. Len(q \o ms) /\ (q \o ms)[i] = q[i]
         /\ \A i \in 1 .. Len(ms) :
              Len(q) + i \in 1 .. Len(q \o ms) /\ (q \o ms)[Len(q) + i] = ms[i]
         /\ \A i \in 1 .. Len(q \o ms) : \/ i \in 1 .. Len(q) /\ (q \o ms)[i] = q[i]
                                         \/ i - Len(q) \in 1 .. Len(ms) /\ (q \o ms)[i] = ms[i - Len(q)]
         /\ Fetching(q \o ms) <=> (Fetching(q) \/ Fetching(ms))
         /\ Single(q) /\ Single(ms) /\ ~(Fetching(q) /\ Fetching(ms)) => Single(q \o ms)
         /\ \A k : Has(q \o ms, k) <=> (Has(q, k) \/ Has(ms, k))
<1> DEFINE r == q \o ms
<1>0. q \in Seq(S \cup T) /\ ms \in Seq(S \cup T)
  OBVIOUS
<1>1. /\ r \in Seq(S \cup T) /\ Len(q) \in Nat /\ Len(ms) \in Nat /\ Len(r) = Len(q) + Len(ms)
      /\ \A i \in 1 .. Len(r) : r[i] = IF i <= Len(q) THEN q[i] ELSE ms[i - Len(q)]
  BY <1>0
<1> HIDE DEF r
<1>2. \A i \in 1 .. Len(q) : i \in 1 .. Len(r) /\ r[i] = q[i]
  BY <1>1
<1>3. ASSUME NEW i \in 1 .. Len(ms) PROVE Len(q) + i \in 1 .. Len(r) /\ r[Len(q) + i] = ms[i]
  <2>1. Len(q) + i \in 1 .. Len(r) /\ ~(Len(q) + i <= Len(q)) /\ (Len(q) + i) - Len(q) = i
    BY <1>1
  <2> QED BY <2>1, <1>1
<1>4. \A i \in 1 .. Len(r) : \/ i \in 1 .. Len(q) /\ r[i] = q[i]
                             \/ i - Len(q) \in 1 .. Len(ms) /\ r[i] = ms[i - Len(q)]
  BY <1>1
<1>5. Fetching(r) <=> (Fetching(q) \/ Fetching(ms))
  BY <1>2, <1>3, <1>4 DEF Fetching
<1>6. ASSUME Single(q), Single(ms), ~(Fetching(q) /\ Fetching(ms)) PROVE Single(r)
  <2> SUFFICES ASSUME NEW i \in 1 .. Len(r), NEW j \in 1 .. Len(r),
                      r[i].kind \in Fetch, r[j].kind \in Fetch
               PROVE  i = j
    BY DEF Single
  <2>1. CASE i \in 1 .. Len(q) /\ r[i] = q[i] /\ j \in 1 .. Len(q) /\ r[j] = q[j]
    BY <2>1, <1>6 DEF Single
  <2>2. CASE /\ i - Len(q) \in 1 .. Len(ms) /\ r[i] = ms[i - Len(q)]
             /\ j - Len(q) \in 1 .. Len(ms) /\ r[j] = ms[j - Len(q)]
    <3>1. i - Len(q) = j - Len(q)
      BY <2>2, <1>6 DEF Single
    <3> QED BY <3>1, <1>1
  <2> QED BY <2>1, <2>2, <1>4, <1>6 DEF Fetching
<1>7. ASSUME NEW k PROVE Has(r, k) <=> (Has(q, k) \/ Has(ms, k))
  <2>1. ASSUME Has(r, k) PROVE Has(q, k) \/ Has(ms, k)
    BY <2>1, <1>4 DEF Has
  <2>2. ASSUME Has(q, k) \/ Has(ms, k) PROVE Has(r, k)
    BY <2>2, <1>2, <1>3 DEF Has
  <2> QED BY <2>1, <2>2 DEF Has
<1> QED BY <1>1, <1>2, <1>3, <1>4, <1>5, <1>6, <1>7 DEF r

\* What a message read leaves.
LEMMA ReadsFacts ==
  ASSUME FetchInv, NEW kind, Reads(kind)
  PROVE  /\ \E S : inbox' \in Seq(S)
         /\ inbox # <<>> /\ inbox' = Tail(inbox) /\ Head(inbox).kind = kind /\ Len(inbox) \in Nat \ {0}
         /\ 1 \in 1 .. Len(inbox) /\ Head(inbox) = inbox[1]
         /\ \A i \in 1 .. Len(inbox') : i + 1 \in 1 .. Len(inbox) /\ inbox'[i] = inbox[i + 1]
         /\ Single(inbox')
         /\ Fetching(inbox) <=> (kind \in Fetch \/ Fetching(inbox'))
         /\ kind \in Fetch => ~Fetching(inbox')
         /\ \A k : Has(inbox, k) <=> (kind = k \/ Has(inbox', k))
         /\ kind # "failed" => connection = "up"
<1>1. PICK S : inbox \in Seq(S)
  BY DEF FetchInv, Sequences
<1>2. inbox # <<>> /\ inbox' = Tail(inbox) /\ Head(inbox).kind = kind
  BY DEF Reads
<1>3. Single(inbox)
  BY DEF FetchInv, OneFetch
<1>4. kind # "failed" => connection = "up"
  <2> SUFFICES ASSUME kind # "failed", connection # "up" PROVE FALSE
    OBVIOUS
  <2>1. inbox = <<Message("failed")>>
    BY <1>2 DEF FetchInv, Connection
  <2> QED BY <2>1, <1>2 DEF Message
<1> QED BY <1>1, <1>2, <1>3, <1>4, RestFacts

\* What asking for things comes to.
LEMMA AsksFacts ==
  ASSUME Sequences
  PROVE  /\ Asks(<<>>) => requests' = requests
         /\ \A k \in Fetch \cup {"subscribe"} : Asks(<<k>>) => Sends(<<Message(k)>>)
         /\ Asks(<<"subscribe", "server">>) =>
              Sends(<<Message("subscribe"), Message("server")>>)
<1>1. PICK S : requests \in Seq(S)
  BY DEF Sequences
<1>2. ASSUME Asks(<<>>) PROVE requests' = requests
  <2> DEFINE ms == [n \in 1 .. Len(<<>>) |-> Message(<<>>[n])]
  <2>1. ms = <<>>
    OBVIOUS
  <2>2. requests \o <<>> = requests
    BY <1>1
  <2> QED BY <2>1, <2>2, <1>2 DEF Asks, Sends
<1>3. ASSUME NEW k \in Fetch \cup {"subscribe"}, Asks(<<k>>) PROVE Sends(<<Message(k)>>)
  <2>1. [n \in 1 .. Len(<<"subscribe">>) |-> Message(<<"subscribe">>[n])] = <<Message("subscribe")>>
    OBVIOUS
  <2>2. [n \in 1 .. Len(<<"server">>) |-> Message(<<"server">>[n])] = <<Message("server")>>
    OBVIOUS
  <2>3. [n \in 1 .. Len(<<"devices">>) |-> Message(<<"devices">>[n])] = <<Message("devices")>>
    OBVIOUS
  <2>4. [n \in 1 .. Len(<<"streams">>) |-> Message(<<"streams">>[n])] = <<Message("streams")>>
    OBVIOUS
  <2> QED BY <2>1, <2>2, <2>3, <2>4, <1>3 DEF Asks, Fetch
<1>4. ASSUME Asks(<<"subscribe", "server">>)
      PROVE  Sends(<<Message("subscribe"), Message("server")>>)
  <2> DEFINE kinds == <<"subscribe", "server">>
  <2>1. [n \in 1 .. Len(kinds) |-> Message(kinds[n])] = <<Message("subscribe"), Message("server")>>
    OBVIOUS
  <2> QED BY <2>1, <1>4 DEF Asks
<1> QED BY <1>2, <1>3, <1>4

\* What sending a message does.
LEMMA SendsFacts ==
  ASSUME Sequences, connection = "up", NEW m, Sends(<<m>>)
  PROVE  /\ \E S : requests' \in Seq(S)
         /\ Len(requests) \in Nat /\ Len(requests') = Len(requests) + 1
         /\ requests'[Len(requests')] = m
         /\ \A i \in 1 .. Len(requests) : i \in 1 .. Len(requests') /\ requests'[i] = requests[i]
         /\ \A i \in 1 .. Len(requests') : i \in 1 .. Len(requests) \/ requests'[i] = m
         /\ Fetching(requests') <=> (Fetching(requests) \/ m.kind \in Fetch)
         /\ Single(requests) /\ ~(Fetching(requests) /\ m.kind \in Fetch) => Single(requests')
         /\ \A k : Has(requests', k) <=> (Has(requests, k) \/ m.kind = k)
<1>1. PICK S : requests \in Seq(S)
  BY DEF Sequences
<1>2. requests' = requests \o <<m>>
  BY DEF Sends
<1>3. <<m>> \in Seq({m}) /\ Len(<<m>>) = 1 /\ <<m>>[1] = m
  OBVIOUS
<1> DEFINE ms == <<m>>
<1>4. /\ Single(ms)
      /\ Fetching(ms) <=> (m.kind \in Fetch)
      /\ \A k : Has(ms, k) <=> (m.kind = k)
  BY OneFacts
<1>5. ms \in Seq({m}) /\ Len(ms) = 1 /\ ms[1] = m /\ requests' = requests \o ms
  BY <1>2, <1>3
<1> HIDE DEF ms
<1>6. /\ \E U : requests' \in Seq(U)
      /\ Len(requests) \in Nat /\ Len(requests') = Len(requests) + 1
      /\ \A i \in 1 .. Len(requests) : i \in 1 .. Len(requests') /\ requests'[i] = requests[i]
      /\ \A i \in 1 .. Len(ms) : requests'[Len(requests) + i] = ms[i]
      /\ \A i \in 1 .. Len(requests') :
           i \in 1 .. Len(requests) \/ i - Len(requests) \in 1 .. Len(ms)
      /\ Fetching(requests') <=> (Fetching(requests) \/ Fetching(ms))
      /\ Single(requests) /\ ~(Fetching(requests) /\ Fetching(ms)) => Single(requests')
      /\ \A k : Has(requests', k) <=> (Has(requests, k) \/ Has(ms, k))
  <2>1. requests \in Seq(S) /\ ms \in Seq({m})
    BY <1>1, <1>5
  <2> DEFINE r == requests \o ms
  <2>2. /\ \E U : r \in Seq(U)
        /\ Len(requests) \in Nat /\ Len(ms) \in Nat /\ Len(r) = Len(requests) + Len(ms)
        /\ \A i \in 1 .. Len(requests) : i \in 1 .. Len(r) /\ r[i] = requests[i]
        /\ \A i \in 1 .. Len(ms) : r[Len(requests) + i] = ms[i]
        /\ \A i \in 1 .. Len(r) :
             i \in 1 .. Len(requests) \/ i - Len(requests) \in 1 .. Len(ms)
        /\ Fetching(r) <=> (Fetching(requests) \/ Fetching(ms))
        /\ Single(requests) /\ Single(ms) /\ ~(Fetching(requests) /\ Fetching(ms)) => Single(r)
        /\ \A k : Has(r, k) <=> (Has(requests, k) \/ Has(ms, k))
    BY <2>1, JoinedFacts
  <2>3. requests' = r
    BY <1>5
  <2> HIDE DEF r
  <2> QED BY <2>2, <2>3, <1>4, <1>5
<1>7. requests'[Len(requests')] = m
  BY <1>6, <1>5
<1>8. ASSUME NEW i \in 1 .. Len(requests') PROVE i \in 1 .. Len(requests) \/ requests'[i] = m
  <2>1. i \in 1 .. Len(requests) \/ i = Len(requests')
    BY <1>6, <1>5
  <2> QED BY <2>1, <1>7
<1> QED BY <1>4, <1>6, <1>7, <1>8

\* What asking for another refresh does.
LEMMA RefreshFacts ==
  ASSUME Sequences, connection = "up", NEW others \in {<<>>, <<"subscribe">>}, Refresh(others)
  PROVE  /\ \/ /\ mRefreshing /\ mRefreshing' = mRefreshing /\ mRefreshAgain' = TRUE
               /\ others = <<>> => requests' = requests
               /\ others = <<"subscribe">> => Sends(<<Message("subscribe")>>)
            \/ /\ ~mRefreshing /\ mRefreshing' = TRUE /\ mRefreshAgain' = FALSE
               /\ others = <<>> => Sends(<<Message("server")>>)
               /\ others = <<"subscribe">> =>
                    Sends(<<Message("subscribe"), Message("server")>>)
<1>1. <<>> \o <<"server">> = <<"server">>
  <2>1. <<"server">> \in Seq({"subscribe", "server"})
    OBVIOUS
  <2> QED BY <2>1, ConcatEmptySeq
<1>4. <<"subscribe">> \o <<"server">> = <<"subscribe", "server">>
  <2> DEFINE a == <<"subscribe">>
             b == <<"server">>
             c == <<"subscribe", "server">>
             T == {"subscribe", "server"}
  <2>1. /\ a \in Seq(T) /\ Len(a) = 1 /\ a[1] = "subscribe"
        /\ b \in Seq(T) /\ Len(b) = 1 /\ b[1] = "server"
        /\ c \in Seq(T) /\ Len(c) = 2 /\ c[1] = "subscribe" /\ c[2] = "server"
    OBVIOUS
  <2> HIDE DEF a, b, c, T
  <2>2. /\ a \o b \in Seq(T) /\ Len(a \o b) = 2
        /\ (a \o b)[1] = "subscribe" /\ (a \o b)[2] = "server"
    BY <2>1, ConcatProperties
  <2>3. \A i \in 1 .. Len(a \o b) : (a \o b)[i] = c[i]
    <3>1. \A i \in 1 .. Len(a \o b) : i = 1 \/ i = 2
      BY <2>2
    <3> QED BY <3>1, <2>1, <2>2
  <2>4. a \o b = c
    BY <2>1, <2>2, <2>3, SeqEqual
  <2> QED BY <2>4 DEF a, b, c
<1>2. CASE mRefreshing
  BY <1>2, AsksFacts DEF Refresh, Fetch
<1>3. CASE ~mRefreshing
  <2>1. mRefreshing' = TRUE /\ mRefreshAgain' = FALSE /\ Asks(others \o <<"server">>)
    BY <1>3 DEF Refresh
  <2>2. CASE others = <<>>
    BY <2>1, <2>2, <1>1, <1>3, AsksFacts DEF Fetch
  <2>3. CASE others = <<"subscribe">>
    BY <2>1, <2>3, <1>4, <1>3, AsksFacts DEF Fetch
  <2> QED BY <2>2, <2>3
<1> QED BY <1>2, <1>3

\* What sending two messages does, of which the second is of a refresh.
LEMMA SendsBothFacts ==
  ASSUME Sequences, connection = "up",
         Sends(<<Message("subscribe"), Message("server")>>)
  PROVE  /\ \E S : requests' \in Seq(S)
         /\ Len(requests) \in Nat /\ Len(requests') = Len(requests) + 2
         /\ requests'[Len(requests) + 1] = Message("subscribe")
         /\ requests'[Len(requests) + 2] = Message("server")
         /\ \A i \in 1 .. Len(requests) : i \in 1 .. Len(requests') /\ requests'[i] = requests[i]
         /\ \A i \in 1 .. Len(requests') :
              i \in 1 .. Len(requests) \/ requests'[i] \in {Message("subscribe"), Message("server")}
         /\ Fetching(requests')
         /\ Single(requests) /\ ~Fetching(requests) => Single(requests')
         /\ Has(requests', "server")
         /\ \A k \in {"devices", "streams"} : Has(requests', k) <=> Has(requests, k)
<1>1. PICK S : requests \in Seq(S)
  BY DEF Sequences
<1> DEFINE a == Message("subscribe")
           b == Message("server")
           ms == <<a, b>>
<1>2. requests' = requests \o ms
  BY DEF Sends
<1>3. a.kind = "subscribe" /\ b.kind = "server"
  BY DEF Message
<1> HIDE DEF a, b
<1>4. ms \in Seq({a, b}) /\ Len(ms) = 2 /\ ms[1] = a /\ ms[2] = b
  OBVIOUS
<1> DEFINE T == {a, b}
<1>10. ms \in Seq(T)
  BY <1>4
<1> HIDE DEF ms, T
<1>5. Fetching(ms) /\ Single(ms) /\ Has(ms, "server") /\ ~Has(ms, "devices") /\ ~Has(ms, "streams")
  <2>1. \A i \in 1 .. Len(ms) : i = 1 \/ i = 2
    BY <1>4
  <2>2. 1 \in 1 .. Len(ms) /\ 2 \in 1 .. Len(ms)
    BY <1>4
  <2>3. Single(ms)
    BY <2>1, <1>3, <1>4 DEF Single, Fetch
  <2> QED BY <2>1, <2>2, <2>3, <1>3, <1>4 DEF Fetching, Has, Fetch
<1> DEFINE r == requests \o ms
<1>6. /\ \E U : r \in Seq(U)
      /\ Len(requests) \in Nat /\ Len(ms) \in Nat /\ Len(r) = Len(requests) + Len(ms)
      /\ \A i \in 1 .. Len(requests) : i \in 1 .. Len(r) /\ r[i] = requests[i]
      /\ \A i \in 1 .. Len(ms) : r[Len(requests) + i] = ms[i]
      /\ \A i \in 1 .. Len(r) :
           i \in 1 .. Len(requests) \/ i - Len(requests) \in 1 .. Len(ms)
      /\ Fetching(r) <=> (Fetching(requests) \/ Fetching(ms))
      /\ Single(requests) /\ Single(ms) /\ ~(Fetching(requests) /\ Fetching(ms)) => Single(r)
      /\ \A k : Has(r, k) <=> (Has(requests, k) \/ Has(ms, k))
  <2> HIDE DEF r
  <2>1. ASSUME NEW q, q = requests \o ms
        PROVE  /\ \E U : q \in Seq(U)
               /\ Len(requests) \in Nat /\ Len(ms) \in Nat /\ Len(q) = Len(requests) + Len(ms)
               /\ \A i \in 1 .. Len(requests) : i \in 1 .. Len(q) /\ q[i] = requests[i]
               /\ \A i \in 1 .. Len(ms) : q[Len(requests) + i] = ms[i]
               /\ \A i \in 1 .. Len(q) :
                    i \in 1 .. Len(requests) \/ i - Len(requests) \in 1 .. Len(ms)
               /\ Fetching(q) <=> (Fetching(requests) \/ Fetching(ms))
               /\ Single(requests) /\ Single(ms) /\ ~(Fetching(requests) /\ Fetching(ms)) => Single(q)
               /\ \A k : Has(q, k) <=> (Has(requests, k) \/ Has(ms, k))
    BY <2>1, <1>1, <1>10, JoinedFacts
  <2> QED BY <2>1 DEF r
<1> HIDE DEF r
<1>7. r[Len(requests) + 1] = a /\ r[Len(requests) + 2] = b
  BY <1>6, <1>4
<1>8. ASSUME NEW i \in 1 .. Len(r) PROVE i \in 1 .. Len(requests) \/ r[i] \in {a, b}
  <2>1. i \in 1 .. Len(requests) \/ i = Len(requests) + 1 \/ i = Len(requests) + 2
    BY <1>6, <1>4
  <2> QED BY <2>1, <1>7
<1>9. requests' = r
  BY <1>2 DEF r
<1> QED BY <1>4, <1>5, <1>6, <1>7, <1>8, <1>9 DEF a, b

LEMMA FetchInit == Init => FetchInv
<1> SUFFICES ASSUME Init PROVE FetchInv
  OBVIOUS
<1>1. requests \in Seq({}) /\ inbox \in Seq({})
  BY DEF Init, PulseInit
<1>2. DefaultOf(None, Nothing) = None
  <2>1. Present(Nothing) = {}
    BY DEF Present, Nothing
  <2> QED BY <2>1 DEF DefaultOf
<1>3. Drawn /\ NoItem
  BY <1>2 DEF Init, PulseInit, Drawn, NoItem, ItemOf
<1>4. OneFetch /\ Connection
  BY EmptyFacts DEF Init, PulseInit, OneFetch, Connection
<1>5. Sequences
  BY <1>1 DEF Init, PulseInit, Sequences
<1> QED BY <1>3, <1>4, <1>5 DEF FetchInv

\* A state in which only requests and replies come and go, on a connection.
LEMMA StillUp ==
  ASSUME FetchInv, connection = "up", connection' = "up", UNCHANGED mReconnect,
         Has(inbox, "failed") \/ ~Has(inbox', "failed")
  PROVE  Connection' /\ ~mReconnect /\ ~mReconnect'
  BY DEF FetchInv, Connection

LEMMA UnchangedDrawn ==
  ASSUME FetchInv, UNCHANGED <<knowledge, mDirection, mItem, drawn>>,
         ~mRefreshing' \/ mReconnect' => ~mRefreshing \/ mReconnect
  PROVE  Drawn' /\ NoItem'
  BY DEF FetchInv, Drawn, NoItem, ItemOf, knowledge

LEMMA RefreshingFetch ==
  ASSUME FetchInv, Ready \/ Event
  PROVE  FetchInv'
<1>1. PICK kind \in {"ready", "event"} :
        /\ Reads(kind)
        /\ kind = "ready" => Refresh(<<"subscribe">>)
        /\ kind = "event" => Refresh(<<>>)
        /\ UNCHANGED <<there, mReconnect, mDirection, knowledge, mItem, drawn>>
  BY DEF Ready, Event
<1>2. /\ Sequences /\ OneFetch /\ connection = "up" /\ connection' = "up" /\ kind \notin Fetch
      /\ UNCHANGED <<announce, subscribed>>
  BY <1>1, ReadsFacts DEF FetchInv, there, Fetch
<1>3. /\ \E S : inbox' \in Seq(S)
      /\ Single(inbox')
      /\ Fetching(inbox) <=> Fetching(inbox')
      /\ Has(inbox, "failed") <=> Has(inbox', "failed")
  BY <1>1, <1>2, ReadsFacts
<1>4. Connection' /\ ~mReconnect /\ ~mReconnect'
  BY <1>1, <1>2, <1>3, StillUp
<1>5. PICK others \in {<<>>, <<"subscribe">>} : Refresh(others)
  BY <1>1
<1> DEFINE sub == Message("subscribe")
           ser == Message("server")
<1>6. sub.kind \notin Fetch /\ ser.kind \in Fetch
  BY DEF Message, Fetch
<1>7. \/ /\ mRefreshing /\ mRefreshing' = mRefreshing /\ mRefreshAgain' = TRUE
         /\ requests' = requests \/ Sends(<<sub>>)
      \/ /\ ~mRefreshing /\ mRefreshing' = TRUE /\ mRefreshAgain' = FALSE
         /\ Sends(<<ser>>) \/ Sends(<<sub, ser>>)
  BY <1>2, <1>5, RefreshFacts
<1>8. Drawn' /\ NoItem'
  BY <1>1, <1>4, <1>7, UnchangedDrawn
<1> HIDE DEF sub, ser
<1>9. CASE /\ mRefreshing /\ mRefreshing' = mRefreshing /\ mRefreshAgain' = TRUE
           /\ requests' = requests \/ Sends(<<sub>>)
  <2>1. (\E S : requests' \in Seq(S)) /\ Single(requests') /\ (Fetching(requests') <=> Fetching(requests))
    <3>1. CASE requests' = requests
      BY <3>1, <1>2 DEF Sequences, OneFetch
    <3>2. CASE Sends(<<sub>>)
      BY <3>2, <1>2, <1>6, SendsFacts DEF OneFetch
    <3> QED BY <3>1, <3>2, <1>9
  <2>2. OneFetch'
    BY <2>1, <1>2, <1>3, <1>9 DEF OneFetch
  <2>3. Sequences'
    BY <2>1, <1>2, <1>3, <1>4, <1>9, <1>1 DEF Sequences
  <2> QED BY <2>2, <2>3, <1>4, <1>8 DEF FetchInv
<1>10. CASE /\ ~mRefreshing /\ mRefreshing' = TRUE /\ mRefreshAgain' = FALSE
            /\ Sends(<<ser>>) \/ Sends(<<sub, ser>>)
  <2>0. ~Fetching(requests) /\ ~Fetching(inbox)
    BY <1>2, <1>10 DEF OneFetch
  <2>1. (\E S : requests' \in Seq(S)) /\ Single(requests') /\ Fetching(requests')
    <3>1. CASE Sends(<<ser>>)
      BY <3>1, <2>0, <1>2, <1>6, SendsFacts DEF OneFetch
    <3>2. CASE Sends(<<sub, ser>>)
      BY <3>2, <2>0, <1>2, SendsBothFacts DEF OneFetch, sub, ser
    <3> QED BY <3>1, <3>2, <1>10
  <2>2. OneFetch'
    BY <2>0, <2>1, <1>2, <1>3, <1>10 DEF OneFetch
  <2>3. Sequences'
    BY <2>1, <1>2, <1>3, <1>4, <1>10, <1>1 DEF Sequences
  <2> QED BY <2>2, <2>3, <1>4, <1>8 DEF FetchInv
<1> QED BY <1>7, <1>9, <1>10

\* The replies of a refresh but the last.
LEMMA ReplyFetch ==
  ASSUME FetchInv, ServerInfo \/ DevicesDone
  PROVE  FetchInv'
<1>1. PICK kind \in {"server", "devices"}, next \in {"devices", "streams"} :
        /\ Reads(kind) /\ Asks(<<next>>)
        /\ UNCHANGED <<there, refreshing, mReconnect, mDirection, mItem, drawn>>
  BY DEF ServerInfo, DevicesDone
<1>2. /\ Sequences /\ OneFetch /\ connection = "up" /\ connection' = "up"
      /\ kind \in Fetch /\ Message(next).kind \in Fetch
      /\ UNCHANGED <<announce, subscribed, mRefreshing, mRefreshAgain, mReconnect>>
  BY <1>1, ReadsFacts DEF FetchInv, there, refreshing, Fetch, Message
<1>3. /\ \E S : inbox' \in Seq(S)
      /\ Single(inbox') /\ Fetching(inbox) /\ ~Fetching(inbox')
      /\ Has(inbox, "failed") \/ ~Has(inbox', "failed")
  BY <1>1, <1>2, ReadsFacts
<1>4. Connection' /\ ~mReconnect /\ ~mReconnect'
  BY <1>1, <1>2, <1>3, StillUp
<1>5. Sends(<<Message(next)>>)
  BY <1>1, <1>2, AsksFacts DEF Fetch
<1>6. mRefreshing /\ ~Fetching(requests) /\ Single(requests)
  BY <1>2, <1>3 DEF OneFetch
<1>7. (\E S : requests' \in Seq(S)) /\ Single(requests') /\ Fetching(requests')
  BY <1>2, <1>5, <1>6, SendsFacts
<1>8. OneFetch'
  BY <1>2, <1>3, <1>6, <1>7 DEF OneFetch
<1>9. Drawn' /\ NoItem'
  BY <1>1, <1>2, <1>4, <1>6 DEF FetchInv, Drawn, NoItem
<1>10. Sequences'
  BY <1>2, <1>3, <1>7 DEF Sequences
<1> QED BY <1>4, <1>8, <1>9, <1>10 DEF FetchInv

LEMMA UpdateFacts ==
  ASSUME Update, UNCHANGED mDirection
  PROVE  Drawn' /\ NoItem'
  BY DEF Update, Drawn, NoItem, ItemOf

LEMMA RefreshDoneFetch == ASSUME FetchInv, RefreshDone PROVE FetchInv'
<1>1. /\ Reads("streams") /\ Update
      /\ mRefreshing' = mRefreshAgain /\ mRefreshAgain' = FALSE
      /\ Asks(IF mRefreshAgain THEN <<"server">> ELSE <<>>)
      /\ UNCHANGED <<there, mReconnect, mDirection>>
  BY DEF RefreshDone
<1>2. /\ Sequences /\ OneFetch /\ connection = "up" /\ connection' = "up"
      /\ Message("server").kind \in Fetch
      /\ UNCHANGED <<announce, subscribed, mReconnect>>
  BY <1>1, ReadsFacts DEF FetchInv, there, Fetch, Message
<1>3. /\ \E S : inbox' \in Seq(S)
      /\ Single(inbox') /\ Fetching(inbox) /\ ~Fetching(inbox')
      /\ Has(inbox, "failed") \/ ~Has(inbox', "failed")
  BY <1>1, ReadsFacts DEF Fetch
<1>4. Connection'
  BY <1>1, <1>2, <1>3, StillUp
<1>5. ~Fetching(requests) /\ Single(requests)
  BY <1>2, <1>3 DEF OneFetch
<1>6. /\ \E S : requests' \in Seq(S)
      /\ Single(requests')
      /\ Fetching(requests') <=> mRefreshAgain
  <2>1. CASE mRefreshAgain
    <3>1. Sends(<<Message("server")>>)
      BY <2>1, <1>1, <1>2, AsksFacts DEF Fetch
    <3> QED BY <2>1, <3>1, <1>2, <1>5, SendsFacts
  <2>2. CASE ~mRefreshAgain
    <3>1. requests' = requests
      BY <2>2, <1>1, <1>2, AsksFacts
    <3> QED BY <2>2, <3>1, <1>2, <1>5 DEF Sequences
  <2> QED BY <2>1, <2>2
<1>7. OneFetch'
  BY <1>1, <1>3, <1>6 DEF OneFetch
<1>8. Sequences'
  BY <1>1, <1>2, <1>3, <1>6 DEF Sequences
<1>9. Drawn' /\ NoItem'
  BY <1>1, UpdateFacts
<1> QED BY <1>4, <1>7, <1>8, <1>9 DEF FetchInv

LEMMA FailedFetch == ASSUME FetchInv, Failed PROVE FetchInv'
<1>1. /\ Reads("failed") /\ Update /\ mReconnect' = TRUE
      /\ UNCHANGED <<there, requests, mDirection, refreshing>>
  BY DEF Failed
<1>2. connection = "lost" /\ inbox = <<Message("failed")>>
  <2>1. Has(inbox, "failed") /\ inbox # <<>>
    BY <1>1, ReadsFacts
  <2>2. connection # "up" /\ connection # "waiting"
    BY <2>1 DEF FetchInv, Connection
  <2> QED BY <2>1, <2>2 DEF FetchInv, Connection
<1>3. inbox' = <<>>
  BY <1>1, <1>2 DEF Reads
<1>4. /\ connection' = "lost" /\ mReconnect' = TRUE /\ requests' = <<>>
      /\ UNCHANGED <<announce, subscribed, mRefreshing, mRefreshAgain>>
      /\ requests = <<>> /\ ~announce /\ ~subscribed
  BY <1>1, <1>2 DEF FetchInv, Connection, there, refreshing
<1>5. Connection'
  BY <1>3, <1>4 DEF Connection
<1>6. OneFetch'
  BY <1>3, <1>4, EmptyFacts DEF FetchInv, OneFetch
<1>7. Sequences'
  <2>1. <<>> \in Seq({})
    OBVIOUS
  <2> QED BY <2>1, <1>3, <1>4 DEF FetchInv, Sequences
<1>8. Drawn' /\ NoItem'
  BY <1>1, UpdateFacts
<1> QED BY <1>5, <1>6, <1>7, <1>8 DEF FetchInv

LEMMA ReconnectFetch == ASSUME FetchInv, Reconnect, mReconnect PROVE FetchInv'
<1>1. /\ mReconnect' = FALSE /\ mRefreshing' = FALSE /\ mRefreshAgain' = FALSE
      /\ connection' = "waiting"
      /\ UNCHANGED <<subscribed, announce, requests, inbox, mDirection, knowledge, mItem, drawn>>
  BY DEF Reconnect
<1>2. connection = "lost" /\ inbox = <<>> /\ requests = <<>> /\ ~announce /\ ~subscribed
  BY DEF FetchInv, Connection
<1>3. OneFetch'
  BY <1>1, <1>2, EmptyFacts DEF OneFetch
<1>4. Connection'
  BY <1>1, <1>2 DEF Connection
<1>5. Drawn' /\ NoItem'
  BY <1>1, UnchangedDrawn
<1>6. Sequences'
  BY <1>1 DEF FetchInv, Sequences
<1> QED BY <1>3, <1>4, <1>5, <1>6 DEF FetchInv

\* Nothing that the refresh is about.
LEMMA UntouchedFetch ==
  ASSUME FetchInv,
         UNCHANGED <<connection, subscribed, announce, requests, inbox, mDirection, mReconnect,
                     refreshing, knowledge, mItem, drawn>>
  PROVE  FetchInv'
<1>1. Drawn' /\ NoItem'
  BY UnchangedDrawn DEF refreshing
<1>2. OneFetch' /\ Connection' /\ Sequences'
  BY DEF FetchInv, OneFetch, Connection, Sequences, refreshing
<1> QED BY <1>1, <1>2 DEF FetchInv

\* What the user sets is no part of a refresh.
LEMMA SetsFetch ==
  ASSUME FetchInv, NEW m, m.kind \in {"set_volume", "set_default"}, Sends(<<m>>),
         UNCHANGED <<there, inbox, mDirection, mReconnect, refreshing, knowledge, mItem, drawn>>
  PROVE  FetchInv'
<1>1. CASE connection # "up"
  BY <1>1, UntouchedFetch DEF Sends, there
<1>2. CASE connection = "up"
  <2>1. Sequences /\ OneFetch /\ m.kind \notin Fetch /\ connection' = "up"
    BY <1>2 DEF FetchInv, Fetch, there
  <2>2. (\E S : requests' \in Seq(S)) /\ (Fetching(requests') <=> Fetching(requests)) /\ Single(requests')
    BY <1>2, <2>1, SendsFacts DEF OneFetch
  <2>3. OneFetch'
    BY <2>1, <2>2, <1>2 DEF OneFetch, there, refreshing
  <2>4. Sequences'
    BY <2>1, <2>2 DEF Sequences, there, refreshing
  <2>5. Connection'
    BY <2>1, <1>2, StillUp
  <2>6. Drawn' /\ NoItem'
    BY UnchangedDrawn DEF refreshing
  <2> QED BY <2>3, <2>4, <2>5, <2>6 DEF FetchInv
<1> QED BY <1>1, <1>2

LEMMA SetPercentFetch == ASSUME FetchInv, NEW l, SetPercent(l) PROVE FetchInv'
<1>1. Setting("set_volume", DefaultDevice, l).kind = "set_volume"
  BY DEF Setting
<1> QED BY <1>1, SetsFetch DEF SetPercent

LEMMA ChooseDeviceFetch == ASSUME FetchInv, NEW n, ChooseDevice(n) PROVE FetchInv'
<1>1. Setting("set_default", mMenuDevices[n], None).kind = "set_default"
  BY DEF Setting
<1> QED BY <1>1, SetsFetch DEF ChooseDevice

\* A message added to what the tray is to read.
LEMMA AppendFacts ==
  ASSUME NEW S, NEW q \in Seq(S), NEW m
  PROVE  LET r == Append(q, m)
         IN /\ \E U : r \in Seq(U)
            /\ Len(q) \in Nat /\ Len(r) = Len(q) + 1
            /\ \A i \in 1 .. Len(q) : i \in 1 .. Len(r) /\ r[i] = q[i]
            /\ \A i \in 1 .. Len(r) : (i \in 1 .. Len(q) /\ r[i] = q[i]) \/ r[i] = m
            /\ Fetching(r) <=> (Fetching(q) \/ m.kind \in Fetch)
            /\ Single(q) /\ ~(Fetching(q) /\ m.kind \in Fetch) => Single(r)
            /\ \A k : Has(r, k) <=> (Has(q, k) \/ m.kind = k)
<1> DEFINE r == Append(q, m)
<1>0. q \in Seq(S \cup {m})
  OBVIOUS
<1>1. /\ r \in Seq(S \cup {m}) /\ Len(q) \in Nat /\ Len(r) = Len(q) + 1
      /\ \A i \in 1 .. Len(q) : r[i] = q[i]
      /\ r[Len(r)] = m
  BY <1>0
<1> HIDE DEF r
<1>2. \A i \in 1 .. Len(q) : i \in 1 .. Len(r) /\ r[i] = q[i]
  BY <1>1
<1>3. ASSUME NEW i \in 1 .. Len(r) PROVE (i \in 1 .. Len(q) /\ r[i] = q[i]) \/ (i = Len(r) /\ r[i] = m)
  BY <1>1
<1>4. Len(r) \in 1 .. Len(r)
  BY <1>1
<1>5. Fetching(r) <=> (Fetching(q) \/ m.kind \in Fetch)
  <2>1. ASSUME Fetching(r) PROVE Fetching(q) \/ m.kind \in Fetch
    BY <2>1, <1>3 DEF Fetching
  <2>2. ASSUME Fetching(q) \/ m.kind \in Fetch PROVE Fetching(r)
    BY <2>2, <1>1, <1>2, <1>4 DEF Fetching
  <2> QED BY <2>1, <2>2
<1>6. ASSUME Single(q), ~(Fetching(q) /\ m.kind \in Fetch) PROVE Single(r)
  BY <1>3, <1>6 DEF Single, Fetching
<1>7. ASSUME NEW k PROVE Has(r, k) <=> (Has(q, k) \/ m.kind = k)
  <2>1. ASSUME Has(r, k) PROVE Has(q, k) \/ m.kind = k
    BY <2>1, <1>3 DEF Has
  <2>2. ASSUME Has(q, k) \/ m.kind = k PROVE Has(r, k)
    BY <2>2, <1>1, <1>2, <1>4 DEF Has
  <2> QED BY <2>1, <2>2
<1> QED BY <1>1, <1>2, <1>3, <1>5, <1>6, <1>7 DEF r

LEMMA ServeFetch == ASSUME FetchInv, Serve PROVE FetchInv'
<1>1. PICK m : m = Head(requests)
  OBVIOUS
<1>2. /\ requests # <<>> /\ requests' = Tail(requests)
      /\ \/ m.kind = "subscribe" /\ subscribed' = TRUE /\ UNCHANGED <<server, announce, inbox>>
         \/ /\ m.kind \in Fetch
            /\ inbox' = Append(inbox, Reply(m)) /\ UNCHANGED <<server, subscribed, announce>>
         \/ /\ m.kind \in {"set_volume", "set_default"}
            /\ announce' = (announce \/ (subscribed /\ server' # server))
            /\ UNCHANGED <<subscribed, inbox>>
      /\ UNCHANGED <<connection, tray>>
  BY <1>1 DEF Serve, Fetch
<1>3. connection = "up" /\ Sequences /\ OneFetch
  BY <1>2 DEF FetchInv, Connection
<1>4. PICK S : requests \in Seq(S)
  BY <1>3 DEF Sequences
<1>5. /\ \E U : requests' \in Seq(U)
      /\ Single(requests')
      /\ Fetching(requests) <=> (m.kind \in Fetch \/ Fetching(requests'))
      /\ m.kind \in Fetch => ~Fetching(requests')
  BY <1>1, <1>2, <1>3, <1>4, RestFacts DEF OneFetch
<1>6. Drawn' /\ NoItem'
  BY <1>2, UnchangedDrawn DEF tray, refreshing
<1>7. UNCHANGED <<mRefreshing, mRefreshAgain, mReconnect>>
  BY <1>2 DEF tray, refreshing
<1>8. CASE m.kind \in Fetch /\ inbox' = Append(inbox, Reply(m)) /\ UNCHANGED <<subscribed, announce>>
  <2>1. Reply(m).kind = m.kind /\ m.kind # "failed"
    BY <1>8 DEF Reply, Fetch
  <2>2. Fetching(requests) /\ ~Fetching(inbox)
    BY <1>3, <1>5, <1>8 DEF OneFetch
  <2>3. PICK T : inbox \in Seq(T)
    BY <1>3 DEF Sequences
  <2>4. /\ \E U : inbox' \in Seq(U)
        /\ Fetching(inbox') /\ Single(inbox')
        /\ Has(inbox', "failed") <=> Has(inbox, "failed")
    BY <2>1, <2>2, <2>3, <1>3, <1>8, AppendFacts DEF OneFetch
  <2>5. OneFetch'
    BY <2>2, <2>4, <1>2, <1>3, <1>5, <1>7, <1>8 DEF OneFetch
  <2>6. Connection'
    BY <2>4, <1>2, <1>3, <1>7, StillUp
  <2>7. Sequences'
    BY <2>4, <1>3, <1>5, <1>7, <1>8 DEF Sequences
  <2> QED BY <2>5, <2>6, <2>7, <1>6 DEF FetchInv
<1>9. CASE m.kind \notin Fetch /\ inbox' = inbox /\ {subscribed', announce'} \subseteq BOOLEAN
  <2>1. OneFetch'
    BY <1>2, <1>3, <1>5, <1>7, <1>9 DEF OneFetch
  <2>2. Connection'
    BY <1>2, <1>3, <1>7, <1>9, StillUp
  <2>3. Sequences'
    BY <1>3, <1>5, <1>7, <1>9 DEF Sequences
  <2> QED BY <2>1, <2>2, <2>3, <1>6 DEF FetchInv
<1>10. {subscribed', announce'} \subseteq BOOLEAN
  BY <1>2, <1>3 DEF Sequences
<1> QED BY <1>2, <1>8, <1>9, <1>10 DEF Fetch

LEMMA AnnounceFetch == ASSUME FetchInv, Announce PROVE FetchInv'
<1>1. /\ announce /\ announce' = FALSE /\ inbox' = Append(inbox, Message("event"))
      /\ UNCHANGED <<connection, subscribed, requests, tray>>
  BY DEF Announce
<1>2. connection = "up" /\ Sequences /\ OneFetch
  BY <1>1 DEF FetchInv, Connection
<1>3. Message("event").kind = "event" /\ "event" \notin Fetch
  BY DEF Message, Fetch
<1>4. PICK S : inbox \in Seq(S)
  BY <1>2 DEF Sequences
<1>5. /\ \E U : inbox' \in Seq(U)
      /\ Fetching(inbox') <=> Fetching(inbox)
      /\ Single(inbox')
      /\ Has(inbox', "failed") <=> Has(inbox, "failed")
  BY <1>1, <1>2, <1>3, <1>4, AppendFacts DEF OneFetch
<1>6. UNCHANGED <<mRefreshing, mRefreshAgain, mReconnect, requests>>
  BY <1>1 DEF tray, refreshing
<1>7. OneFetch'
  BY <1>1, <1>2, <1>5, <1>6 DEF OneFetch
<1>8. Sequences'
  BY <1>1, <1>2, <1>5, <1>6 DEF Sequences
<1>9. Connection'
  BY <1>1, <1>2, <1>5, <1>6, StillUp
<1>10. Drawn' /\ NoItem'
  BY <1>1, UnchangedDrawn DEF tray, refreshing
<1> QED BY <1>7, <1>8, <1>9, <1>10 DEF FetchInv

LEMMA ConnectionFetch == ASSUME FetchInv, Accept \/ Lose PROVE FetchInv'
<1>1. /\ UNCHANGED tray
      /\ \/ /\ connection = "waiting" /\ connection' = "up" /\ inbox' = <<Message("ready")>>
            /\ UNCHANGED <<subscribed, announce, requests>>
         \/ /\ connection = "up" /\ connection' = "lost" /\ inbox' = <<Message("failed")>>
            /\ subscribed' = FALSE /\ announce' = FALSE /\ requests' = <<>>
  BY DEF Accept, Lose
<1>2. requests' = <<>> /\ ~mReconnect /\ ~mReconnect' /\ ~announce' /\ ~subscribed'
  BY <1>1 DEF FetchInv, Connection, tray
<1>3. PICK kind \in {"ready", "failed"} :
        /\ inbox' = <<Message(kind)>>
        /\ kind = "ready" => connection' = "up" /\ ~mRefreshing'
        /\ kind = "failed" => connection' = "lost"
  BY <1>1 DEF FetchInv, Connection, tray, refreshing
<1>4. Single(inbox') /\ ~Fetching(inbox') /\ (Has(inbox', "failed") => kind = "failed")
  BY <1>3, OneFacts DEF Message, Fetch
<1>5. UNCHANGED <<mRefreshing, mRefreshAgain, mReconnect>>
  BY <1>1 DEF tray, refreshing
<1>6. OneFetch'
  BY <1>2, <1>3, <1>4, <1>5, EmptyFacts DEF FetchInv, OneFetch
<1>7. Connection'
  BY <1>2, <1>3, <1>4, <1>5 DEF Connection
<1>8. Sequences'
  <2> DEFINE m == Message(kind)
  <2>1. <<>> \in Seq({}) /\ <<m>> \in Seq({m})
    OBVIOUS
  <2>2. (\E S : requests' \in Seq(S)) /\ (\E S : inbox' \in Seq(S))
    BY <2>1, <1>2, <1>3
  <2> QED BY <2>2, <1>1, <1>2, <1>5 DEF FetchInv, Sequences
<1>9. Drawn' /\ NoItem'
  BY <1>1, UnchangedDrawn DEF tray, refreshing
<1> QED BY <1>6, <1>7, <1>8, <1>9 DEF FetchInv

LEMMA ChangeFetch == ASSUME FetchInv, Change PROVE FetchInv'
<1>1. /\ announce' = subscribed /\ UNCHANGED <<connection, subscribed, requests, inbox, tray>>
  BY DEF Change
<1>2. Sequences' /\ OneFetch' /\ Connection'
  BY <1>1 DEF FetchInv, Sequences, OneFetch, Connection, tray, refreshing
<1>3. Drawn' /\ NoItem'
  BY <1>1, UnchangedDrawn DEF tray, refreshing
<1> QED BY <1>2, <1>3 DEF FetchInv

LEMMA FetchStep == FetchInv /\ [Next]_vars => FetchInv'
<1> SUFFICES ASSUME FetchInv, [Next]_vars PROVE FetchInv'
  OBVIOUS
<1>1. CASE UNCHANGED pulse
  BY <1>1, UntouchedFetch DEF pulse, there
<1>2. CASE SoundNext
  BY <1>2, RefreshingFetch, ReplyFetch, RefreshDoneFetch, FailedFetch DEF SoundNext
<1>3. CASE Reconnect
  BY <1>3, <1>1, ReconnectFetch DEF Reconnect
<1>4. CASE RightClickVolume \/ ItemChanges
  BY <1>4, <1>1, UntouchedFetch DEF RightClickVolume, ItemChanges, ItemAdded, ItemRemoved,
                                     PropertiesReply, there, tray
<1>5. CASE ScrollVolume \/ DragSlider \/ ChooseEntry
  BY <1>5, SetPercentFetch, ChooseDeviceFetch DEF ScrollVolume, Scroll, DragSlider, ChooseEntry
<1>6. CASE Elsewhere
  BY <1>6, ServeFetch, AnnounceFetch, ConnectionFetch, ChangeFetch DEF Elsewhere, ServerNext
<1>7. CASE UNCHANGED vars
  BY <1>7, <1>1 DEF vars
<1>8. CASE LoopNext
  <2>1. CASE \/ LayoutReply \/ LayoutError \/ ClickNotch \/ ClickBar \/ ClickOwner
             \/ ClickNotifier \/ LeftClickVolume \/ Poll
    BY <2>1, <1>1 DEF LayoutReply, LayoutError, ClickNotch, ClickBar, ClickOwner, ClickNotifier,
                      LeftClickVolume, Poll
  <2>2. CASE HandleInput
    BY <2>2, <1>3 DEF HandleInput
  <2> QED BY <2>1, <2>2, <1>2, <1>4, <1>5, <1>8 DEF LoopNext, ItemChanges
<1> QED BY <1>6, <1>7, <1>8 DEF Next

LEMMA FetchInvariant == Spec => []FetchInv
  BY FetchInit, FetchStep, PTL DEF Spec

LEMMA ItemShown ==
  ASSUME FetchInv, PopupInv, Input, "volume" \in mIconWidgets \/ mMixer
  PROVE  mItem # None /\ (drawn = DefaultDevice \/ mRefreshing)
<1>1. "volume" \in Items
  BY DEF PopupInv, Fresh, Input
<1>2. mItem # None
  BY <1>1 DEF Items
<1>3. drawn = DefaultDevice \/ mRefreshing
  BY <1>2 DEF FetchInv, Drawn, NoItem, ItemOf, DefaultDevice
<1> QED BY <1>2, <1>3

\* The user sets the volume of the device whose level the item shows, but during a refresh.
THEOREM ActsOnShownHolds == Spec => ActsOnShown
<1> DEFINE Acts == phase = "input" /\ Len(requests') > Len(requests)
                     /\ Last(requests').kind = "set_volume"
                       => Last(requests').device = drawn \/ mRefreshing
<1>1. ASSUME FetchInv, PopupInv, [Next]_vars PROVE [Acts]_vars
  <2> SUFFICES ASSUME Next, phase = "input", Len(requests') > Len(requests),
                      Last(requests').kind = "set_volume"
               PROVE  Last(requests').device = drawn \/ mRefreshing
    BY <1>1
  <2>1. PICK S : requests \in Seq(S)
    BY <1>1 DEF FetchInv, Sequences
  <2>2. ~UNCHANGED requests
    BY <2>1
  <2>3. CASE Elsewhere
    <3>1. CASE Accept \/ Announce \/ Change
      BY <3>1, <2>2 DEF Accept, Announce, Change
    <3>2. CASE Serve
      BY <3>2, <2>1, RestFacts DEF Serve
    <3>3. CASE Lose
      BY <3>3, <2>1 DEF Lose
    <3> QED BY <2>3, <3>1, <3>2, <3>3 DEF Elsewhere, ServerNext
  <2>4. ASSUME NEW l, SetPercent(l), drawn = DefaultDevice \/ mRefreshing
        PROVE  Last(requests').device = drawn \/ mRefreshing
    <3> DEFINE m == Setting("set_volume", DefaultDevice, l)
    <3>2. Sends(<<m>>) /\ connection = "up"
      BY <2>4, <2>2 DEF SetPercent, Sends
    <3> HIDE DEF m
    <3>3. Last(requests') = m
      BY <3>2, <1>1, SendsFacts DEF Last, FetchInv
    <3> QED BY <3>3, <2>4 DEF m, Setting
  <2>5. CASE ScrollVolume \/ DragSlider
    <3>1. drawn = DefaultDevice \/ mRefreshing
      BY <2>5, <1>1, ItemShown DEF ScrollVolume, DragSlider
    <3>2. \E l : SetPercent(l)
      BY <2>5 DEF ScrollVolume, DragSlider, Scroll
    <3> QED BY <3>1, <3>2, <2>4
  <2>6. CASE ChooseEntry
    <3>1. PICK n : ChooseDevice(n)
      BY <2>6 DEF ChooseEntry
    <3> DEFINE m == Setting("set_default", mMenuDevices[n], None)
    <3>2. Sends(<<m>>) /\ connection = "up"
      BY <3>1, <2>2 DEF ChooseDevice, Sends
    <3>3. m.kind = "set_default"
      BY DEF Setting
    <3> HIDE DEF m
    <3>4. Last(requests') = m
      BY <3>2, <1>1, SendsFacts DEF Last, FetchInv
    <3> QED BY <3>3, <3>4
  <2>7. CASE ClickNotch \/ ClickBar \/ ClickOwner \/ ClickNotifier \/ RightClickVolume
             \/ LeftClickVolume \/ Poll
    BY <2>7, <2>2 DEF ClickNotch, ClickBar, ClickOwner, ClickNotifier, RightClickVolume,
                      LeftClickVolume, Poll, pulse
  <2> QED BY <2>3, <2>5, <2>6, <2>7
            DEF Next, LoopNext, LayoutReply, LayoutError, ItemAdded, ItemRemoved, PropertiesReply,
                SoundNext, HandleInput
<1> QED BY <1>1, FetchInvariant, PopupInvariant, PTL DEF Spec, ActsOnShown

(***************************************************************************)
(* The levels.                                                             *)
(***************************************************************************)
LevelsOf == [Device -> Nat \cup {None}]

ServerOK(s) ==
  /\ s = [default |-> s.default, level |-> s.level, streams |-> s.streams]
  /\ s.level \in LevelsOf
  /\ s.streams \in [Stream -> Device \cup {None}]
  /\ \A t \in Stream : s.streams[t] # None => s.level[s.streams[t]] # None

SetsLevels(q) == \A i \in 1 .. Len(q) : q[i].kind = "set_volume" => q[i].level \in Nat
RepliesOK(q) == \A i \in 1 .. Len(q) : q[i].kind \in Fetch => ServerOK(q[i].server)

Levels ==
  /\ ServerOK(server)
  /\ mDevices \in LevelsOf
  /\ SetsLevels(requests)
  /\ RepliesOK(inbox)

LEMMA DefaultFacts ==
  ASSUME NEW level \in LevelsOf, NEW name
  PROVE  /\ DefaultOf(name, level) \in Present(level) \cup {None}
         /\ DefaultOf(name, level) = None => Present(level) = {}
         /\ Present(level) \subseteq Device /\ None \notin Present(level)
         /\ \A d \in Present(level) : level[d] \in Nat
<1>1. Present(level) \subseteq Device /\ Device \subseteq Nat /\ None \notin Nat
  BY PulseOK DEF Present
<1>2. \A d \in Present(level) : level[d] \in Nat
  BY DEF Present, LevelsOf
<1>3. ASSUME Present(level) # {} PROVE Min(Present(level)) \in Present(level)
  <2>1. PICK n \in Present(level) : TRUE
    BY <1>3
  <2>2. \E x \in Present(level) : \A y \in Present(level) : x <= y
    BY <2>1, <1>1, LeastNatural
  <2> QED BY <2>2 DEF Min
<1> QED BY <1>1, <1>2, <1>3 DEF DefaultOf

LEMMA OfTwo ==
  ASSUME NEW a \in Nat, NEW b \in Nat
  PROVE  /\ Max({a, b}) \in {a, b} /\ Max({a, b}) >= a /\ Max({a, b}) >= b
         /\ Min({a, b}) \in {a, b}
<1>1. \E x \in {a, b} : \A y \in {a, b} : x >= y
  <2>1. CASE a >= b
    BY <2>1
  <2>2. CASE b >= a
    BY <2>2
  <2> QED BY <2>1, <2>2
<1>2. \E x \in {a, b} : \A y \in {a, b} : x <= y
  <2>1. CASE a >= b
    BY <2>1
  <2>2. CASE b >= a
    BY <2>2
  <2> QED BY <2>1, <2>2
<1>3. Max({a, b}) \in {a, b} /\ \A y \in {a, b} : Max({a, b}) >= y
  BY <1>1 DEF Max
<1>4. Min({a, b}) \in {a, b}
  BY <1>2 DEF Min
<1> QED BY <1>3, <1>4

LEMMA NothingFacts == Nothing \in LevelsOf /\ Present(Nothing) = {}
  BY DEF Nothing, LevelsOf, Present

\* The user sets volumes, of devices that are known.
LEMMA SetsLevel ==
  ASSUME Levels, ScrollVolume \/ DragSlider
  PROVE  \E l \in Nat : SetPercent(l)
<1>1. CASE ScrollVolume
  <2>1. PICK up \in BOOLEAN : Scroll(up)
    BY <1>1 DEF ScrollVolume
  <2> DEFINE current == mDevices[DefaultDevice]
             most == Max({current, Full})
             target == IF up THEN Min({current + 1, most}) ELSE Max({current, 1}) - 1
  <2>2. SetPercent(target) /\ DefaultDevice # None
    BY <2>1 DEF Scroll
  <2>3. current \in Nat /\ Full \in Nat
    BY <2>2, DefaultFacts, PulseOK DEF Levels, DefaultDevice
  <2> HIDE DEF current
  <2>4. most \in Nat /\ Max({current, 1}) \in Nat /\ Max({current, 1}) >= 1
    BY <2>3, OfTwo
  <2> HIDE DEF most
  <2>5. Min({current + 1, most}) \in Nat
    BY <2>3, <2>4, OfTwo
  <2>6. target \in Nat
    BY <2>4, <2>5
  <2> HIDE DEF target
  <2> QED BY <2>2, <2>6
<1>2. CASE DragSlider
  <2>1. PICK l \in 0 .. columnMax : SetPercent(l)
    BY <1>2 DEF DragSlider
  <2>2. l \in Nat
    OBVIOUS
  <2> QED BY <2>1, <2>2
<1> QED BY <1>1, <1>2

LEMMA AfterOK ==
  ASSUME ServerOK(server), NEW m, m.kind \in {"set_volume", "set_default"},
         m.kind = "set_volume" => m.level \in Nat
  PROVE  ServerOK(After(m))
<1>1. CASE m.device \notin Present(server.level)
  BY <1>1 DEF After
<1>2. CASE m.device \in Present(server.level) /\ m.kind = "set_volume"
  <2> DEFINE lv == [server.level EXCEPT ![m.device] = m.level]
  <2>1. m.device \in Device /\ m.level \in Nat /\ server.level \in LevelsOf /\ None \notin Nat
    BY <1>2, PulseOK DEF Present, ServerOK
  <2>2. lv \in LevelsOf /\ \A d \in Device : lv[d] = IF d = m.device THEN m.level ELSE server.level[d]
    BY <2>1 DEF LevelsOf
  <2>3. After(m) = [server EXCEPT !.level = lv]
    BY <1>2 DEF After
  <2>4. After(m) = [default |-> server.default, level |-> lv, streams |-> server.streams]
    BY <2>3 DEF ServerOK
  <2> HIDE DEF lv
  <2> QED BY <2>1, <2>2, <2>4 DEF ServerOK
<1>3. CASE m.device \in Present(server.level) /\ m.kind = "set_default"
  <2>1. After(m) = [default |-> m.device, level |-> server.level, streams |-> server.streams]
    BY <1>3 DEF After, ServerOK
  <2> QED BY <2>1 DEF ServerOK
<1> QED BY <1>1, <1>2, <1>3

LEMMA ChangesOK == ASSUME ServerOK(server), NEW c \in Changes PROVE ServerOK(c)
<1>0. /\ server = [default |-> server.default, level |-> server.level, streams |-> server.streams]
      /\ server.level \in LevelsOf /\ server.streams \in [Stream -> Device \cup {None}]
      /\ \A t \in Stream : server.streams[t] # None => server.level[server.streams[t]] # None
      /\ Device \subseteq Nat /\ None \notin Nat /\ MaxLevel \in Nat
  BY PulseOK DEF ServerOK
<1>1. ASSUME NEW d \in Device, NEW l \in Level, c = [server EXCEPT !.level[d] = l] PROVE ServerOK(c)
  <2> DEFINE lv == [server.level EXCEPT ![d] = l]
  <2>1. l \in Nat
    BY <1>0 DEF Level
  <2>2. lv \in LevelsOf /\ \A e \in Device : lv[e] = IF e = d THEN l ELSE server.level[e]
    BY <2>1, <1>0 DEF LevelsOf
  <2>3. c = [server EXCEPT !.level = lv]
    BY <1>1
  <2>4. c = [default |-> server.default, level |-> lv, streams |-> server.streams]
    BY <2>3, <1>0
  <2> HIDE DEF lv
  <2> QED BY <2>1, <2>2, <2>4, <1>0 DEF ServerOK
<1>2. ASSUME NEW d \in Present(server.level), NEW lv, lv = [server.level EXCEPT ![d] = None],
             NEW st, st = [s \in Stream |-> IF server.streams[s] = d THEN None ELSE server.streams[s]],
             c = [default |-> DefaultOf(server.default, lv), level |-> lv, streams |-> st]
      PROVE  ServerOK(c)
  <2>1. d \in Device
    BY DEF Present
  <2>2. lv \in LevelsOf /\ \A e \in Device : lv[e] = IF e = d THEN None ELSE server.level[e]
    BY <2>1, <1>0, <1>2 DEF LevelsOf
  <2>3. st \in [Stream -> Device \cup {None}]
    BY <1>0, <1>2
  <2>4. ASSUME NEW t \in Stream, st[t] # None PROVE lv[st[t]] # None
    BY <2>1, <2>2, <2>4, <1>0, <1>2
  <2> QED BY <2>2, <2>3, <2>4, <1>2 DEF ServerOK
<1>3. ASSUME NEW d, c = [server EXCEPT !.default = d] PROVE ServerOK(c)
  <2>1. c = [default |-> d, level |-> server.level, streams |-> server.streams]
    BY <1>0, <1>3
  <2> QED BY <2>1, <1>0 DEF ServerOK
<1>4. ASSUME NEW s \in Stream, NEW d \in Present(server.level) \cup {None},
             c = [server EXCEPT !.streams[s] = d]
      PROVE  ServerOK(c)
  <2> DEFINE st == [server.streams EXCEPT ![s] = d]
  <2>1. st \in [Stream -> Device \cup {None}]
    BY <1>0 DEF Present
  <2>2. \A t \in Stream : st[t] # None => server.level[st[t]] # None
    BY <1>0 DEF Present
  <2>3. c = [server EXCEPT !.streams = st]
    BY <1>4
  <2>4. c = [default |-> server.default, level |-> server.level, streams |-> st]
    BY <2>3, <1>0
  <2> HIDE DEF st
  <2> QED BY <2>1, <2>2, <2>4, <1>0 DEF ServerOK
<1> DEFINE now == Present(server.level)
           lv(d) == [server.level EXCEPT ![d] = None]
           st(d) == [s \in Stream |-> IF server.streams[s] = d THEN None ELSE server.streams[s]]
           A == {[server EXCEPT !.level[d] = l] : d \in Device, l \in Level}
           B == {[default |-> DefaultOf(server.default, lv(d)), level |-> lv(d),
                  streams |-> st(d)] : d \in now}
           C == {[server EXCEPT !.default = d] : d \in now}
           D == {[server EXCEPT !.streams[s] = d] : s \in Stream, d \in now \cup {None}}
<1>9. Changes = A \cup B \cup C \cup D
  BY DEF Changes
<1>10. c \in A => \E d \in Device, l \in Level : c = [server EXCEPT !.level[d] = l]
  OBVIOUS
<1>12. c \in C => \E d \in now : c = [server EXCEPT !.default = d]
  OBVIOUS
<1>13. c \in D => \E s \in Stream, d \in now \cup {None} : c = [server EXCEPT !.streams[s] = d]
  OBVIOUS
<1>6. ASSUME NEW d \in now, c = [default |-> DefaultOf(server.default, lv(d)), level |-> lv(d),
                                streams |-> st(d)]
      PROVE  ServerOK(c)
  BY <1>6, <1>2
<1>7. c \in B => \E d \in now : c = [default |-> DefaultOf(server.default, lv(d)),
                                     level |-> lv(d), streams |-> st(d)]
  <2> HIDE DEF lv, st, now
  <2> QED OBVIOUS
<1> HIDE DEF A, B, C, D, lv, st
<1> QED BY <1>1, <1>3, <1>4, <1>6, <1>7, <1>9, <1>10, <1>12, <1>13

LEMMA LevelsInit == Init => Levels
<1> SUFFICES ASSUME Init PROVE Levels
  OBVIOUS
<1>1. server = [default |-> Min(Device), level |-> [d \in Device |-> Full],
                streams |-> [s \in Stream |-> None]]
  BY DEF Init, PulseInit
<1>2. ServerOK(server)
  BY <1>1, PulseOK DEF ServerOK, LevelsOf
<1>3. SetsLevels(requests) /\ RepliesOK(inbox)
  BY DEF Init, PulseInit, SetsLevels, RepliesOK
<1> QED BY <1>2, <1>3, NothingFacts DEF Init, PulseInit, Levels

\* The requests of a refresh set no volumes.
LEMMA MessageSetsNone ==
  ASSUME FetchInv, connection = "up", SetsLevels(requests),
         \/ requests' = requests
         \/ \E k \in Fetch \cup {"subscribe"} : Sends(<<Message(k)>>)
         \/ Sends(<<Message("subscribe"), Message("server")>>)
  PROVE  SetsLevels(requests')
<1>1. Sequences
  BY DEF FetchInv
<1>2. CASE \E k \in Fetch \cup {"subscribe"} : Sends(<<Message(k)>>)
  <2>1. PICK k \in Fetch \cup {"subscribe"} : Sends(<<Message(k)>>)
    BY <1>2
  <2> DEFINE m == Message(k)
  <2>2. m.kind # "set_volume"
    BY DEF Message, Fetch
  <2> HIDE DEF m
  <2>3. \A i \in 1 .. Len(requests') :
          (i \in 1 .. Len(requests) /\ requests'[i] = requests[i]) \/ requests'[i] = m
    BY <2>1, <1>1, SendsFacts DEF m
  <2> QED BY <2>2, <2>3 DEF SetsLevels
<1>3. CASE Sends(<<Message("subscribe"), Message("server")>>)
  <2> DEFINE a == Message("subscribe")
             b == Message("server")
  <2>2. a.kind # "set_volume" /\ b.kind # "set_volume"
    BY DEF Message
  <2>3. \A i \in 1 .. Len(requests') :
          (i \in 1 .. Len(requests) /\ requests'[i] = requests[i]) \/ requests'[i] \in {a, b}
    BY <1>3, <1>1, SendsBothFacts
  <2> HIDE DEF a, b
  <2> QED BY <2>2, <2>3 DEF SetsLevels
<1>4. CASE requests' = requests
  BY <1>4
<1> QED BY <1>2, <1>3, <1>4

\* What the tray asks for, when it reads.
LEMMA ReadingSends ==
  ASSUME FetchInv, Ready \/ Event \/ ServerInfo \/ DevicesDone \/ RefreshDone
  PROVE  /\ connection = "up" /\ connection' = "up" /\ UNCHANGED there
         /\ \/ requests' = requests
            \/ \E k \in Fetch \cup {"subscribe"} : Sends(<<Message(k)>>)
            \/ Sends(<<Message("subscribe"), Message("server")>>)
         /\ \E kind \in Fetch \cup {"ready", "event"} : Reads(kind)
<1>1. PICK kind \in Fetch \cup {"ready", "event"} : Reads(kind) /\ UNCHANGED there
  BY DEF Ready, Event, ServerInfo, DevicesDone, RefreshDone, Fetch
<1>2. Sequences /\ connection = "up" /\ connection' = "up"
  BY <1>1, ReadsFacts DEF FetchInv, there, Fetch
<1>3. CASE Ready \/ Event
  <2>1. PICK others \in {<<>>, <<"subscribe">>} : Refresh(others)
    BY <1>3 DEF Ready, Event
  <2> QED BY <1>1, <1>2, <2>1, RefreshFacts DEF Fetch
<1>4. CASE ServerInfo \/ DevicesDone
  BY <1>1, <1>2, <1>4, AsksFacts DEF ServerInfo, DevicesDone, Fetch
<1>5. CASE RefreshDone
  <2>1. CASE mRefreshAgain
    <3>1. Asks(<<"server">>)
      BY <1>5, <2>1 DEF RefreshDone
    <3> QED BY <3>1, <1>1, <1>2, AsksFacts DEF Fetch
  <2>2. CASE ~mRefreshAgain
    <3>1. Asks(<<>>)
      BY <1>5, <2>2 DEF RefreshDone
    <3> QED BY <3>1, <1>1, <1>2, AsksFacts
  <2> QED BY <2>1, <2>2
<1> QED BY <1>3, <1>4, <1>5

LEMMA SoundLevels == ASSUME FetchInv, Levels, SoundNext PROVE Levels'
<1>1. CASE Failed
  <2>1. UNCHANGED <<server, requests>> /\ mDevices' = Nothing /\ Reads("failed")
    BY <1>1 DEF Failed, there
  <2>2. RepliesOK(inbox')
    BY <2>1, ReadsFacts DEF Levels, RepliesOK
  <2> QED BY <2>1, <2>2, NothingFacts DEF Levels
<1>2. CASE Ready \/ Event \/ ServerInfo \/ DevicesDone \/ RefreshDone
  <2>1. UNCHANGED server /\ SetsLevels(requests')
    BY <1>2, ReadingSends, MessageSetsNone DEF there, Levels
  <2>2. PICK kind : Reads(kind)
    BY <1>2, ReadingSends
  <2>3. RepliesOK(inbox')
    BY <2>2, ReadsFacts DEF Levels, RepliesOK
  <2>4. mDevices' \in LevelsOf
    <3>1. CASE DevicesDone
      <4>1. Reads("devices") /\ mDevices' = Head(inbox).server.level
        BY <3>1 DEF DevicesDone
      <4>2. Head(inbox) = inbox[1] /\ 1 \in 1 .. Len(inbox) /\ inbox[1].kind = "devices"
        BY <4>1, ReadsFacts
      <4> QED BY <4>1, <4>2 DEF Levels, RepliesOK, ServerOK, Fetch
    <3>2. CASE Ready \/ Event \/ ServerInfo \/ RefreshDone
      BY <3>2 DEF Ready, Event, ServerInfo, RefreshDone, Levels, knowledge
    <3> QED BY <3>1, <3>2, <1>2
  <2> QED BY <2>1, <2>3, <2>4 DEF Levels
<1> QED BY <1>1, <1>2 DEF SoundNext

LEMMA InputLevels ==
  ASSUME FetchInv, Levels, ScrollVolume \/ DragSlider \/ ChooseEntry
  PROVE  Levels'
<1>1. PICK m : /\ Sends(<<m>>) /\ UNCHANGED <<there, inbox, knowledge>>
               /\ m.kind = "set_volume" => m.level \in Nat
  <2>1. CASE ScrollVolume \/ DragSlider
    <3>1. PICK l \in Nat : SetPercent(l)
      BY <2>1, SetsLevel
    <3> DEFINE m == Setting("set_volume", DefaultDevice, l)
    <3>2. Sends(<<m>>) /\ UNCHANGED <<there, inbox, knowledge>>
      BY <3>1 DEF SetPercent
    <3>3. m.level \in Nat
      BY DEF Setting
    <3> QED BY <3>2, <3>3
  <2>2. CASE ChooseEntry
    <3>1. PICK n : ChooseDevice(n)
      BY <2>2 DEF ChooseEntry
    <3> DEFINE m == Setting("set_default", mMenuDevices[n], None)
    <3>2. Sends(<<m>>) /\ UNCHANGED <<there, inbox, knowledge>>
      BY <3>1 DEF ChooseDevice
    <3>3. m.kind # "set_volume"
      BY DEF Setting
    <3> QED BY <3>2, <3>3
  <2> QED BY <2>1, <2>2
<1>2. UNCHANGED <<server, mDevices, inbox>>
  BY <1>1 DEF there, knowledge
<1>3. SetsLevels(requests')
  <2>1. CASE connection = "up"
    BY <2>1, <1>1, SendsFacts DEF FetchInv, Levels, SetsLevels
  <2>2. CASE connection # "up"
    BY <2>2, <1>1 DEF Sends, Levels
  <2> QED BY <2>1, <2>2
<1> QED BY <1>2, <1>3 DEF Levels

LEMMA ServerLevels == ASSUME FetchInv, Levels, ServerNext PROVE Levels'
<1>0. mDevices' = mDevices
  BY DEF ServerNext, Accept, Serve, Announce, Change, Lose, tray, knowledge
<1>1. CASE Accept \/ Lose
  <2>1. PICK kind \in {"ready", "failed"} : inbox' = <<Message(kind)>>
    BY <1>1 DEF Accept, Lose
  <2>2. RepliesOK(inbox')
    <3> DEFINE m == Message(kind)
    <3>1. m.kind \notin Fetch
      BY DEF Message, Fetch
    <3> HIDE DEF m
    <3>2. \A i \in 1 .. Len(<<m>>) : <<m>>[i] = m
      OBVIOUS
    <3> QED BY <2>1, <3>1, <3>2 DEF RepliesOK, m
  <2>3. SetsLevels(requests')
    BY <1>1 DEF Accept, Lose, Levels, SetsLevels
  <2> QED BY <2>2, <2>3, <1>0, <1>1 DEF Accept, Lose, Levels
<1>2. CASE Change
  BY <1>2, <1>0, ChangesOK DEF Change, Levels
<1>3. CASE Announce
  <2>1. PICK S : inbox \in Seq(S)
    BY DEF FetchInv, Sequences
  <2> DEFINE m == Message("event")
  <2>2. m.kind \notin Fetch
    BY DEF Message, Fetch
  <2>3. inbox' = Append(inbox, m) /\ UNCHANGED <<server, requests>>
    BY <1>3 DEF Announce
  <2> HIDE DEF m
  <2>4. RepliesOK(inbox')
    BY <2>1, <2>2, <2>3, AppendFacts DEF RepliesOK, Levels
  <2> QED BY <2>3, <2>4, <1>0 DEF Levels
<1>4. CASE Serve
  <2>1. PICK m : m = Head(requests)
    OBVIOUS
  <2>2. /\ requests # <<>> /\ requests' = Tail(requests)
        /\ \/ UNCHANGED <<server, inbox>>
           \/ m.kind \in Fetch /\ inbox' = Append(inbox, Reply(m)) /\ UNCHANGED server
           \/ m.kind \in {"set_volume", "set_default"} /\ server' = After(m) /\ UNCHANGED inbox
    BY <1>4, <2>1 DEF Serve, Fetch
  <2>3. PICK S : requests \in Seq(S)
    BY DEF FetchInv, Sequences
  <2>4. SetsLevels(requests')
    BY <2>2, <2>3, RestFacts DEF SetsLevels, Levels
  <2>5. m.kind = "set_volume" => m.level \in Nat
    <3>1. 1 \in 1 .. Len(requests) /\ m = requests[1]
      BY <2>1, <2>2, <2>3
    <3> QED BY <3>1 DEF Levels, SetsLevels
  <2>6. ServerOK(server')
    BY <2>2, <2>5, AfterOK DEF Levels
  <2>7. RepliesOK(inbox')
    <3>1. CASE inbox' = Append(inbox, Reply(m))
      <4>1. PICK T : inbox \in Seq(T)
        BY DEF FetchInv, Sequences
      <4>2. PICK r : r = Reply(m)
        OBVIOUS
      <4>3. ServerOK(r.server) /\ inbox' = Append(inbox, r)
        BY <3>1, <4>2 DEF Reply, Levels
      <4> QED BY <4>1, <4>3, AppendFacts DEF RepliesOK, Levels
    <3>2. CASE UNCHANGED inbox
      BY <3>2 DEF Levels
    <3> QED BY <3>1, <3>2, <2>2
  <2> QED BY <2>4, <2>6, <2>7, <1>0 DEF Levels
<1> QED BY <1>1, <1>2, <1>3, <1>4 DEF ServerNext

LEMMA LevelsStep == FetchInv /\ Levels /\ [Next]_vars => Levels'
<1> SUFFICES ASSUME FetchInv, Levels, [Next]_vars PROVE Levels'
  OBVIOUS
<1>1. CASE UNCHANGED <<server, mDevices, requests, inbox>>
  BY <1>1 DEF Levels
<1>2. CASE UNCHANGED vars
  BY <1>2, <1>1 DEF vars, pulse, there, knowledge
<1>3. CASE LoopNext
  <2>1. CASE \/ LayoutReply \/ LayoutError \/ ClickNotch \/ ClickBar \/ ClickOwner
             \/ ClickNotifier \/ LeftClickVolume \/ Poll \/ HandleInput \/ RightClickVolume
             \/ ItemAdded \/ ItemRemoved \/ PropertiesReply
    BY <2>1, <1>1 DEF LayoutReply, LayoutError, ClickNotch, ClickBar, ClickOwner, ClickNotifier,
                      LeftClickVolume, Poll, HandleInput, Reconnect, RightClickVolume,
                      ItemAdded, ItemRemoved, PropertiesReply, pulse, there, knowledge, tray
  <2> QED BY <2>1, <1>3, SoundLevels, InputLevels DEF LoopNext
<1>4. CASE Elsewhere
  BY <1>4, ServerLevels DEF Elsewhere
<1> QED BY <1>2, <1>3, <1>4 DEF Next

(***************************************************************************)
(* What the tray knows.                                                    *)
(***************************************************************************)

\* Another refresh follows.
Stale ==
  ~subscribed \/ announce \/ Has(inbox, "event") \/ mRefreshAgain \/ Has(requests, "server")

Unsubscribed ==
  connection = "up" /\ ~subscribed =>
    /\ ~announce
    /\ \/ inbox = <<Message("ready")>> /\ ~mRefreshing /\ ~Has(requests, "subscribe")
       \/ \E i, j \in 1 .. Len(requests) :
            i < j /\ requests[i].kind = "subscribe" /\ requests[j].kind = "server"

Under(kind) == Has(requests, kind) \/ Has(inbox, kind)

Current ==
  connection = "up" /\ ~Stale =>
    /\ \A i \in 1 .. Len(inbox) :
         /\ inbox[i].kind = "server" => inbox[i].server.default = server.default
         /\ inbox[i].kind = "devices" => inbox[i].server.level = server.level
         /\ inbox[i].kind = "streams" => inbox[i].server.streams = server.streams
    /\ Under("devices") \/ Under("streams") \/ ~mRefreshing => mDefaultDevice = server.default
    /\ Under("streams") \/ ~mRefreshing => mDevices = server.level
    /\ ~mRefreshing => mStreams = {s \in Stream : server.streams[s] # None}

SliderFollows ==
  connection = "up" /\ ~Stale /\ ~mRefreshing /\ mMixer /\ mItem # None =>
    \/ slider = mItem
    \/ \E i \in 1 .. Len(requests) :
         requests[i] = Setting("set_volume", drawn, slider)

KnowledgeInv == Unsubscribed /\ Current /\ SliderFollows

LEMMA KnowledgeInit == Init => KnowledgeInv
  BY DEF Init, PulseInit, KnowledgeInv, Unsubscribed, Current, SliderFollows

\* Nothing is known without a connection.
LEMMA LostKnows == ASSUME connection' # "up" PROVE KnowledgeInv'
  BY DEF KnowledgeInv, Unsubscribed, Current, SliderFollows

\* Popups close, or stay as they are.
LEMMA SteadyKnows ==
  ASSUME KnowledgeInv,
         UNCHANGED <<there, requests, inbox, refreshing, knowledge, mItem, drawn>>,
         mMixer' => mMixer /\ slider' = slider
  PROVE  KnowledgeInv'
<1>1. Stale' <=> Stale
  BY DEF Stale, Has, there, refreshing
<1>2. Unsubscribed'
  BY DEF KnowledgeInv, Unsubscribed, Has, there, refreshing
<1>3. Current'
  BY <1>1 DEF KnowledgeInv, Current, Under, Has, there, refreshing, knowledge
<1>4. SliderFollows'
  BY <1>1 DEF KnowledgeInv, SliderFollows, there, refreshing
<1> QED BY <1>2, <1>3, <1>4 DEF KnowledgeInv

LEMMA LeftClickKnows ==
  ASSUME FetchInv, PopupInv, KnowledgeInv, LeftClickVolume
  PROVE  KnowledgeInv'
<1>1. /\ UNCHANGED <<there, requests, inbox, refreshing, knowledge, mItem, drawn>>
      /\ slider' = mDevices[DefaultDevice]
  BY DEF LeftClickVolume, OpenMixer, SetColumn, pulse
<1>2. Stale' <=> Stale
  BY <1>1 DEF Stale, Has, there, refreshing
<1>3. Unsubscribed'
  BY <1>1 DEF KnowledgeInv, Unsubscribed, Has, there, refreshing
<1>4. Current'
  BY <1>1, <1>2 DEF KnowledgeInv, Current, Under, Has, there, refreshing, knowledge
<1>5. mItem # None /\ (drawn = DefaultDevice \/ mRefreshing)
  BY ItemShown DEF LeftClickVolume
<1>6. ~mRefreshing => mItem = mDevices[DefaultDevice]
  BY <1>5 DEF FetchInv, Drawn
<1>7. SliderFollows'
  BY <1>1, <1>2, <1>6 DEF SliderFollows, refreshing
<1> QED BY <1>3, <1>4, <1>7 DEF KnowledgeInv

\* Two requests in a row stay so when others follow.
LEMMA ExtendedUnsubscribed ==
  ASSUME \A i \in 1 .. Len(requests) : i \in 1 .. Len(requests') /\ requests'[i] = requests[i],
         NEW i \in 1 .. Len(requests), NEW j \in 1 .. Len(requests),
         i < j, requests[i].kind = "subscribe", requests[j].kind = "server"
  PROVE  \E k, l \in 1 .. Len(requests') :
           k < l /\ requests'[k].kind = "subscribe" /\ requests'[l].kind = "server"
  OBVIOUS

\* What the tray sends when it reads comes after what it had sent.
LEMMA ReadingExtends ==
  ASSUME FetchInv, Ready \/ Event \/ ServerInfo \/ DevicesDone \/ RefreshDone
  PROVE  \A i \in 1 .. Len(requests) : i \in 1 .. Len(requests') /\ requests'[i] = requests[i]
<1>1. Sequences /\ connection = "up"
  BY ReadingSends DEF FetchInv
<1>2. CASE requests' = requests
  BY <1>2
<1>3. CASE \E k \in Fetch \cup {"subscribe"} : Sends(<<Message(k)>>)
  BY <1>1, <1>3, SendsFacts
<1>4. CASE Sends(<<Message("subscribe"), Message("server")>>)
  BY <1>1, <1>4, SendsBothFacts
<1> QED BY <1>2, <1>3, <1>4, ReadingSends

LEMMA ReadingUnsubscribed ==
  ASSUME FetchInv, KnowledgeInv, Ready \/ Event \/ ServerInfo \/ DevicesDone \/ RefreshDone
  PROVE  Unsubscribed'
<1> SUFFICES ASSUME ~subscribed
             PROVE  /\ ~announce
                    /\ \E k, l \in 1 .. Len(requests') :
                         k < l /\ requests'[k].kind = "subscribe" /\ requests'[l].kind = "server"
  BY ReadingSends DEF Unsubscribed, there
<1>1. connection = "up" /\ ~announce
  BY ReadingSends DEF KnowledgeInv, Unsubscribed
<1>2. CASE \E i, j \in 1 .. Len(requests) :
              i < j /\ requests[i].kind = "subscribe" /\ requests[j].kind = "server"
  BY <1>1, <1>2, ReadingExtends, ExtendedUnsubscribed
<1>3. CASE inbox = <<Message("ready")>> /\ ~mRefreshing
  <2>1. Head(inbox).kind = "ready"
    BY <1>3 DEF Message
  <2>2. Ready
    BY <2>1 DEF Event, ServerInfo, DevicesDone, RefreshDone, Reads
  <2>3. Refresh(<<"subscribe">>) /\ Sequences
    BY <2>2 DEF Ready, FetchInv
  <2>4. Sends(<<Message("subscribe"), Message("server")>>)
    <3> PICK others \in {<<>>, <<"subscribe">>} : others = <<"subscribe">>
      OBVIOUS
    <3> QED BY <2>3, <1>1, <1>3, RefreshFacts
  <2> DEFINE n == Len(requests)
  <2>5. /\ n \in Nat /\ Len(requests') = n + 2
        /\ requests'[n + 1] = Message("subscribe") /\ requests'[n + 2] = Message("server")
    BY <2>3, <2>4, <1>1, SendsBothFacts
  <2>6. requests'[n + 1].kind = "subscribe" /\ requests'[n + 2].kind = "server"
    BY <2>5 DEF Message
  <2>7. n + 1 \in 1 .. Len(requests') /\ n + 2 \in 1 .. Len(requests') /\ n + 1 < n + 2
    BY <2>5
  <2> HIDE DEF n
  <2> QED BY <1>1, <2>6, <2>7
<1> QED BY <1>1, <1>2, <1>3 DEF KnowledgeInv, Unsubscribed

\* A new refresh is coming, or another after it.
LEMMA AskingKnows ==
  ASSUME FetchInv, KnowledgeInv, Ready \/ Event
  PROVE  KnowledgeInv'
<1>1. Unsubscribed'
  BY ReadingUnsubscribed
<1>2. Sequences /\ connection = "up"
  BY ReadingSends DEF FetchInv
<1>3. PICK others \in {<<>>, <<"subscribe">>} : Refresh(others)
  BY DEF Ready, Event
<1>4. mRefreshAgain' \/ Has(requests', "server")
  <2>1. CASE Sends(<<Message("server")>>)
    <3> DEFINE m == Message("server")
    <3>1. m.kind = "server"
      BY DEF Message
    <3> QED BY <3>1, <2>1, <1>2, SendsFacts
  <2>2. CASE Sends(<<Message("subscribe"), Message("server")>>)
    BY <2>2, <1>2, SendsBothFacts
  <2> QED BY <1>2, <1>3, <2>1, <2>2, RefreshFacts
<1>5. Stale'
  BY <1>4 DEF Stale
<1> QED BY <1>1, <1>5 DEF KnowledgeInv, Current, SliderFollows

\* A reply read that is as the server is.
LEMMA ReplyKnows ==
  ASSUME FetchInv, Levels, PopupInv, KnowledgeInv, ServerInfo \/ DevicesDone \/ RefreshDone,
         RefreshDone => UpdateMixer,
         ~RefreshDone => UNCHANGED popups
  PROVE  KnowledgeInv'
<1>1. Unsubscribed' /\ connection = "up" /\ Sequences /\ OneFetch /\ UNCHANGED there
  BY ReadingUnsubscribed, ReadingSends DEF FetchInv
<1>2. PICK kind \in Fetch :
        /\ Reads(kind)
        /\ kind = "server" => ServerInfo
        /\ kind = "devices" => DevicesDone
        /\ kind = "streams" => RefreshDone
  BY DEF ServerInfo, DevicesDone, RefreshDone, Fetch, Reads
<1>9. Reads(kind)
  BY <1>2
<1>10. 1 \in 1 .. Len(inbox) /\ Head(inbox) = inbox[1] /\ inbox[1].kind = kind
  BY <1>9, ReadsFacts
<1>11. \A i \in 1 .. Len(inbox') : i + 1 \in 1 .. Len(inbox) /\ inbox'[i] = inbox[i + 1]
  BY <1>9, ReadsFacts
<1>12. ~Fetching(inbox') /\ Fetching(inbox)
  BY <1>9, ReadsFacts
<1>13. \A k : Has(inbox, k) <=> (kind = k \/ Has(inbox', k))
  BY <1>9, ReadsFacts
<1>3. /\ 1 \in 1 .. Len(inbox) /\ Head(inbox) = inbox[1] /\ inbox[1].kind = kind
      /\ ~Fetching(inbox') /\ Fetching(inbox)
      /\ \A k : Has(inbox, k) <=> (kind = k \/ Has(inbox', k))
  BY <1>10, <1>12, <1>13
<1>4. ~Fetching(requests) /\ mRefreshing
  BY <1>1, <1>3 DEF OneFetch
<1>5. /\ \A k \in Fetch : ~Has(inbox', k) /\ ~Has(requests, k)
      /\ Has(inbox, kind)
  BY <1>3, <1>4 DEF Has, Fetching
<1>6. \A i \in 1 .. Len(inbox') : inbox'[i].kind \notin Fetch
  BY <1>3 DEF Fetching
<1>7. CASE kind \in {"server", "devices"}
  <2>1. PICK next \in {"devices", "streams"} :
          /\ Asks(<<next>>) /\ mRefreshing' = mRefreshing /\ mRefreshAgain' = mRefreshAgain
          /\ next = IF kind = "server" THEN "devices" ELSE "streams"
    <3>1. CASE ServerInfo /\ kind = "server"
      BY <3>1 DEF ServerInfo, refreshing
    <3>2. CASE DevicesDone /\ kind = "devices"
      BY <3>2 DEF DevicesDone, refreshing
    <3> QED BY <3>1, <3>2, <1>2, <1>7
  <2>2. Sends(<<Message(next)>>)
    BY <2>1, <1>1, AsksFacts DEF Fetch
  <2> DEFINE m == Message(next)
  <2>3. m.kind = next
    BY DEF Message
  <2> HIDE DEF m
  <2>4. \A k : Has(requests', k) <=> (Has(requests, k) \/ next = k)
    BY <2>2, <2>3, <1>1, SendsFacts DEF m
  <2>5. Stale' <=> Stale
    BY <2>1, <2>4, <1>1, <1>3, <1>7 DEF Stale, there
  <2>6. mRefreshing'
    BY <2>1, <1>4
  <2>7. Current'
    <3> SUFFICES ASSUME ~Stale
                 PROVE  /\ mDefaultDevice' = server.default
                        /\ Under("streams")' => mDevices' = server.level
      BY <1>1, <1>6, <2>5, <2>6 DEF Current, there, Fetch
    <3>1. CASE kind = "server"
      <4>1. mDefaultDevice' = inbox[1].server.default
        <5>1. ServerInfo
          BY <3>1, <1>2
        <5> QED BY <5>1, <1>10 DEF ServerInfo
      <4>2. mDefaultDevice' = server.default
        BY <4>1, <3>1, <1>1, <1>3 DEF KnowledgeInv, Current
      <4>3. ~Under("streams")'
        BY <3>1, <1>5, <2>1, <2>4 DEF Under, Fetch
      <4> QED BY <4>2, <4>3
    <3>2. CASE kind = "devices"
      <4>1. mDevices' = inbox[1].server.level /\ mDefaultDevice' = mDefaultDevice
        <5>1. DevicesDone
          BY <3>2, <1>2
        <5> QED BY <5>1, <1>10 DEF DevicesDone
      <4>2. Under("devices")
        BY <3>2, <1>5 DEF Under
      <4> QED BY <4>1, <4>2, <3>2, <1>1, <1>3 DEF KnowledgeInv, Current
    <3> QED BY <3>1, <3>2, <1>7
  <2> QED BY <1>1, <2>6, <2>7 DEF KnowledgeInv, SliderFollows
<1>8. CASE kind = "streams"
  <2>1. /\ RefreshDone /\ UpdateMixer
        /\ mStreams' = Counted(inbox[1].server.streams) /\ UNCHANGED <<mDefaultDevice, mDevices>>
        /\ mRefreshing' = mRefreshAgain /\ mRefreshAgain' = FALSE
        /\ Asks(IF mRefreshAgain THEN <<"server">> ELSE <<>>)
        /\ UNCHANGED mDirection
    <3>1. RefreshDone
      BY <1>2, <1>8
    <3> QED BY <3>1, <1>10 DEF RefreshDone
  <2>2. CASE mRefreshAgain
    <3>1. Sends(<<Message("server")>>)
      BY <2>1, <2>2, <1>1, AsksFacts DEF Fetch
    <3> DEFINE m == Message("server")
    <3>2. m.kind = "server"
      BY DEF Message
    <3>3. Has(requests', "server")
      BY <3>1, <3>2, <1>1, SendsFacts
    <3> QED BY <3>3, <1>1 DEF KnowledgeInv, Current, SliderFollows, Stale
  <2>3. CASE ~mRefreshAgain
    <3>1. requests' = requests
      BY <2>1, <2>3, <1>1, AsksFacts
    <3>2. Stale' <=> Stale
      BY <3>1, <2>1, <2>3, <1>1, <1>3, <1>8 DEF Stale, there, Has
    <3>3. ASSUME ~Stale
          PROVE  /\ mDefaultDevice' = server.default /\ mDevices' = server.level
                 /\ mStreams' = {s \in Stream : server.streams[s] # None}
      <4>1. Under("streams")
        BY <1>5, <1>8 DEF Under
      <4>2. /\ inbox[1].server.streams = server.streams
            /\ mDefaultDevice = server.default /\ mDevices = server.level
        BY <3>3, <4>1, <1>1, <1>3, <1>8 DEF KnowledgeInv, Current
      <4>3. mStreams' = Counted(server.streams)
        BY <2>1, <4>2
      <4>4. \A s \in Stream : server.streams[s] # None => server.streams[s] \in Present(mDevices)
        BY <4>2 DEF Levels, ServerOK, Present
      <4> QED BY <2>1, <4>2, <4>3, <4>4 DEF Counted
    <3>4. Current'
      BY <3>2, <3>3, <1>1, <1>6 DEF Current, there, Fetch
    <3>5. SliderFollows'
      BY <2>1 DEF UpdateMixer, SetColumn, SliderFollows, PopupInv
    <3> QED BY <3>4, <3>5, <1>1 DEF KnowledgeInv
  <2> QED BY <2>2, <2>3
<1> QED BY <1>7, <1>8 DEF Fetch

\* What the user sets is sent after the rest.
LEMMA SetsKnows ==
  ASSUME FetchInv, PopupInv, KnowledgeInv, ScrollVolume \/ DragSlider \/ ChooseEntry
  PROVE  KnowledgeInv'
<1>1. CASE connection # "up"
  <2>1. connection' # "up"
    BY <1>1 DEF ScrollVolume, Scroll, DragSlider, ChooseEntry, SetPercent, ChooseDevice, there
  <2> QED BY <2>1, LostKnows
<1>2. CASE connection = "up"
  <2>1. PICK m : /\ Sends(<<m>>) /\ m.kind \in {"set_volume", "set_default"}
                 /\ UNCHANGED <<there, inbox, refreshing, knowledge, mItem, drawn>>
                 /\ DragSlider => m = Setting("set_volume", DefaultDevice, slider')
    <3>1. ASSUME NEW l, SetPercent(l), DragSlider => l = slider'
          PROVE  \E m : /\ Sends(<<m>>) /\ m.kind \in {"set_volume", "set_default"}
                        /\ UNCHANGED <<there, inbox, refreshing, knowledge, mItem, drawn>>
                        /\ DragSlider => m = Setting("set_volume", DefaultDevice, slider')
      <4> DEFINE m == Setting("set_volume", DefaultDevice, l)
      <4>1. Sends(<<m>>) /\ UNCHANGED <<there, inbox, refreshing, knowledge, mItem, drawn>>
        BY <3>1 DEF SetPercent
      <4>2. m.kind = "set_volume"
        BY DEF Setting
      <4>3. DragSlider => m = Setting("set_volume", DefaultDevice, slider')
        BY <3>1
      <4> HIDE DEF m
      <4> QED BY <4>1, <4>2, <4>3
    <3>2. CASE DragSlider
      <4>1. PICK l : SetPercent(l) /\ slider' = l
        BY <3>2 DEF DragSlider
      <4> QED BY <4>1, <3>1
    <3>3. CASE ~DragSlider /\ ScrollVolume
      <4>1. PICK l : SetPercent(l)
        BY <3>3 DEF ScrollVolume, Scroll
      <4> QED BY <4>1, <3>1, <3>3
    <3>4. CASE ~DragSlider /\ ChooseEntry
      <4>1. PICK n : ChooseDevice(n)
        BY <3>4 DEF ChooseEntry
      <4> DEFINE m == Setting("set_default", mMenuDevices[n], None)
      <4>2. Sends(<<m>>) /\ UNCHANGED <<there, inbox, refreshing, knowledge, mItem, drawn>>
        BY <4>1 DEF ChooseDevice
      <4>3. m.kind = "set_default"
        BY DEF Setting
      <4> HIDE DEF m
      <4> QED BY <4>2, <4>3, <3>4
    <3> QED BY <3>2, <3>3, <3>4
  <2>2. /\ Sequences
        /\ \A i \in 1 .. Len(requests) : i \in 1 .. Len(requests') /\ requests'[i] = requests[i]
        /\ \A k : Has(requests', k) <=> (Has(requests, k) \/ m.kind = k)
        /\ Len(requests') \in 1 .. Len(requests') /\ requests'[Len(requests')] = m
    <3>1. Sequences
      BY DEF FetchInv
    <3>2. /\ \A i \in 1 .. Len(requests) : i \in 1 .. Len(requests') /\ requests'[i] = requests[i]
          /\ \A k : Has(requests', k) <=> (Has(requests, k) \/ m.kind = k)
          /\ Len(requests) \in Nat /\ Len(requests') = Len(requests) + 1
          /\ requests'[Len(requests')] = m
      BY <2>1, <1>2, <3>1, SendsFacts
    <3> QED BY <3>1, <3>2
  <2>3. /\ UNCHANGED <<connection, subscribed, announce, server, mRefreshing, mRefreshAgain,
                       mDefaultDevice, mDevices, mStreams, inbox, mItem, drawn>>
    BY <2>1 DEF there, refreshing, knowledge
  <2>4. /\ Has(requests', "server") <=> Has(requests, "server")
        /\ Has(requests', "devices") <=> Has(requests, "devices")
        /\ Has(requests', "streams") <=> Has(requests, "streams")
        /\ Has(requests', "subscribe") <=> Has(requests, "subscribe")
    BY <2>1, <2>2
  <2>5. Stale' <=> Stale
    BY <2>3, <2>4 DEF Stale, Has
  <2>6. Unsubscribed'
    <3> SUFFICES ASSUME ~subscribed
                 PROVE  /\ ~announce
                        /\ \/ inbox = <<Message("ready")>> /\ ~mRefreshing
                                /\ ~Has(requests, "subscribe")
                           \/ \E k, l \in 1 .. Len(requests') :
                                k < l /\ requests'[k].kind = "subscribe"
                                      /\ requests'[l].kind = "server"
      BY <2>3, <2>4 DEF Unsubscribed
    <3>1. CASE \E i, j \in 1 .. Len(requests) :
                  i < j /\ requests[i].kind = "subscribe" /\ requests[j].kind = "server"
      BY <3>1, <1>2, <2>2, ExtendedUnsubscribed DEF KnowledgeInv, Unsubscribed
    <3> QED BY <3>1, <1>2 DEF KnowledgeInv, Unsubscribed
  <2>7. Current'
    <3>1. /\ Under("devices")' <=> Under("devices")
          /\ Under("streams")' <=> Under("streams")
      BY <2>3, <2>4 DEF Under
    <3> QED BY <3>1, <2>3, <2>5 DEF KnowledgeInv, Current
  <2>8. SliderFollows'
    <3> SUFFICES ASSUME ~Stale, ~mRefreshing, mMixer', mItem # None
                 PROVE  \/ slider' = mItem
                        \/ \E i \in 1 .. Len(requests') :
                             requests'[i] = Setting("set_volume", drawn, slider')
      BY <2>3, <2>5 DEF SliderFollows
    <3>1. CASE DragSlider
      <4>1. drawn = DefaultDevice
        BY <3>1, ItemShown DEF DragSlider
      <4> QED BY <4>1, <3>1, <2>1, <2>2
    <3>2. CASE ScrollVolume
      <4>1. UNCHANGED <<mMixer, slider>>
        BY <3>2 DEF ScrollVolume, popups
      <4>2. \/ slider = mItem
            \/ \E i \in 1 .. Len(requests) : requests[i] = Setting("set_volume", drawn, slider)
        BY <4>1, <1>2 DEF KnowledgeInv, SliderFollows
      <4> QED BY <4>1, <4>2, <2>2
    <3>3. CASE ChooseEntry
      BY <3>3 DEF ChooseEntry, ClosePopups, CloseMixer
    <3> QED BY <3>1, <3>2, <3>3
  <2> QED BY <2>6, <2>7, <2>8 DEF KnowledgeInv
<1> QED BY <1>1, <1>2

\* An event is coming.
LEMMA StaleKnows ==
  ASSUME FetchInv, KnowledgeInv, Accept \/ Announce \/ Change \/ Lose
  PROVE  KnowledgeInv'
<1>1. CASE Lose
  BY <1>1, LostKnows DEF Lose
<1>2. CASE Accept
  <2>1. /\ ~announce /\ ~subscribed /\ ~mRefreshing /\ requests = <<>>
        /\ UNCHANGED <<subscribed, announce, requests, mRefreshing>>
        /\ inbox' = <<Message("ready")>>
    BY <1>2 DEF Accept, FetchInv, Connection, tray, refreshing
  <2>2. ~Has(requests', "subscribe")
    BY <2>1, EmptyFacts
  <2> QED BY <2>1, <2>2 DEF KnowledgeInv, Unsubscribed, Current, SliderFollows, Stale
<1>3. CASE Announce
  <2>1. PICK S : inbox \in Seq(S)
    BY DEF FetchInv, Sequences
  <2> DEFINE m == Message("event")
  <2>2. m.kind = "event"
    BY DEF Message
  <2>3. /\ announce /\ inbox' = Append(inbox, m) /\ UNCHANGED <<connection, subscribed>>
    BY <1>3 DEF Announce
  <2> HIDE DEF m
  <2>4. Has(inbox', "event")
    BY <2>1, <2>2, <2>3, AppendFacts
  <2>5. connection = "up" => subscribed
    BY <2>3 DEF KnowledgeInv, Unsubscribed
  <2> QED BY <2>3, <2>4, <2>5 DEF KnowledgeInv, Unsubscribed, Current, SliderFollows, Stale
<1>4. CASE Change
  <2>1. /\ announce' = subscribed
        /\ UNCHANGED <<connection, subscribed, requests, inbox, mRefreshing>>
    BY <1>4 DEF Change, tray, refreshing
  <2>2. Stale'
    BY <2>1 DEF Stale, FetchInv, Sequences
  <2>3. Unsubscribed'
    BY <2>1 DEF KnowledgeInv, Unsubscribed, Has
  <2> QED BY <2>2, <2>3 DEF KnowledgeInv, Current, SliderFollows
<1> QED BY <1>1, <1>2, <1>3, <1>4

LEMMA ServeKnows ==
  ASSUME FetchInv, Levels, KnowledgeInv, Serve, UNCHANGED popups
  PROVE  KnowledgeInv'
<1>1. PICK m : m = Head(requests)
  OBVIOUS
<1>2. /\ requests # <<>> /\ requests' = Tail(requests)
      /\ \/ m.kind = "subscribe" /\ subscribed' = TRUE /\ UNCHANGED <<server, announce, inbox>>
         \/ /\ m.kind \in Fetch
            /\ inbox' = Append(inbox, Reply(m)) /\ UNCHANGED <<server, subscribed, announce>>
         \/ /\ m.kind \in {"set_volume", "set_default"}
            /\ server' = After(m)
            /\ announce' = (announce \/ (subscribed /\ server' # server))
            /\ UNCHANGED <<subscribed, inbox>>
  BY <1>1 DEF Serve, Fetch
<1>3. /\ UNCHANGED <<connection, mRefreshing, mRefreshAgain, mDefaultDevice, mDevices, mStreams,
                     mItem, drawn, mMixer, slider>>
  BY DEF Serve, tray, refreshing, knowledge, popups
<1>4. connection = "up" /\ connection' = "up" /\ Sequences /\ OneFetch
  BY <1>2, <1>3 DEF FetchInv, Connection
<1>5. PICK S : requests \in Seq(S)
  BY <1>4 DEF Sequences
<1>6. PICK T : inbox \in Seq(T)
  BY <1>4 DEF Sequences
<1>7. /\ Len(requests) \in Nat \ {0} /\ requests[1] = m
      /\ \A i \in 1 .. Len(requests) :
           i = 1 \/ (i - 1 \in 1 .. Len(requests') /\ requests'[i - 1] = requests[i])
      /\ \A k : Has(requests, k) <=> (m.kind = k \/ Has(requests', k))
      /\ m.kind \in Fetch => ~Fetching(requests')
      /\ Fetching(requests) <=> (m.kind \in Fetch \/ Fetching(requests'))
  BY <1>1, <1>2, <1>4, <1>5, RestFacts DEF OneFetch
\* What was sent first is served first.
<1>8. Unsubscribed'
  <2> SUFFICES ASSUME ~subscribed'
               PROVE  /\ ~announce'
                      /\ \/ inbox' = <<Message("ready")>> /\ ~mRefreshing
                              /\ ~Has(requests', "subscribe")
                         \/ \E k, l \in 1 .. Len(requests') :
                              k < l /\ requests'[k].kind = "subscribe"
                                    /\ requests'[l].kind = "server"
    BY <1>3 DEF Unsubscribed
  <2>1. ~subscribed /\ m.kind # "subscribe" /\ ~announce
    BY <1>2, <1>4 DEF KnowledgeInv, Unsubscribed, Fetch
  <2>2. ~announce'
    BY <1>2, <2>1
  <2>3. CASE inbox = <<Message("ready")>> /\ ~mRefreshing /\ ~Has(requests, "subscribe")
    <3>1. ~Fetching(requests)
      BY <2>3, <1>4 DEF OneFetch
    <3>2. m.kind \notin Fetch
      BY <3>1, <1>7
    <3>3. inbox' = inbox
      BY <3>2, <1>2
    <3> QED BY <2>2, <2>3, <3>3, <1>7
  <2>4. ASSUME NEW i \in 1 .. Len(requests), NEW j \in 1 .. Len(requests), i < j,
               requests[i].kind = "subscribe", requests[j].kind = "server"
        PROVE  \E k, l \in 1 .. Len(requests') :
                 k < l /\ requests'[k].kind = "subscribe" /\ requests'[l].kind = "server"
    <3>1. i # 1
      BY <2>1, <2>4, <1>7
    <3>2. j # 1
      BY <2>4, <1>7
    <3>3. i - 1 \in 1 .. Len(requests') /\ requests'[i - 1].kind = "subscribe"
      BY <3>1, <2>4, <1>7
    <3>4. j - 1 \in 1 .. Len(requests') /\ requests'[j - 1].kind = "server"
      BY <3>2, <2>4, <1>7
    <3>5. i - 1 < j - 1
      BY <2>4
    <3> QED BY <3>3, <3>4, <3>5
  <2> QED BY <2>1, <2>2, <2>3, <2>4, <1>4 DEF KnowledgeInv, Unsubscribed
<1>9. CASE m.kind \in Fetch
  <2>1. /\ inbox' = Append(inbox, Reply(m)) /\ UNCHANGED <<server, subscribed, announce>>
    BY <1>2, <1>9 DEF Fetch
  <2>2. ~Fetching(requests') /\ ~Fetching(inbox) /\ mRefreshing
    BY <1>4, <1>7, <1>9 DEF OneFetch
  <2>3. PICK r : r = Reply(m)
    OBVIOUS
  <2>4. r.kind = m.kind /\ r.server = server
    BY <2>3 DEF Reply
  <2>5. /\ \A i \in 1 .. Len(inbox') : (i \in 1 .. Len(inbox) /\ inbox'[i] = inbox[i]) \/ inbox'[i] = r
        /\ \A k : Has(inbox', k) <=> (Has(inbox, k) \/ m.kind = k)
    <3>1. inbox' = Append(inbox, r)
      BY <2>1, <2>3
    <3> QED BY <3>1, <2>4, <1>6, AppendFacts
  <2>6. \A k \in Fetch : ~Has(requests', k) /\ (Has(inbox', k) <=> k = m.kind)
    BY <2>2, <2>5 DEF Has, Fetching
  <2>7. SliderFollows'
    BY <1>3, <2>2 DEF SliderFollows
  <2>8. \A i \in 1 .. Len(inbox') : inbox'[i].kind \in Fetch => inbox'[i] = r
    BY <2>2, <2>5 DEF Fetching
  <2>9. Current'
    <3> SUFFICES ASSUME ~Stale'
                 PROVE  /\ m.kind \in {"devices", "streams"} => mDefaultDevice = server.default
                        /\ m.kind = "streams" => mDevices = server.level
      BY <1>3, <2>1, <2>2, <2>4, <2>6, <2>8 DEF Current, Under, Fetch
    <3>1. CASE m.kind # "server"
      <4>1. ~Stale
        <5>1. Has(inbox', "event") <=> Has(inbox, "event")
          BY <2>5, <1>9 DEF Fetch
        <5>2. Has(requests', "server") <=> Has(requests, "server")
          BY <1>7, <3>1
        <5> QED BY <5>1, <5>2, <1>3, <2>1 DEF Stale
      <4>2. Under(m.kind)
        BY <1>7 DEF Under
      <4> QED BY <4>1, <4>2, <1>4 DEF KnowledgeInv, Current
    <3> QED BY <3>1
  <2> QED BY <1>8, <2>7, <2>9 DEF KnowledgeInv
<1>10. CASE m.kind \notin Fetch /\ UNCHANGED inbox
  <2>1. /\ Has(requests', "server") <=> Has(requests, "server")
        /\ Has(requests', "devices") <=> Has(requests, "devices")
        /\ Has(requests', "streams") <=> Has(requests, "streams")
    BY <1>7, <1>10 DEF Fetch
  <2>2. /\ Under("devices")' <=> Under("devices")
        /\ Under("streams")' <=> Under("streams")
    BY <2>1, <1>10 DEF Under, Has
  <2>3. ASSUME ~Stale' PROVE ~Stale /\ server' = server
    <3>1. Has(inbox', "event") <=> Has(inbox, "event")
      BY <1>10 DEF Has
    <3>2. subscribed
      <4> SUFFICES ASSUME ~subscribed, m.kind = "subscribe" PROVE FALSE
        BY <2>3, <1>2, <1>10 DEF Stale
      <4>1. 1 \in 1 .. Len(requests) /\ requests[1].kind = "subscribe"
        BY <1>7
      <4>2. Has(requests, "subscribe")
        BY <4>1 DEF Has
      <4>3. Has(requests, "server")
        BY <4>2, <1>4 DEF KnowledgeInv, Unsubscribed, Has
      <4> QED BY <4>3, <2>1, <2>3 DEF Stale
    <3>3. ~announce /\ server' = server
      <4>1. ~announce'
        BY <2>3 DEF Stale
      <4>2. CASE m.kind = "subscribe"
        BY <4>1, <4>2, <1>2 DEF Fetch
      <4>3. CASE m.kind \in {"set_volume", "set_default"}
        <5>1. announce' = (announce \/ (subscribed /\ server' # server))
          BY <4>3, <1>2 DEF Fetch
        <5> QED BY <5>1, <4>1, <3>2
      <4> QED BY <4>2, <4>3, <1>2, <1>10
    <3> QED BY <3>1, <3>2, <3>3, <2>1, <2>3, <1>3 DEF Stale
  <2>4. Current'
    BY <2>2, <2>3, <1>3, <1>4, <1>10 DEF KnowledgeInv, Current
  <2>5. SliderFollows'
    <3> SUFFICES ASSUME ~Stale', ~mRefreshing, mMixer, mItem # None
                 PROVE  \/ slider = mItem
                        \/ \E i \in 1 .. Len(requests') :
                             requests'[i] = Setting("set_volume", drawn, slider)
      BY <1>3 DEF SliderFollows
    <3>1. ~Stale /\ server' = server
      BY <2>3
    <3>2. \/ slider = mItem
          \/ \E i \in 1 .. Len(requests) : requests[i] = Setting("set_volume", drawn, slider)
      BY <3>1, <1>4 DEF KnowledgeInv, SliderFollows
    \* The level has been set, and nothing has changed.
    <3>3. CASE m = Setting("set_volume", drawn, slider)
      <4>1. m.kind = "set_volume" /\ m.device = drawn /\ m.level = slider
        BY <3>3 DEF Setting
      <4>2. mDevices = server.level
        BY <3>1, <1>4 DEF KnowledgeInv, Current
      <4>3. drawn # None /\ mItem = mDevices[drawn] /\ drawn = DefaultOf(mDefaultDevice, mDevices)
        BY DEF FetchInv, Drawn, NoItem, ItemOf
      <4>4. drawn \in Present(server.level) /\ drawn \in Device
        BY <4>2, <4>3, DefaultFacts DEF Levels
      <4>5. server = After(m)
        BY <3>1, <4>1, <1>2 DEF Fetch
      <4>6. server = [server EXCEPT !.level[drawn] = slider]
        BY <4>1, <4>4, <4>5 DEF After
      <4>7. /\ server = [default |-> server.default, level |-> server.level,
                         streams |-> server.streams]
            /\ server.level \in LevelsOf
        BY DEF Levels, ServerOK
      <4>8. server.level[drawn] = slider
        BY <4>4, <4>6, <4>7 DEF LevelsOf
      <4> QED BY <4>2, <4>3, <4>8
    <3>4. ASSUME NEW i \in 1 .. Len(requests), requests[i] = Setting("set_volume", drawn, slider),
                 m # Setting("set_volume", drawn, slider)
          PROVE  \E j \in 1 .. Len(requests') :
                   requests'[j] = Setting("set_volume", drawn, slider)
      <4>1. i # 1
        BY <3>4, <1>7
      <4> QED BY <4>1, <3>4, <1>7
    <3> QED BY <3>2, <3>3, <3>4
  <2> QED BY <1>8, <2>4, <2>5 DEF KnowledgeInv
<1>11. m.kind \in Fetch \/ UNCHANGED inbox
  BY <1>2
<1> QED BY <1>9, <1>10, <1>11

LEMMA KnowledgeStep ==
  FetchInv /\ PopupInv /\ Levels /\ KnowledgeInv /\ [Next]_vars => KnowledgeInv'
<1> SUFFICES ASSUME FetchInv, PopupInv, Levels, KnowledgeInv, [Next]_vars PROVE KnowledgeInv'
  OBVIOUS
<1>1. CASE Elsewhere
  BY <1>1, ServeKnows, StaleKnows DEF Elsewhere, ServerNext
<1>2. CASE SoundNext
  <2>1. CASE Failed
    <3>1. Reads("failed") /\ UNCHANGED connection
      BY <2>1 DEF Failed, there
    <3>2. Has(inbox, "failed")
      BY <3>1, ReadsFacts
    <3>3. connection' # "up"
      BY <3>1, <3>2 DEF FetchInv, Connection
    <3> QED BY <3>3, LostKnows
  <2>2. CASE Ready \/ Event
    BY <2>2, AskingKnows
  <2>3. CASE (ServerInfo \/ DevicesDone) /\ UNCHANGED popups
    <3>1. ~RefreshDone
      BY <2>3 DEF ServerInfo, DevicesDone, RefreshDone, Reads
    <3> QED BY <2>3, <3>1, ReplyKnows
  <2>4. CASE RefreshDone /\ UpdateMixer
    BY <2>4, ReplyKnows
  <2> QED BY <1>2, <2>1, <2>2, <2>3, <2>4 DEF SoundNext
<1>3. CASE HandleInput
  <2>1. CASE mReconnect
    <3>1. connection' # "up"
      BY <1>3, <2>1 DEF HandleInput, Reconnect
    <3> QED BY <3>1, LostKnows
  <2>2. CASE ~mReconnect
    <3>1. UNCHANGED pulse
      BY <1>3, <2>2 DEF HandleInput, Reconnect
    <3>2. mMixer' => mMixer /\ slider' = slider
      BY <1>3 DEF HandleInput, Relayout, CloseMixer, popups
    <3> QED BY <3>1, <3>2, SteadyKnows DEF pulse
  <2> QED BY <2>1, <2>2
<1>4. CASE LeftClickVolume
  BY <1>4, LeftClickKnows
<1>5. CASE ScrollVolume \/ DragSlider \/ ChooseEntry
  BY <1>5, SetsKnows
<1>6. CASE ClickNotch \/ ClickBar \/ ClickOwner \/ ClickNotifier
  <2>1. ClosePopups /\ UNCHANGED pulse
    BY <1>6 DEF ClickNotch, ClickBar, ClickOwner, ClickNotifier
  <2> QED BY <2>1, SteadyKnows DEF ClosePopups, CloseMixer, pulse
<1>7. CASE \/ RightClickVolume \/ LayoutReply \/ LayoutError \/ ItemAdded \/ ItemRemoved
           \/ PropertiesReply \/ Poll \/ UNCHANGED vars
  <2>1. UNCHANGED <<there, requests, inbox, refreshing, knowledge, mItem, drawn>>
    BY <1>7 DEF RightClickVolume, LayoutReply, LayoutError, ItemAdded, ItemRemoved,
                PropertiesReply, Poll, vars, pulse, tray
  <2>2. mMixer' => mMixer /\ slider' = slider
    BY <1>7 DEF RightClickVolume, LayoutReply, LayoutError, ItemAdded, ItemRemoved,
                PropertiesReply, Poll, vars, popups, ShowMenu, CloseMixer
  <2> QED BY <2>1, <2>2, SteadyKnows
<1> QED BY <1>1, <1>2, <1>3, <1>4, <1>5, <1>6, <1>7 DEF Next, LoopNext

LEMMA KnowledgeInvariant == Spec => [](FetchInv /\ PopupInv /\ Levels /\ KnowledgeInv)
<1> DEFINE I == FetchInv /\ PopupInv /\ Levels /\ KnowledgeInv
<1>1. Init => I
  BY FetchInit, PopupInit, LevelsInit, KnowledgeInit
<1>2. I /\ [Next]_vars => I'
  BY FetchStep, PopupStep, LevelsStep, KnowledgeStep
<1> QED BY <1>1, <1>2, PTL DEF Spec

\* When the sound server and the tray have nothing to say to each other, the tray's items, and
\* an open mixer's slider, are as the server has them.
THEOREM VolumeFollowsHolds == Spec => []VolumeFollows
<1>1. FetchInv /\ PopupInv /\ Levels /\ KnowledgeInv => VolumeFollows
  <2> SUFFICES ASSUME FetchInv, KnowledgeInv, Quiet PROVE Agrees
    BY DEF VolumeFollows
  <2>1. connection = "up" /\ subscribed /\ ~announce /\ requests = <<>> /\ inbox = <<>>
    BY DEF Quiet
  <2>2. ~mRefreshing /\ ~mRefreshAgain
    BY <2>1, EmptyFacts DEF FetchInv, OneFetch
  <2>3. ~Stale
    BY <2>1, <2>2, EmptyFacts DEF Stale
  <2>4. /\ mDefaultDevice = server.default /\ mDevices = server.level
        /\ mStreams = {s \in Stream : server.streams[s] # None}
    BY <2>1, <2>2, <2>3 DEF KnowledgeInv, Current
  <2>5. mMixer /\ mItem # None => slider = mItem
    BY <2>1, <2>2, <2>3 DEF KnowledgeInv, SliderFollows
  <2>6. LET d == ItemOf(server.default, server.level, mStreams)
        IN mItem = IF d = None THEN None ELSE server.level[d]
    BY <2>2, <2>4 DEF FetchInv, Drawn
  <2> QED BY <2>4, <2>5, <2>6 DEF Agrees
<1> QED BY <1>1, KnowledgeInvariant, PTL
=============================================================================
