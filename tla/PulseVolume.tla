---------------------------- MODULE PulseVolume ----------------------------
(***************************************************************************)
(* The tray's volume and microphone items                                  *)
(* (systray/src/othericons/pulse_volume.cpp): what they know of the sound  *)
(* server, got by a chain of three requests that is run again whenever the *)
(* server says that something has changed.                                 *)
(*                                                                         *)
(* The server and libpulse are external: requests and what comes back each *)
(* keep their order, and the changes since the last event share the next.  *)
(* Devices are numbers, in the order the server lists them.  Volumes are   *)
(* levels, of which Full is 100%.  Muting is left out: it is got and set   *)
(* the way the volume is.                                                  *)
(***************************************************************************)
EXTENDS Naturals, Sequences, SequencesExt

CONSTANTS
  Device, Stream, Directions, None,
  Full, MaxLevel,
  MaxChanges  \* bound: changes elsewhere, and volumes the user sets

ASSUME PulseOK ==
  /\ Device \subseteq Nat /\ None \notin Nat
  /\ Directions \subseteq {"Output", "Input"}
  /\ Full \in Nat /\ MaxLevel \in Nat /\ Full <= MaxLevel /\ MaxChanges \in Nat

VARIABLES
  \* The server.
  server,         \* its default device, devices' levels and streams' devices
  connection,     \* "waiting" for the server, "up" or "lost"
  subscribed, announce,
  requests,       \* from the tray
  inbox,          \* to the tray, from the server and libpulse
  \* The tray.
  mDirection, mReconnect, mRefreshing, mRefreshAgain,
  mDefaultDevice, mDevices,
  mStreams,       \* and for inputs, mRecording when there are any
  mItem,          \* the level of the item, if there is one
  mMenuDevices,
  changes,        \* what has been counted towards MaxChanges
  \* History, for properties only.
  drawn           \* the device whose level the item has

there == <<server, connection, subscribed, announce>>
knowledge == <<mDefaultDevice, mDevices, mStreams>>
refreshing == <<mRefreshing, mRefreshAgain>>
pulse == <<there, requests, inbox, mDirection, mReconnect, refreshing, knowledge, mItem, mMenuDevices,
           changes, drawn>>

Level == 0 .. MaxLevel
Nothing == [d \in Device |-> None]

Present(level) == {d \in Device : level[d] # None}

\* defaultDevice, of a list of devices and the name of the default one.
DefaultOf(name, level) ==
  IF name \in Present(level) THEN name
  ELSE IF Present(level) = {} THEN None ELSE Min(Present(level))

PulseInit ==
  /\ server = [default |-> Min(Device), level |-> [d \in Device |-> Full],
               streams |-> [s \in Stream |-> None]]
  /\ connection = "waiting" /\ subscribed = FALSE /\ announce = FALSE
  /\ requests = <<>> /\ inbox = <<>>
  /\ mDirection \in Directions
  /\ mReconnect = FALSE /\ mRefreshing = FALSE /\ mRefreshAgain = FALSE
  /\ mDefaultDevice = None /\ mDevices = Nothing /\ mStreams = {}
  /\ mItem = None /\ mMenuDevices = <<>>
  /\ changes = 0 /\ drawn = None

Message(kind) == [kind |-> kind]
Setting(kind, d, l) == [kind |-> kind, device |-> d, level |-> l]

Reads(kind) == inbox # <<>> /\ Head(inbox).kind = kind /\ inbox' = Tail(inbox)

\* Requests go nowhere without a connection.
Sends(ms) == requests' = IF connection = "up" THEN requests \o ms ELSE requests
Asks(kinds) == Sends([n \in 1 .. Len(kinds) |-> Message(kinds[n])])

(***************************************************************************)
(* Definitions with a mistake.                                             *)
(***************************************************************************)

\* Changes during a refresh missed.
Refresh_Drops(others) ==
  IF mRefreshing THEN Asks(others) /\ UNCHANGED refreshing
  ELSE mRefreshing' = TRUE /\ mRefreshAgain' = FALSE /\ Asks(others \o <<"server">>)

\* The first device taken for the default one.
SetPercent_First(l) ==
  /\ Present(mDevices) # {}
  /\ Sends(<<Setting("set_volume", Min(Present(mDevices)), l)>>)
  /\ UNCHANGED <<there, inbox, mDirection, mReconnect, refreshing, knowledge, mItem,
                 mMenuDevices, drawn>>

(***************************************************************************)
(* The items.                                                              *)
(***************************************************************************)
DefaultDevice == DefaultOf(mDefaultDevice, mDevices)

\* update: the device the item is for.
ItemOf(name, level, streams) ==
  IF mDirection = "Input" /\ streams = {} THEN None ELSE DefaultOf(name, level)

Update ==
  LET d == ItemOf(mDefaultDevice', mDevices', mStreams')
  IN mItem' = (IF d = None THEN None ELSE mDevices'[d]) /\ drawn' = d

\* refresh, after other requests.
Refresh(others) ==
  IF mRefreshing
  THEN mRefreshAgain' = TRUE /\ Asks(others) /\ UNCHANGED mRefreshing
  ELSE mRefreshing' = TRUE /\ mRefreshAgain' = FALSE /\ Asks(others \o <<"server">>)

\* stateCallback: READY.
Ready ==
  /\ Reads("ready")
  /\ Refresh(<<"subscribe">>)
  /\ UNCHANGED <<there, mDirection, mReconnect, knowledge, mItem,
                 mMenuDevices, changes, drawn>>

\* stateCallback: FAILED.  mStreams are kept, mRecording is not.
Failed ==
  /\ Reads("failed")
  /\ mDefaultDevice' = None /\ mDevices' = Nothing
  /\ mStreams' = IF mDirection = "Input" THEN {} ELSE mStreams
  /\ Update
  /\ mReconnect' = TRUE
  /\ UNCHANGED <<there, requests, mDirection, refreshing, mMenuDevices,
                 changes>>

\* subscribeCallback.
Event ==
  /\ Reads("event")
  /\ Refresh(<<>>)
  /\ UNCHANGED <<there, mDirection, mReconnect, knowledge, mItem,
                 mMenuDevices, changes, drawn>>

\* serverInfoCallback.
ServerInfo ==
  /\ Reads("server")
  /\ mDefaultDevice' = Head(inbox).server.default
  /\ Asks(<<"devices">>)
  /\ UNCHANGED <<there, mDirection, mReconnect, refreshing, mDevices,
                 mStreams, mItem, mMenuDevices, changes, drawn>>

\* sinkInfoCallback and sourceInfoCallback, to devicesDone.
DevicesDone ==
  /\ Reads("devices")
  /\ mDevices' = Head(inbox).server.level
  /\ Asks(<<"streams">>)
  /\ UNCHANGED <<there, mDirection, mReconnect, refreshing,
                 mDefaultDevice, mStreams, mItem, mMenuDevices, changes, drawn>>

\* sinkInputInfoCallback and sourceOutputInfoCallback: recordings count when they are of a
\* device that is known.
Counted(streams) ==
  {s \in Stream : /\ streams[s] # None
                  /\ mDirection = "Input" => streams[s] \in Present(mDevices)}

\* The same, to refreshDone.
RefreshDone ==
  /\ Reads("streams")
  /\ mStreams' = Counted(Head(inbox).server.streams)
  /\ UNCHANGED <<mDefaultDevice, mDevices>>
  /\ Update
  /\ mRefreshing' = mRefreshAgain /\ mRefreshAgain' = FALSE
  /\ Asks(IF mRefreshAgain THEN <<"server">> ELSE <<>>)
  /\ UNCHANGED <<there, mDirection, mReconnect, mMenuDevices, changes>>

\* The rest of poll: destroyContext and createContext.
Reconnect ==
  IF mReconnect
  THEN /\ mReconnect' = FALSE /\ mRefreshing' = FALSE /\ mRefreshAgain' = FALSE
       /\ connection' = "waiting"
       /\ UNCHANGED <<server, subscribed, announce, requests, inbox, mDirection, knowledge, mItem,
                      mMenuDevices, changes, drawn>>
  ELSE UNCHANGED pulse

\* A user may change a volume.
Count == changes < MaxChanges /\ changes' = changes + 1

\* setPercent.
SetPercent(l) ==
  /\ DefaultDevice # None
  /\ Sends(<<Setting("set_volume", DefaultDevice, l)>>)
  /\ UNCHANGED <<there, inbox, mDirection, mReconnect, refreshing,
                 knowledge, mItem, mMenuDevices, drawn>>

\* scroll: not beyond 100%, nor down to it.
Scroll(up) ==
  LET current == mDevices[DefaultDevice]
      most == Max({current, Full})
      target == IF up THEN Min({current + 1, most}) ELSE Max({current, 1}) - 1
  IN /\ DefaultDevice # None /\ target # current
     /\ SetPercent(target)

\* contextMenu: the devices in the menu.
ListDevices ==
  LET all == Present(mDevices)
  IN mMenuDevices' = IF Cardinality(all) < 2 THEN <<>>
                     ELSE SetToSortSeq(all, LAMBDA a, b : a < b)

\* menuEntryActivated: setDefault.
ChooseDevice(n) ==
  /\ DefaultDevice # None
  /\ Sends(<<Setting("set_default", mMenuDevices[n], None)>>)
  /\ UNCHANGED <<there, inbox, mDirection, mReconnect, refreshing,
                 knowledge, mItem, mMenuDevices, drawn>>

(***************************************************************************)
(* The server.                                                             *)
(***************************************************************************)
tray == <<mDirection, mReconnect, refreshing, knowledge, mItem, mMenuDevices, drawn>>

\* libpulse waits for a server to appear.
Accept ==
  /\ connection = "waiting" /\ connection' = "up"
  /\ inbox' = <<Message("ready")>>
  /\ UNCHANGED <<server, subscribed, announce, requests, changes, tray>>

Reply(m) == [kind |-> m.kind, server |-> server]

\* What a setting makes of the server.
After(m) ==
  IF m.device \notin Present(server.level) THEN server
  ELSE IF m.kind = "set_volume" THEN [server EXCEPT !.level[m.device] = m.level]
       ELSE [server EXCEPT !.default = m.device]

Serve ==
  /\ requests # <<>> /\ requests' = Tail(requests)
  /\ LET m == Head(requests)
     IN \/ /\ m.kind = "subscribe"
           /\ subscribed' = TRUE
           /\ UNCHANGED <<server, announce, inbox>>
        \/ /\ m.kind \in {"server", "devices", "streams"}
           /\ inbox' = Append(inbox, Reply(m))
           /\ UNCHANGED <<server, subscribed, announce>>
        \/ /\ m.kind \in {"set_volume", "set_default"}
           /\ server' = After(m)
           /\ announce' = (announce \/ (subscribed /\ server' # server))
           /\ UNCHANGED <<subscribed, inbox>>
  /\ UNCHANGED <<connection, changes, tray>>

Announce ==
  /\ announce /\ announce' = FALSE
  /\ inbox' = Append(inbox, Message("event"))
  /\ UNCHANGED <<server, connection, subscribed, requests, changes, tray>>

\* Something else changes a volume, adds a device or removes it, chooses the default one,
\* starts a stream, moves or stops it.
Changes ==
  LET now == Present(server.level)
      Without(d) == [server.level EXCEPT ![d] = None]
  IN {[server EXCEPT !.level[d] = l] : d \in Device, l \in Level}
       \cup {[default |-> DefaultOf(server.default, Without(d)), level |-> Without(d),
              streams |-> [s \in Stream |-> IF server.streams[s] = d THEN None
                                            ELSE server.streams[s]]] : d \in now}
       \cup {[server EXCEPT !.default = d] : d \in now}
       \cup {[server EXCEPT !.streams[s] = d] : s \in Stream, d \in now \cup {None}}

Change ==
  /\ Count
  /\ server' \in Changes \ {server}
  /\ announce' = subscribed
  /\ UNCHANGED <<connection, subscribed, requests, inbox, tray>>

\* The connection is lost, with what is under way on it.
Lose ==
  /\ connection = "up" /\ connection' = "lost"
  /\ Count
  /\ subscribed' = FALSE /\ announce' = FALSE
  /\ requests' = <<>> /\ inbox' = <<Message("failed")>>
  /\ UNCHANGED <<server, tray>>

ServerNext == Accept \/ Serve \/ Announce \/ Change \/ Lose

=============================================================================
