------------------------------ MODULE Settings ------------------------------
(***************************************************************************)
(* The dark theme on its way from whoever sets it to the programs that     *)
(* follow it: the registry, the portal service (portal/service), whose     *)
(* main loop (portal/main.cpp) also runs the bridge to D-Bus, and a        *)
(* program that reads the setting once and listens to SettingChanged from  *)
(* then on.                                                                *)
(*                                                                         *)
(* place follows the portal's one thread:                                  *)
(*                                                                         *)
(*   top --> [subscribed --> get] --> poll --> service [--> read]          *)
(*       --> registry --> bridge --> top                                   *)
(*                                                                         *)
(* and begins with start's own GetValue, at "subscribed".                  *)
(* A GetValue blocks the thread; the registry's steps go on meanwhile.     *)
(* Of the signals on their way to D-Bus only the last matters, and of the  *)
(* bridge only its order: it handles its subscriptions, which are the      *)
(* oldest of its calls, before the calls made since.                       *)
(***************************************************************************)
EXTENDS Registry

CONSTANT Portal  \* the portal's client and its subscription

ASSUME PortalOK == Client = {Portal} /\ Subscriber = {Portal}

VARIABLES
  place,     \* where the portal's main loop is
  starting,  \* whether that is still in TCCPortal::start
  ready,     \* what poll has found ready
  darkTheme, \* mDarkTheme
  signal,    \* the last SettingChanged the bridge has not read yet
  read,      \* the program's Read: "no", "asked", "called", "answered", "done"
  reply,     \* what SettingsRead answered, until the bridge reads it
  app,       \* what the program believes
  \* History, for properties only.
  unsure,    \* GetValue after subscribing failed, or was answered before Subscribe
  excused    \* the Read was answered while the portal could not know the value, or
             \* a newer signal was sent before its answer

portal == <<place, starting, ready, darkTheme, signal, read, reply, app>>
settingsHistory == <<unsure, excused>>
settingsVars == <<vars, portal, settingsHistory>>

SettingsInit ==
  /\ Init
  /\ place = "subscribed" /\ starting = TRUE /\ ready = {}
  /\ darkTheme = None /\ signal = None
  /\ read = "no" /\ reply = None /\ app = None
  /\ unsure = FALSE /\ excused = FALSE

(***************************************************************************)
(* Definitions with a mistake.                                             *)
(***************************************************************************)
AfterSubscribing_Poll == "poll"

Emitted_First(d) == IF d = darkTheme \/ d = None \/ signal # None THEN signal ELSE d

Ends_Not == FALSE

(***************************************************************************)
(* The portal.                                                             *)
(***************************************************************************)

\* What a GetValue that has returned found.
Got == IF result[Portal] \in Value THEN result[Portal] ELSE None

\* The signal on its way after updateDarkTheme(d).
Emitted(d) == IF d = darkTheme \/ d = None THEN signal ELSE d

UpdateDarkTheme(d) == darkTheme' = d /\ signal' = Emitted(d)

\* Dispatching D-Bus messages: filter forwards the Read.
Dispatched == IF read = "asked" THEN "called" ELSE read

\* Where the thread goes once it has subscribed: to GetValue.
AfterSubscribing == "subscribed"

\* The top of the loop, and subscribeRegistry up to its GetValue.
TopSubscribes ==
  /\ place = "top"
  /\ Subscribe(Portal)
  /\ place' = AfterSubscribing /\ read' = Dispatched
  /\ unsure' = FALSE
  /\ UNCHANGED <<starting, ready, darkTheme, signal, reply, app, excused>>

\* The same with a subscription already, or without a registry.
TopGoesOn ==
  /\ place = "top"
  /\ link[Portal] # "none" \/ pc = "down"
  /\ place' = "poll"
  /\ read' = Dispatched
  /\ UNCHANGED <<vars, starting, ready, darkTheme, signal, reply, app, settingsHistory>>

\* The GetValue of start and that of subscribeRegistry.
GetsTheme ==
  /\ place = "subscribed"
  /\ Call(Portal, Get)
  /\ place' = "get"
  /\ UNCHANGED <<starting, ready, darkTheme, signal, read, reply, app, settingsHistory>>

\* The end of subscribeRegistry, or of TCCPortal::start, which emits nothing.
GotTheme ==
  /\ place = "get" /\ op[Portal] = None
  /\ IF starting
     THEN place' = "top" /\ darkTheme' = Got /\ UNCHANGED signal
     ELSE place' = "poll" /\ UpdateDarkTheme(Got)
  /\ starting' = FALSE
  /\ unsure' = (unsure \/ Got = None)
  /\ UNCHANGED <<vars, ready, read, reply, app, excused>>

Ready ==
  (IF read = "called" THEN {"service"} ELSE {})
    \cup (IF inbox[Portal] # <<>> \/ link[Portal] = "dead" THEN {"registry"} ELSE {})
    \cup (IF signal # None THEN {"signal"} ELSE {})
    \cup (IF reply # None THEN {"reply"} ELSE {})

\* poll returns, at the latest after REGISTRY_RETRY_MS without a subscription.
Wakes ==
  /\ place = "poll"
  /\ Ready # {} \/ read = "asked" \/ link[Portal] = "none"
  /\ ready' = Ready
  /\ place' = "service"
  /\ UNCHANGED <<vars, starting, darkTheme, signal, read, reply, app, settingsHistory>>

\* portal.process: SettingsRead asks the registry itself.
ServesRead ==
  /\ place = "service" /\ "service" \in ready
  /\ Call(Portal, Get)
  /\ place' = "read"
  /\ UNCHANGED <<starting, ready, darkTheme, signal, read, reply, app, settingsHistory>>

AnswersRead ==
  /\ place = "read" /\ op[Portal] = None
  /\ reply' = result[Portal] /\ read' = "answered"
  /\ place' = "registry"
  /\ UNCHANGED <<vars, starting, ready, darkTheme, signal, app, settingsHistory>>

ServesNothing ==
  /\ place = "service" /\ "service" \notin ready
  /\ place' = "registry"
  /\ UNCHANGED <<vars, starting, ready, darkTheme, signal, read, reply, app, settingsHistory>>

\* processRegistry: the changes there are.
ReadsChange ==
  /\ place = "registry" /\ "registry" \in ready
  /\ ReadChange(Portal)
  /\ UpdateDarkTheme(Head(inbox[Portal]))
  /\ unsure' = FALSE
  /\ UNCHANGED <<place, starting, ready, read, reply, app, excused>>

\* Whether process notices that the subscription has ended.
Ends == link[Portal] = "dead"

\* processRegistry at the end of the connection.
LosesSubscription ==
  /\ place = "registry" /\ "registry" \in ready
  /\ Ends /\ SubscriptionEnds(Portal)
  /\ place' = "bridge"
  /\ UNCHANGED <<starting, ready, darkTheme, signal, read, reply, app, settingsHistory>>

LeavesRegistry ==
  /\ place = "registry"
  /\ "registry" \notin ready \/ (inbox[Portal] = <<>> /\ ~Ends)
  /\ place' = "bridge"
  /\ UNCHANGED <<vars, starting, ready, darkTheme, signal, read, reply, app, settingsHistory>>

\* bridge.dispatch: signals first, then the answer to Read.
BridgeDispatches ==
  /\ place = "bridge"
  /\ LET signalled == IF "signal" \in ready /\ read # "no" THEN signal ELSE app
     IN app' = IF "reply" \in ready /\ reply \in Value THEN reply ELSE signalled
  /\ excused' = (excused \/ ("signal" \in ready /\ read = "answered" /\ reply # signal))
  /\ signal' = IF "signal" \in ready THEN None ELSE signal
  /\ IF "reply" \in ready THEN reply' = None /\ read' = "done" ELSE UNCHANGED <<reply, read>>
  /\ place' = "top" /\ ready' = {}
  /\ UNCHANGED <<vars, starting, darkTheme, unsure>>

(***************************************************************************)
(* The rest of the system.                                                 *)
(***************************************************************************)

\* A program starts: it matches SettingChanged and calls Read.
AppAsks ==
  /\ read = "no" /\ read' = "asked"
  /\ UNCHANGED <<vars, place, starting, ready, darkTheme, signal, reply, app, settingsHistory>>

\* The registry answers the portal's GetValue.
AnswersPortal ==
  /\ TakeGet(Portal)
  /\ unsure' = (unsure \/ (place = "get" /\ Portal \in asked))
  /\ excused' = (excused \/ (place = "read" /\ (unsure \/ Portal \notin registered)))
  /\ UNCHANGED portal

\* The registry takes a SetValue of a client that Registry follows and this does not.
SomebodySets ==
  /\ pc = "idle" /\ \E v \in Value : Commit(v, None)
  /\ UNCHANGED <<calls, subscriptions, history>>

Elsewhere ==
  /\ \/ SomebodySets \/ Reply \/ Notify \/ Start \/ Crash
     \/ HandleSubscribe(Portal) \/ CallSteps(Portal) \/ Timeout(Portal)
  /\ UNCHANGED <<portal, settingsHistory>>

PortalNext ==
  \/ TopSubscribes \/ TopGoesOn \/ GetsTheme \/ GotTheme \/ Wakes
  \/ ServesRead \/ AnswersRead \/ ServesNothing
  \/ ReadsChange \/ LosesSubscription \/ LeavesRegistry \/ BridgeDispatches

SettingsNext == PortalNext \/ AppAsks \/ AnswersPortal \/ Elsewhere

SettingsSpec == SettingsInit /\ [][SettingsNext]_settingsVars

\* The portal's loop and the registry's run, and somebody starts the registry again.
SettingsFairSpec ==
  /\ SettingsSpec
  /\ WF_settingsVars(PortalNext)
  /\ WF_settingsVars(CallSteps(Portal) /\ UNCHANGED <<portal, settingsHistory>>)
  /\ WF_settingsVars((Start \/ Reply \/ Notify) /\ UNCHANGED <<portal, settingsHistory>>)
  /\ SF_settingsVars(AnswersPortal)
  /\ SF_settingsVars(HandleSubscribe(Portal) /\ UNCHANGED <<portal, settingsHistory>>)

(***************************************************************************)
(* Properties.                                                             *)
(***************************************************************************)

\* Everything sent has been read, and nothing but a new change is going to happen.
Settled ==
  /\ pc = "idle"
  /\ place = "poll" /\ Portal \in registered /\ inbox[Portal] = <<>>
  /\ signal = None /\ reply = None /\ read \in {"no", "done"}

\* Once things have settled the portal's idea of the theme is the registry's, through
\* restarts of either the registry or the connection, unless the GetValue that follows
\* subscribing failed or overtook the Subscribe (subscribeRegistry).
PortalFollows == Settled /\ ~unsure => darkTheme = stored

\* "It may have changed while we weren't subscribed" (subscribeRegistry): once things
\* have settled a program that reads the theme and follows SettingChanged has the
\* registry's theme.
ProgramFollows == Settled /\ app # None => app = stored

\* The same, and what it takes to break it: a Read that is answered by the registry
\* while the portal is not subscribed, or one whose answer is sent after a newer
\* signal: poll finds the signal, and dispatch handles it first or alone.
ProgramFollowsUnless == ~unsure /\ ~excused => ProgramFollows

\* However often the registry goes down, the portal ends up subscribed to it.
Resubscribes == <>[](Portal \in registered)

=============================================================================
