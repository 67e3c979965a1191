--------------------------- MODULE SettingsProofs ---------------------------
(***************************************************************************)
(* The dark theme, for any values of it and however often the registry     *)
(* dies and calls time out: the portal has the registry's, and so has a    *)
(* program that follows it, but for what their properties excuse.          *)
(***************************************************************************)
EXTENDS Settings, RegistryProofs

(***************************************************************************)
(* The inductive invariant.                                                *)
(***************************************************************************)

\* What is on its way to the program is what the portal has it for.
Reading ==
  /\ {darkTheme, signal, app} \subseteq Value \cup {None}
  /\ {starting, unsure, excused} \subseteq BOOLEAN
  /\ reply # None \/ "reply" \in ready => read = "answered"
  /\ "signal" \in ready => signal # None
  /\ read = "no" => app = None
  /\ starting => reply = None /\ signal = None /\ app = None /\ place \in {"subscribed", "get"}
  /\ signal # None /\ darkTheme # None => signal = darkTheme

\* v is what the portal was told, unless it is about to read a change.
AsTold(v) ==
  /\ Portal \notin asked
  /\ Portal \in registered /\ inbox[Portal] = <<>> => v = told[Portal]

\* The portal's theme, or the value that it is about to be.
Themed ==
  ~unsure =>
    /\ place \notin {"subscribed", "get"} => AsTold(darkTheme)
    /\ place = "get" =>
         \A v \in Value : v \in {answer[Portal], result[Portal]} => AsTold(v)

\* v is the portal's theme, or a signal is coming that it is not.
AsSignalled(v) ==
  signal = None /\ darkTheme # None =>
    v = darkTheme \/ \E i \in 1 .. Len(inbox[Portal]) : inbox[Portal][i] # darkTheme

\* What the program has, and what it is going to be answered.
Followed ==
  ~excused =>
    /\ app # None => AsSignalled(app)
    /\ reply \in Value => AsSignalled(reply)
    /\ place = "read" =>
         \A v \in Value : v \in {answer[Portal], result[Portal]} => AsSignalled(v)

ThemeInv == Reading /\ Themed /\ Followed

LEMMA PortalFacts ==
  /\ Client = {Portal} /\ Subscriber = {Portal}
  /\ Portal \in Client /\ Portal \in Subscriber
  BY PortalOK

(***************************************************************************)
(* The registry's invariant: the portal and the rest of the system take    *)
(* the registry's steps, but for SomebodySets, which commits as they do.   *)
(***************************************************************************)

LEMMA SomebodySetsFollows == ASSUME FollowInv, SomebodySets PROVE FollowInv'
<1>1. PICK v \in Value : Commit(v, None)
  BY DEF SomebodySets
<1>2. /\ handling' \in Handling /\ handling'.from = None /\ stored' \in Value
      /\ pc' = "reply"
  BY <1>1, CommitFacts
<1>3. CallsInv'
  BY <1>2, OpFacts DEF SomebodySets, calls, history, FollowInv, CallsInv, CallsTypeOK,
     InFlight, NobodyWaitsInVain
<1>4. SubscribersTypeOK' /\ Following'
  BY <1>1, CommitFollows DEF SomebodySets, calls, history
<1> QED
  BY <1>3, <1>4 DEF FollowInv

LEMMA SettingsFollow ==
  ASSUME FollowInv, [SettingsNext]_settingsVars PROVE FollowInv'
<1>1. CASE UNCHANGED vars
  BY <1>1, FollowStep
<1>2. CASE TopSubscribes
  <2>1. Next
    BY <1>2, PortalFacts DEF TopSubscribes, Next
  <2> QED
    BY <2>1, FollowStep
<1>3. CASE GetsTheme \/ ServesRead
  <2>1. Next
    BY <1>3, PortalFacts, OpFacts DEF GetsTheme, ServesRead, Next
  <2> QED
    BY <2>1, FollowStep
<1>4. CASE ReadsChange \/ LosesSubscription
  <2>1. Next
    BY <1>4, PortalFacts DEF ReadsChange, LosesSubscription, Next
  <2> QED
    BY <2>1, FollowStep
<1>5. CASE AnswersPortal
  <2>1. Next
    BY <1>5, PortalFacts DEF AnswersPortal, Next, Serve
  <2> QED
    BY <2>1, FollowStep
<1>6. CASE Elsewhere
  <2>1. CASE SomebodySets
    BY <2>1, SomebodySetsFollows
  <2>2. CASE ~SomebodySets
    <3>1. Next
      BY <1>6, <2>2, PortalFacts DEF Elsewhere, Next, Serve
    <3> QED
      BY <3>1, FollowStep
  <2> QED
    BY <2>1, <2>2
<1>7. CASE \/ TopGoesOn \/ GotTheme \/ Wakes \/ AnswersRead \/ ServesNothing
           \/ LeavesRegistry \/ BridgeDispatches \/ AppAsks
  BY <1>7, <1>1 DEF TopGoesOn, GotTheme, Wakes, AnswersRead, ServesNothing,
     LeavesRegistry, BridgeDispatches, AppAsks
<1> QED
  BY <1>1, <1>2, <1>3, <1>4, <1>5, <1>6, <1>7 DEF SettingsNext, PortalNext, settingsVars

(***************************************************************************)
(* What the portal, the program and the rest of the system do to it.       *)
(***************************************************************************)

LEMMA ThemeInit == SettingsInit => FollowInv /\ ThemeInv
<1> SUFFICES ASSUME SettingsInit PROVE FollowInv /\ ThemeInv
  OBVIOUS
<1>1. FollowInv
  BY FollowInit DEF SettingsInit
<1>2. Reading
  BY DEF SettingsInit, Reading
<1>3. Themed
  BY DEF SettingsInit, Themed
<1>4. Followed
  BY OpFacts DEF SettingsInit, Followed
<1> QED
  BY <1>1, <1>2, <1>3, <1>4 DEF ThemeInv

\* A call that has returned has nothing in flight.
LEMMA NothingInFlight ==
  ASSUME FollowInv, op[Portal] = None PROVE answer[Portal] = None
  BY PortalFacts DEF FollowInv, CallsInv, InFlight

\* The steps of the portal's loop that leave the registry, the theme and its signal alone.
LEMMA LoopTheme ==
  ASSUME FollowInv, ThemeInv,
         \/ TopGoesOn \/ Wakes \/ AnswersRead \/ ServesNothing \/ LeavesRegistry
  PROVE  ThemeInv'
<1>1. UNCHANGED <<vars, darkTheme, signal, app, starting, unsure, excused>>
  BY DEF TopGoesOn, Wakes, AnswersRead, ServesNothing, LeavesRegistry, settingsHistory
<1>2. /\ place \notin {"subscribed", "get"}
      /\ place' \in {"poll", "service", "registry", "bridge"}
  BY DEF TopGoesOn, Wakes, AnswersRead, ServesNothing, LeavesRegistry
<1>3. Reading'
  <2>1. /\ reply' # None \/ "reply" \in ready' => read' = "answered"
        /\ "signal" \in ready' => signal' # None
        /\ read' = "no" => app' = None
    BY <1>1 DEF ThemeInv, Reading, TopGoesOn, Dispatched, Wakes, Ready, AnswersRead,
       ServesNothing, LeavesRegistry
  <2> QED
    BY <1>1, <1>2, <2>1 DEF ThemeInv, Reading
<1>4. Themed'
  BY <1>1, <1>2 DEF ThemeInv, Themed, AsTold, vars, daemon, subscriptions, history
<1>5. reply' = reply \/ (place = "read" /\ reply' = result[Portal])
  BY DEF TopGoesOn, Wakes, AnswersRead, ServesNothing, LeavesRegistry
<1>6. Followed'
  BY <1>1, <1>2, <1>5 DEF ThemeInv, Followed, AsSignalled, vars, subscriptions
<1> QED
  BY <1>3, <1>4, <1>6 DEF ThemeInv

\* A GetValue begins without an answer.
LEMMA CallTheme ==
  ASSUME FollowInv, ThemeInv, GetsTheme \/ ServesRead PROVE ThemeInv'
<1>1. /\ op[Portal] = None /\ result'[Portal] = None /\ answer' = answer
      /\ place' \in {"get", "read"}
      /\ place' = "read" => place \notin {"subscribed", "get"}
  BY PortalFacts DEF GetsTheme, ServesRead, Call, FollowInv, CallsInv, CallsTypeOK
<1>2. UNCHANGED <<registered, asked, inbox, told, starting, ready, darkTheme, signal,
                  read, reply, app, unsure, excused>>
  BY DEF GetsTheme, ServesRead, Call, daemon, subscriptions, history, settingsHistory
<1>3. \A v \in Value : v \notin {answer'[Portal], result'[Portal]}
  BY <1>1, NothingInFlight, OpFacts
<1>4. Reading'
  BY <1>1, <1>2 DEF ThemeInv, Reading, GetsTheme, ServesRead
<1>5. Themed'
  BY <1>1, <1>2, <1>3 DEF ThemeInv, Themed, AsTold
<1>6. Followed'
  BY <1>2, <1>3 DEF ThemeInv, Followed, AsSignalled
<1> QED
  BY <1>4, <1>5, <1>6 DEF ThemeInv

\* Subscribing anew, and losing the subscription.
LEMMA LinkTheme ==
  ASSUME FollowInv, ThemeInv, TopSubscribes \/ LosesSubscription PROVE ThemeInv'
<1>1. UNCHANGED <<inbox, starting, ready, darkTheme, signal, reply, app, excused>>
  BY DEF TopSubscribes, LosesSubscription, Subscribe, SubscriptionEnds, settingsHistory
<1>2. place \notin {"subscribed", "get"} /\ place' \in {"subscribed", "bridge"}
  BY DEF TopSubscribes, AfterSubscribing, LosesSubscription
<1>3. Reading'
  <2>1. unsure' \in BOOLEAN /\ read' \in {read, "called"}
        /\ (read' # read => read = "asked")
    BY DEF ThemeInv, Reading, TopSubscribes, Dispatched, LosesSubscription, settingsHistory
  <2> QED
    BY <1>1, <1>2, <2>1 DEF ThemeInv, Reading
<1>4. Themed'
  BY <1>1, <1>2 DEF ThemeInv, Themed, AsTold, TopSubscribes, AfterSubscribing,
     LosesSubscription, SubscriptionEnds, daemon, history, settingsHistory
<1>5. Followed'
  BY <1>1, <1>2 DEF ThemeInv, Followed, AsSignalled
<1> QED
  BY <1>3, <1>4, <1>5 DEF ThemeInv

\* updateDarkTheme signals every change.
LEMMA UpdateFacts ==
  ASSUME Reading, NEW d \in Value \cup {None}, UpdateDarkTheme(d)
  PROVE  /\ darkTheme' = d /\ signal' \in Value \cup {None}
         /\ signal' # None /\ d # None => signal' = d
         /\ signal # None => signal' # None
         /\ signal' = None /\ d # None => signal = None /\ d = darkTheme
  BY DEF Reading, UpdateDarkTheme, Emitted

LEMMA GotThemeTheme == ASSUME FollowInv, ThemeInv, GotTheme PROVE ThemeInv'
<1>1. place = "get" /\ place' \in {"top", "poll"} /\ darkTheme' = Got
  BY DEF GotTheme, UpdateDarkTheme
<1>2. Got \in Value \cup {None}
  BY DEF Got
<1>3. UNCHANGED <<vars, ready, read, reply, app, excused>> /\ starting' = FALSE
  BY DEF GotTheme
<1>4. unsure' = (unsure \/ Got = None)
  BY DEF GotTheme
<1>5. Themed'
  <2>1. ~unsure' => Got = result[Portal] /\ Got \in Value /\ ~unsure
    BY <1>4 DEF Got
  <2> QED
    BY <1>1, <1>3, <2>1 DEF ThemeInv, Themed, AsTold, vars, daemon, subscriptions, history
<1>6. CASE starting
  <2>1. signal' = signal /\ signal = None /\ app = None /\ reply = None
    BY <1>6 DEF GotTheme, ThemeInv, Reading
  <2>2. Reading'
    BY <1>1, <1>2, <1>3, <1>4, <2>1 DEF ThemeInv, Reading
  <2>3. Followed'
    BY <1>1, <1>3, <2>1, OpFacts DEF Followed
  <2> QED
    BY <1>5, <2>2, <2>3 DEF ThemeInv
<1>7. CASE ~starting
  <2>1. UpdateDarkTheme(Got)
    BY <1>7 DEF GotTheme
  <2>2. /\ signal' \in Value \cup {None}
        /\ signal' # None /\ Got # None => signal' = Got
        /\ signal # None => signal' # None
        /\ signal' = None /\ Got # None => signal = None /\ Got = darkTheme
    BY <1>2, <2>1, UpdateFacts DEF ThemeInv
  <2>3. Reading'
    BY <1>1, <1>2, <1>3, <1>4, <2>2 DEF ThemeInv, Reading
  <2>4. ASSUME NEW v, AsSignalled(v) PROVE AsSignalled(v)'
    BY <1>1, <1>3, <2>2, <2>4 DEF AsSignalled, vars, subscriptions
  <2>5. Followed'
    BY <1>1, <1>3, <2>4 DEF ThemeInv, Followed
  <2> QED
    BY <1>5, <2>3, <2>5 DEF ThemeInv
<1> QED
  BY <1>6, <1>7

\* The portal takes over the oldest change it has not read.
LEMMA ReadsChangeTheme == ASSUME FollowInv, ThemeInv, ReadsChange PROVE ThemeInv'
<1>1. PICK q \in Seq(Value) : q = inbox[Portal]
  BY PortalFacts DEF FollowInv, SubscribersTypeOK
<1>2. /\ q # <<>> /\ Head(q) \in Value /\ Tail(q) \in Seq(Value)
      /\ Len(Tail(q)) = Len(q) - 1
      /\ \A i \in 1 .. Len(Tail(q)) : Tail(q)[i] = q[i + 1]
      /\ q[1] = Head(q) /\ Len(q) \in Nat
  <2>1. q # <<>>
    BY <1>1 DEF ReadsChange, ReadChange
  <2> QED
    BY <2>1, HeadTailProperties, LenProperties
<1>3. PICK h \in Value : h = Head(q)
  BY <1>2
<1>4. /\ told'[Portal] = h /\ inbox'[Portal] = Tail(q)
      /\ UNCHANGED <<registered, asked, answer, result>>
  BY <1>1, <1>3, PortalFacts
     DEF ReadsChange, ReadChange, FollowInv, SubscribersTypeOK, daemon, calls
<1>5. /\ UpdateDarkTheme(h) /\ unsure' = FALSE /\ place = "registry"
      /\ UNCHANGED <<place, starting, ready, read, reply, app, excused>>
  BY <1>1, <1>3 DEF ReadsChange
<1>6. /\ darkTheme' = h /\ signal' \in Value \cup {None}
      /\ signal' # None => signal' = h
      /\ signal # None => signal' # None
      /\ signal' = None => signal = None /\ h = darkTheme
  BY <1>3, <1>5, UpdateFacts, OpFacts DEF ThemeInv
<1>7. Reading'
  BY <1>5, <1>6 DEF ThemeInv, Reading
<1>8. Themed'
  <2>1. Portal \notin asked
    BY <1>1, <1>2 DEF FollowInv, Following
  <2> QED
    BY <1>4, <1>5, <1>6, <2>1 DEF Themed, AsTold
<1>9. ASSUME NEW v, AsSignalled(v) PROVE AsSignalled(v)'
  <2>1. SUFFICES ASSUME signal' = None
                 PROVE  v = h \/ \E i \in 1 .. Len(Tail(q)) : Tail(q)[i] # h
    BY <1>4, <1>6 DEF AsSignalled
  <2>2. signal = None /\ darkTheme = h /\ h # None
    BY <1>6, <2>1, OpFacts
  <2>3. CASE v = h
    BY <2>3
  <2>4. CASE v # h
    <3>1. PICK i \in 1 .. Len(q) : q[i] # h
      BY <1>1, <1>9, <2>2, <2>4 DEF AsSignalled
    <3>2. i # 1 /\ i - 1 \in 1 .. Len(Tail(q)) /\ (i - 1) + 1 = i
      BY <1>2, <1>3, <3>1
    <3>3. Tail(q)[i - 1] = q[(i - 1) + 1]
      BY <1>2, <3>2
    <3> QED
      BY <3>1, <3>2, <3>3
  <2> QED
    BY <2>3, <2>4
<1>10. Followed'
  BY <1>4, <1>5, <1>9 DEF ThemeInv, Followed
<1> QED
  BY <1>7, <1>8, <1>10 DEF ThemeInv

\* A signal leaves when the program has it, or is answered what it says.
LEMMA BridgeTheme == ASSUME FollowInv, ThemeInv, BridgeDispatches PROVE ThemeInv'
<1>1. /\ UNCHANGED <<vars, starting, darkTheme, unsure>>
      /\ place = "bridge" /\ place' = "top" /\ ready' = {}
  BY DEF BridgeDispatches
<1>2. /\ "reply" \in ready => read = "answered" /\ reply' = None /\ read' = "done"
      /\ "reply" \notin ready => reply' = reply /\ read' = read
      /\ "signal" \in ready => signal # None /\ signal' = None
      /\ "signal" \notin ready => signal' = signal
  BY DEF BridgeDispatches, ThemeInv, Reading
<1>3. \/ "reply" \in ready /\ reply \in Value /\ app' = reply
      \/ "signal" \in ready /\ read # "no" /\ app' = signal
      \/ ("signal" \in ready => read = "no") /\ app' = app
  BY DEF BridgeDispatches
<1>4. ~excused' => ~excused /\ ("signal" \in ready /\ read = "answered" => reply = signal)
  BY DEF BridgeDispatches, ThemeInv, Reading
<1>5. Reading'
  <2>1. excused' \in BOOLEAN
    BY DEF BridgeDispatches, ThemeInv, Reading
  <2>2. app' \in Value \cup {None}
    BY <1>3 DEF ThemeInv, Reading
  <2>3. signal' \in {signal, None} /\ reply' \in {reply, None}
    BY <1>2
  <2>4. read' = "no" => app' = None
    BY <1>2, <1>3 DEF ThemeInv, Reading
  <2>5. ~starting
    BY <1>1 DEF ThemeInv, Reading
  <2> QED
    BY <1>1, <1>2, <2>1, <2>2, <2>3, <2>4, <2>5 DEF ThemeInv, Reading
<1>6. Themed'
  BY <1>1 DEF ThemeInv, Themed, AsTold, vars, daemon, subscriptions, history
<1>7. Followed'
  <2> SUFFICES ASSUME ~excused' PROVE Followed'
    BY DEF Followed
  <2>1. inbox' = inbox /\ darkTheme' = darkTheme
    BY <1>1 DEF vars, subscriptions
  <2>2. ASSUME NEW v, AsSignalled(v), "signal" \notin ready PROVE AsSignalled(v)'
    BY <1>2, <2>1, <2>2 DEF AsSignalled
  <2>3. ASSUME NEW v, "signal" \in ready, v = signal PROVE AsSignalled(v)'
    <3>1. signal # None /\ (darkTheme # None => v = darkTheme)
      BY <1>2, <2>3 DEF ThemeInv, Reading
    <3> QED
      BY <2>1, <3>1 DEF AsSignalled
  <2>4. ASSUME reply \in Value, NEW v, v = reply PROVE AsSignalled(v)'
    <3>1. AsSignalled(v) /\ read = "answered"
      BY <1>4, <2>4, OpFacts DEF ThemeInv, Followed, Reading
    <3>2. "signal" \in ready => v = signal
      BY <1>4, <2>4, <3>1
    <3> QED
      BY <2>2, <2>3, <3>1, <3>2
  <2>5. PICK a : a = app'
    OBVIOUS
  <2>6. ASSUME a # None PROVE AsSignalled(a)'
    <3>1. CASE "reply" \in ready /\ reply \in Value /\ app' = reply
      BY <2>4, <2>5, <3>1
    <3>2. CASE "signal" \in ready /\ read # "no" /\ app' = signal
      BY <2>3, <2>5, <3>2
    <3>3. CASE ("signal" \in ready => read = "no") /\ app' = app
      <4>1. "signal" \notin ready
        BY <2>5, <2>6, <3>3 DEF ThemeInv, Reading
      <4>2. AsSignalled(a)
        BY <1>4, <2>5, <2>6, <3>3 DEF ThemeInv, Followed
      <4> QED
        BY <2>2, <4>1, <4>2
    <3> QED
      BY <1>3, <3>1, <3>2, <3>3
  <2>7. PICK r : r = reply'
    OBVIOUS
  <2>8. ASSUME r \in Value PROVE AsSignalled(r)'
    <3>1. r = reply
      BY <1>2, <2>7, <2>8, OpFacts
    <3> QED
      BY <2>4, <2>8, <3>1
  <2>9. AsSignalled(app)' <=> AsSignalled(a)'
    BY <2>5 DEF AsSignalled
  <2>10. AsSignalled(reply)' <=> AsSignalled(r)'
    BY <2>7 DEF AsSignalled
  <2> QED
    BY <1>1, <2>5, <2>6, <2>7, <2>8, <2>9, <2>10 DEF Followed
<1> QED
  BY <1>5, <1>6, <1>7 DEF ThemeInv

LEMMA AppAsksTheme == ASSUME FollowInv, ThemeInv, AppAsks PROVE ThemeInv'
<1>1. /\ UNCHANGED <<place, starting, ready, darkTheme, signal, reply, app>>
      /\ UNCHANGED <<registered, asked, answer, result, inbox, told, unsure, excused>>
      /\ read = "no" /\ read' = "asked"
  BY DEF AppAsks, settingsHistory, vars, daemon, calls, subscriptions, history
<1>2. Reading'
  BY <1>1 DEF ThemeInv, Reading
<1>3. Themed'
  BY <1>1 DEF ThemeInv, Themed, AsTold
<1>4. Followed'
  BY <1>1 DEF ThemeInv, Followed, AsSignalled
<1> QED
  BY <1>2, <1>3, <1>4 DEF ThemeInv

\* Between commits the portal's subscription, if it is registered, has the registry's value.
LEMMA StoredIsLatest ==
  ASSUME FollowInv, pc = "idle", Portal \in registered
  PROVE  /\ inbox[Portal] = <<>> => told[Portal] = stored
         /\ inbox[Portal] # <<>> =>
              \E i \in 1 .. Len(inbox[Portal]) : inbox[Portal][i] = stored
<1>1. Latest(Portal) = stored
  BY DEF FollowInv, Following
<1>2. ASSUME inbox[Portal] # <<>>
      PROVE  \E i \in 1 .. Len(inbox[Portal]) : inbox[Portal][i] = stored
  <2>1. inbox[Portal] \in Seq(Value)
    BY PortalFacts DEF FollowInv, SubscribersTypeOK
  <2>2. Len(inbox[Portal]) \in Nat /\ Len(inbox[Portal]) # 0
    BY <1>2, <2>1, EmptySeq, LenProperties
  <2>3. Len(inbox[Portal]) \in 1 .. Len(inbox[Portal])
    BY <2>2
  <2> QED
    BY <1>1, <1>2, <2>3 DEF Latest
<1> QED
  BY <1>1, <1>2 DEF Latest

LEMMA AnswersTheme == ASSUME FollowInv, ThemeInv, AnswersPortal PROVE ThemeInv'
<1>1. /\ UNCHANGED <<portal, registered, asked, inbox, told, result>>
      /\ answer'[Portal] = stored /\ stored \in Value /\ pc = "idle"
      /\ op[Portal] # None
  BY PortalFacts, OpFacts DEF AnswersPortal, TakeGet, daemon, subscriptions, history,
     FollowInv, CallsInv, CallsTypeOK, InFlight
<1>2. /\ unsure' = (unsure \/ (place = "get" /\ Portal \in asked))
      /\ excused' = (excused \/ (place = "read" /\ (unsure \/ Portal \notin registered)))
  BY DEF AnswersPortal
<1>3. Reading'
  BY <1>1, <1>2 DEF ThemeInv, Reading, portal
<1>4. Themed'
  <2> SUFFICES ASSUME ~unsure' PROVE Themed'
    BY DEF Themed
  <2>1. ~unsure /\ (place = "get" => Portal \notin asked)
    BY <1>2
  <2>2. place = "get" => AsTold(stored)
    BY <1>1, <2>1, StoredIsLatest DEF AsTold
  <2>3. ASSUME NEW v, AsTold(v) PROVE AsTold(v)'
    BY <1>1, <2>3 DEF AsTold
  <2>4. place \notin {"subscribed", "get"} => AsTold(darkTheme)'
    BY <1>1, <2>1 DEF ThemeInv, Themed, AsTold, portal
  <2>5. ASSUME place = "get", NEW v \in Value, v \in {answer'[Portal], result'[Portal]}
        PROVE  AsTold(v)'
    <3>1. CASE v = result[Portal]
      BY <2>1, <2>3, <2>5, <3>1 DEF ThemeInv, Themed
    <3>2. CASE v = stored
      BY <2>2, <2>3, <2>5, <3>2
    <3> QED
      BY <1>1, <2>5, <3>1, <3>2
  <2> QED
    BY <1>1, <2>4, <2>5 DEF Themed, portal
<1>5. Followed'
  <2> SUFFICES ASSUME ~excused' PROVE Followed'
    BY DEF Followed
  <2>1. ~excused /\ (place = "read" => ~unsure /\ Portal \in registered)
    BY <1>2
  <2>2. place = "read" => AsSignalled(stored)
    <3>1. CASE inbox[Portal] = <<>>
      BY <1>1, <2>1, <3>1, StoredIsLatest DEF ThemeInv, Themed, AsTold, AsSignalled
    <3>2. CASE inbox[Portal] # <<>>
      BY <1>1, <2>1, <3>2, StoredIsLatest DEF AsSignalled
    <3> QED
      BY <3>1, <3>2
  <2>3. ASSUME NEW v, AsSignalled(v) PROVE AsSignalled(v)'
    BY <1>1, <2>3 DEF AsSignalled, portal
  <2>4. /\ app' # None => AsSignalled(app)'
        /\ reply' \in Value => AsSignalled(reply)'
    BY <1>1, <2>1 DEF ThemeInv, Followed, AsSignalled, portal
  <2>5. ASSUME place = "read", NEW v \in Value, v \in {answer'[Portal], result'[Portal]}
        PROVE  AsSignalled(v)'
    <3>1. CASE v = result[Portal]
      BY <2>1, <2>3, <2>5, <3>1 DEF ThemeInv, Followed
    <3>2. CASE v = stored
      BY <2>2, <2>3, <2>5, <3>2
    <3> QED
      BY <1>1, <2>5, <3>1, <3>2
  <2> QED
    BY <1>1, <2>4, <2>5 DEF Followed, portal
<1> QED
  BY <1>3, <1>4, <1>5 DEF ThemeInv

\* The rest of the system only adds to the inbox, ends what it has with the portal, or
\* registers it; and what its call returns is the answer it has had.
LEMMA ElsewhereFacts ==
  ASSUME FollowInv, Elsewhere
  PROVE  /\ UNCHANGED <<portal, unsure, excused>>
         /\ \A v \in Value : v \in {answer'[Portal], result'[Portal]} =>
                              v \in {answer[Portal], result[Portal]}
         /\ \/ /\ UNCHANGED <<inbox, told>> /\ asked' \subseteq asked
               /\ registered' \subseteq registered
            \/ /\ UNCHANGED <<registered, asked, told>> /\ Portal \in registered
               /\ \E v \in Value : inbox'[Portal] = Append(inbox[Portal], v)
            \/ UNCHANGED inbox /\ Portal \in asked
<1> USE PortalFacts, OpFacts DEF FollowInv, CallsInv, CallsTypeOK, SubscribersTypeOK
<1>1. UNCHANGED <<portal, unsure, excused>>
  BY DEF Elsewhere, settingsHistory
<1>2. ASSUME NEW v \in Value, v \in {answer'[Portal], result'[Portal]}
      PROVE  v \in {answer[Portal], result[Portal]}
  <2>1. CASE SomebodySets \/ Notify \/ Start \/ Crash \/ HandleSubscribe(Portal)
    BY <1>2, <2>1 DEF SomebodySets, Notify, Start, Crash, HandleSubscribe, calls
  <2>2. CASE Reply
    <3>1. result' = result /\ handling \in Handling
      BY <2>2 DEF Reply, InFlight
    <3>2. \/ answer' = answer
          \/ answer' = [answer EXCEPT ![handling.from] = "ok"]
      BY <2>2 DEF Reply
    <3> QED
      BY <1>2, <3>1, <3>2
  <2>3. CASE CallSteps(Portal) \/ Timeout(Portal)
    BY <1>2, <2>3 DEF CallSteps, Send, ConnectFails, ConnectionLost, Receive, Timeout,
       Disconnect, Return
  <2> QED
    BY <2>1, <2>2, <2>3 DEF Elsewhere
<1>3. CASE Notify
  <2>1. handling.value \in Value /\ UNCHANGED <<registered, asked, told>>
    BY <1>3 DEF Notify, Following, history
  <2>2. inbox'[Portal] = IF Portal \in registered
                         THEN Append(inbox[Portal], handling.value) ELSE inbox[Portal]
    BY <1>3 DEF Notify
  <2>3. CASE Portal \in registered
    BY <1>1, <1>2, <2>1, <2>2, <2>3
  <2>4. CASE Portal \notin registered
    <3>1. inbox' = inbox
      BY <1>3, <2>4 DEF Notify
    <3> QED
      BY <1>1, <1>2, <2>1, <3>1
  <2> QED
    BY <2>3, <2>4
<1>4. CASE HandleSubscribe(Portal)
  BY <1>1, <1>2, <1>4 DEF HandleSubscribe
<1>5. CASE \/ SomebodySets \/ Reply \/ Start \/ Crash
           \/ CallSteps(Portal) \/ Timeout(Portal)
  <2>1. UNCHANGED <<inbox, told>> /\ asked' \subseteq asked /\ registered' \subseteq registered
    BY <1>5 DEF SomebodySets, Commit, Reply, Start, Crash, CallSteps, Send, ConnectFails,
       ConnectionLost, Receive, Timeout, daemon, subscriptions, history
  <2> QED
    BY <1>1, <1>2, <2>1
<1> QED
  BY <1>3, <1>4, <1>5 DEF Elsewhere

LEMMA ElsewhereTheme == ASSUME FollowInv, ThemeInv, Elsewhere PROVE ThemeInv'
<1>1. /\ UNCHANGED <<place, starting, ready, darkTheme, signal, read, reply, app>>
      /\ UNCHANGED <<unsure, excused>>
      /\ \A v \in Value : v \in {answer'[Portal], result'[Portal]} =>
                           v \in {answer[Portal], result[Portal]}
  BY ElsewhereFacts DEF portal
<1>2. inbox[Portal] \in Seq(Value)
  BY PortalFacts DEF FollowInv, SubscribersTypeOK
<1>3. Reading'
  BY <1>1 DEF ThemeInv, Reading
<1>4. ASSUME NEW v, AsTold(v) PROVE AsTold(v)'
  <2>1. CASE /\ UNCHANGED <<inbox, told>> /\ asked' \subseteq asked
             /\ registered' \subseteq registered
    BY <1>4, <2>1 DEF AsTold
  <2>2. CASE /\ UNCHANGED <<registered, asked, told>>
             /\ \E w \in Value : inbox'[Portal] = Append(inbox[Portal], w)
    <3>1. inbox'[Portal] # <<>>
      BY <1>2, <2>2, AppendProperties, EmptySeq
    <3> QED
      BY <1>4, <2>2, <3>1 DEF AsTold
  <2>3. Portal \notin asked
    BY <1>4 DEF AsTold
  <2> QED
    BY <2>1, <2>2, <2>3, ElsewhereFacts
<1>5. ASSUME NEW v, AsSignalled(v) PROVE AsSignalled(v)'
  <2>1. CASE UNCHANGED inbox
    BY <1>1, <1>5, <2>1 DEF AsSignalled
  <2>2. CASE \E w \in Value : inbox'[Portal] = Append(inbox[Portal], w)
    <3>1. \A i \in 1 .. Len(inbox[Portal]) :
            i \in 1 .. Len(inbox'[Portal]) /\ inbox'[Portal][i] = inbox[Portal][i]
      BY <1>2, <2>2, AppendProperties
    <3> QED
      BY <1>1, <1>5, <3>1 DEF AsSignalled
  <2> QED
    BY <2>1, <2>2, ElsewhereFacts
<1>6. Themed'
  <2>1. ~unsure /\ place \notin {"subscribed", "get"} => AsTold(darkTheme)'
    <3>1. PICK d : d = darkTheme
      OBVIOUS
    <3>2. AsTold(darkTheme)' <=> AsTold(d)'
      BY <1>1, <3>1 DEF AsTold
    <3> QED
      BY <1>4, <3>1, <3>2 DEF ThemeInv, Themed
  <2> QED
    BY <1>1, <1>4, <2>1 DEF ThemeInv, Themed
<1>7. Followed'
  <2>1. PICK a, r : a = app /\ r = reply
    OBVIOUS
  <2>2. /\ AsSignalled(app)' <=> AsSignalled(a)'
        /\ AsSignalled(reply)' <=> AsSignalled(r)'
    BY <1>1, <2>1 DEF AsSignalled
  <2> QED
    BY <1>1, <1>5, <2>1, <2>2 DEF ThemeInv, Followed
<1> QED
  BY <1>3, <1>6, <1>7 DEF ThemeInv

(***************************************************************************)
(* The theorems.                                                           *)
(***************************************************************************)

LEMMA ThemeStep ==
  ASSUME FollowInv, ThemeInv, [SettingsNext]_settingsVars PROVE FollowInv' /\ ThemeInv'
<1>1. CASE UNCHANGED settingsVars
  <2>1. UNCHANGED <<vars, place, starting, ready, darkTheme, signal, read, reply, app,
                    unsure, excused>>
    BY <1>1 DEF settingsVars, portal, settingsHistory
  <2>2. Reading'
    BY <2>1 DEF ThemeInv, Reading
  <2>3. Themed'
    BY <2>1 DEF ThemeInv, Themed, AsTold, vars, daemon, calls, subscriptions, history
  <2>4. Followed'
    BY <2>1 DEF ThemeInv, Followed, AsSignalled, vars, calls, subscriptions
  <2> QED
    BY <1>1, <2>2, <2>3, <2>4, SettingsFollow DEF ThemeInv
<1> QED
  BY <1>1, SettingsFollow, LoopTheme, CallTheme, LinkTheme, GotThemeTheme,
     ReadsChangeTheme, BridgeTheme, AppAsksTheme, AnswersTheme, ElsewhereTheme
     DEF SettingsNext, PortalNext

LEMMA ThemeInvariant == SettingsSpec => [](FollowInv /\ ThemeInv)
<1>1. SettingsInit => FollowInv /\ ThemeInv
  BY ThemeInit
<1>2. FollowInv /\ ThemeInv /\ [SettingsNext]_settingsVars => FollowInv' /\ ThemeInv'
  BY ThemeStep
<1> QED
  BY <1>1, <1>2, PTL DEF SettingsSpec

\* Whatever dies, times out or is overtaken in between, once things have settled the
\* portal's theme is the registry's, but for a GetValue that failed after subscribing or
\* was answered before the Subscribe (subscribeRegistry).
THEOREM PortalFollowsHolds == SettingsSpec => []PortalFollows
<1>1. FollowInv /\ ThemeInv => PortalFollows
  <2> SUFFICES ASSUME FollowInv, ThemeInv, Settled, ~unsure PROVE darkTheme = stored
    BY DEF PortalFollows
  <2>1. darkTheme = told[Portal]
    BY DEF ThemeInv, Themed, AsTold, Settled
  <2> QED
    BY <2>1, StoredIsLatest DEF Settled
<1> QED
  BY <1>1, ThemeInvariant, PTL

\* A program that reads the theme and follows SettingChanged has the registry's once
\* things have settled, but for a Read that the registry answered while the portal was
\* not subscribed, and for an answer that a newer signal overtook (dispatch).
THEOREM ProgramFollowsUnlessHolds == SettingsSpec => []ProgramFollowsUnless
<1>1. FollowInv /\ ThemeInv => ProgramFollowsUnless
  <2> SUFFICES ASSUME FollowInv, ThemeInv, ~unsure, ~excused, Settled, app # None
               PROVE  app = stored
    BY DEF ProgramFollowsUnless, ProgramFollows
  <2>1. darkTheme = told[Portal] /\ told[Portal] = stored
    BY StoredIsLatest DEF ThemeInv, Themed, AsTold, Settled
  <2>2. darkTheme # None
    BY <2>1, OpFacts DEF FollowInv, CallsInv, CallsTypeOK
  <2>3. 1 .. Len(inbox[Portal]) = {}
    BY DEF Settled
  <2> QED
    BY <2>1, <2>2, <2>3 DEF ThemeInv, Followed, AsSignalled, Settled
<1> QED
  BY <1>1, ThemeInvariant, PTL

=============================================================================
