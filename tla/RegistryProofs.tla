--------------------------- MODULE RegistryProofs ---------------------------
(***************************************************************************)
(* What the registry guarantees for any number of clients, subscribers and *)
(* values, and however often the daemon dies and calls time out: it        *)
(* implements Register, nobody waits for an answer that is not coming, and *)
(* subscribers follow.                                                     *)
(***************************************************************************)
EXTENDS Registry, SequenceTheorems, TLAPS

(***************************************************************************)
(* The inductive invariant.                                                *)
(***************************************************************************)

CallsTypeOK ==
  /\ stored \in Value
  /\ pc \in {"down", "idle", "reply", "notify"}
  /\ handling \in Handling \cup {None}
  /\ op \in [Client -> Op \cup {None}]
  /\ had \subseteq Client /\ waiting \subseteq Client
  /\ conn \in [Client -> {"none", "open", "dead"}]
  /\ request \in [Client -> Op \cup {None}]
  /\ answer \in [Client -> Value \cup {"ok", "error", None}]
  /\ result \in [Client -> Value \cup {"written", "failed", None}]
  /\ orphans \subseteq Value
  /\ applied \subseteq Client

\* What is under way belongs to the call its client is waiting in.
InFlight ==
  /\ \A c \in waiting : op[c] # None /\ conn[c] # "none"
  /\ \A c \in Client :
       /\ request[c] # None =>
            c \in waiting /\ request[c] = op[c] /\ answer[c] = None /\ conn[c] = "open"
       /\ answer[c] # None => c \in waiting
       /\ answer[c] \in Value => op[c] = Get
       /\ answer[c] = "ok" => c \in applied /\ op[c] \in Sets
  /\ pc = "reply" => handling # None
  /\ pc = "reply" /\ handling.from # None =>
       /\ handling.from \in waiting \cap applied
       /\ op[handling.from] \in Sets
       /\ request[handling.from] = None /\ answer[handling.from] = None

CallsInv == CallsTypeOK /\ InFlight /\ NobodyWaitsInVain

LEMMA OpFacts ==
  /\ None \notin Op /\ Get \notin Sets /\ Get \in Op /\ None \notin Handling
  /\ \A v \in Value : Set(v) \in Sets /\ Set(v).value = v
  /\ \A o \in Sets : o.value \in Value /\ o # None /\ o \in Op
  /\ \A o \in Op : o = Get \/ o \in Sets
  /\ "ok" \notin Value /\ "error" \notin Value /\ None \notin Value
  /\ "written" \notin Value /\ "failed" \notin Value
  /\ None # "ok" /\ None # "error" /\ None # "failed" /\ None # "written"
  /\ None \notin Client
<1> USE ConstantsOK, NoneOK DEF ConstantsOK, NoneOK
<1>1. None \notin Op /\ Get \in Op /\ None \notin Handling
  BY DEF Op
<1>2. Get \notin Sets
  BY DEF Sets, Set, Get
<1>3. \A v \in Value : Set(v) \in Sets /\ Set(v).value = v
  BY DEF Sets, Set
<1>4. \A o \in Sets : o.value \in Value /\ o # None /\ o \in Op
  BY <1>1, <1>3 DEF Op, Sets
<1>5. \A o \in Op : o = Get \/ o \in Sets
  BY DEF Op
<1>6. /\ "ok" \notin Value /\ "error" \notin Value /\ None \notin Value
      /\ "written" \notin Value /\ "failed" \notin Value
      /\ None # "ok" /\ None # "error" /\ None # "failed" /\ None # "written"
      /\ None \notin Client
  OBVIOUS
<1> QED
  BY <1>1, <1>2, <1>3, <1>4, <1>5, <1>6

LEMMA CallsInit == Init => CallsInv
  BY ConstantsOK DEF Init, CallsInv, CallsTypeOK, InFlight, NobodyWaitsInVain

\* Call by call, the client's and the daemon's steps keep CallsInv.
LEMMA CallStepsInv ==
  ASSUME NEW c \in Client, CallsInv, CallSteps(c) \/ Timeout(c)
  PROVE  CallsInv'
<1> USE OpFacts DEF CallsInv, CallsTypeOK, InFlight, NobodyWaitsInVain
<1>1. CASE Send(c)
  BY <1>1 DEF Send, daemon, subscriptions, history
<1>2. CASE ConnectFails(c)
  BY <1>2 DEF ConnectFails, Return, daemon, subscriptions
<1>3. CASE ConnectionLost(c)
  BY <1>3 DEF ConnectionLost, Disconnect, Return, MayRetry, subscriptions, Handling
<1>4. CASE Receive(c)
  BY <1>4 DEF Receive, Return, daemon, subscriptions
<1>5. CASE Timeout(c)
  BY <1>5 DEF Timeout, Disconnect, Return, subscriptions, Handling
<1> QED
  BY <1>1, <1>2, <1>3, <1>4, <1>5 DEF CallSteps

LEMMA CommitFacts ==
  ASSUME NEW v \in Value, NEW from \in Client \cup {None}, Commit(v, from)
  PROVE  /\ handling' \in Handling /\ handling'.from = from /\ handling'.value = v
         /\ handling'.changed = Changes(v) /\ stored' = v /\ pc' = "reply"
  BY DEF Commit, Changes, Handling

LEMMA ServeInv == ASSUME CallsInv, Serve PROVE CallsInv'
<1> USE OpFacts DEF CallsInv, CallsTypeOK, InFlight, NobodyWaitsInVain
<1>1. CASE TakeOrphan
  <2>1. PICK v \in orphans : Commit(v, None) /\ orphans' \in {orphans, orphans \ {v}}
    BY <1>1 DEF TakeOrphan
  <2>2. /\ handling' \in Handling /\ handling'.from = None /\ stored' \in Value
        /\ pc' = "reply"
    BY <2>1, CommitFacts
  <2> QED
    BY <1>1, <2>1, <2>2 DEF TakeOrphan, subscriptions, history
<1>2. CASE Reply
  <2>1. handling \in Handling /\ handling.from \in Client \cup {None}
    BY <1>2 DEF Reply, Handling
  <2>2. CASE handling.from = None
    BY <1>2, <2>1, <2>2 DEF Reply, subscriptions, history
  <2>3. CASE handling.from # None
    <3> DEFINE c == handling.from
    <3>1. /\ c \in Client /\ c \in waiting /\ c \in applied /\ op[c] \in Sets
          /\ request[c] = None /\ answer[c] = None
      BY <1>2, <2>1, <2>3 DEF Reply
    <3>2. answer' = [answer EXCEPT ![c] = "ok"]
      BY <1>2, <2>3 DEF Reply
    <3>3. handling' \in {handling, None} /\ pc' \in {"notify", "idle"}
      BY <1>2 DEF Reply
    <3>4. UNCHANGED <<stored, op, had, waiting, conn, request, result, orphans, applied>>
      BY <1>2 DEF Reply, history
    <3> HIDE DEF c
    <3>5. CallsTypeOK'
      BY <2>1, <3>1, <3>2, <3>3, <3>4
    <3>6. InFlight'
      BY <2>1, <3>1, <3>2, <3>3, <3>4
    <3>7. NobodyWaitsInVain'
      <4>1. ASSUME NEW d \in waiting, d # c PROVE ~(handling # None /\ handling.from = d)
        BY <4>1 DEF c
      <4> QED
        BY <2>1, <3>1, <3>2, <3>4, <4>1
    <3> QED
      BY <3>5, <3>6, <3>7
  <2> QED
    BY <2>1, <2>2, <2>3
<1>3. CASE Notify
  BY <1>3 DEF Notify, calls, history
<1>4. CASE Start
  BY <1>4 DEF Start, calls, subscriptions, history
<1>5. ASSUME NEW c \in Client, TakeGet(c) PROVE CallsInv'
  BY <1>5 DEF TakeGet, daemon, subscriptions, history
<1>6. ASSUME NEW c \in Client, TakeSet(c) PROVE CallsInv'
  <2>1. request[c] \in Sets /\ request[c].value \in Value
    BY <1>6 DEF TakeSet
  <2>2. CASE Commit(request[c].value, c) /\ applied' = applied \cup {c} /\ UNCHANGED answer
    <3>1. /\ handling' \in Handling /\ handling'.from = c /\ stored' \in Value
          /\ pc' = "reply" /\ pc = "idle"
      BY <1>6, <2>1, <2>2, CommitFacts DEF TakeSet
    <3> QED
      BY <1>6, <2>1, <2>2, <3>1 DEF TakeSet, subscriptions
  <2>3. CASE /\ answer' = [answer EXCEPT ![c] = "error"]
             /\ UNCHANGED <<daemon, applied>>
    BY <1>6, <2>1, <2>3 DEF TakeSet, daemon, subscriptions
  <2> QED
    BY <1>6, <2>2, <2>3 DEF TakeSet
<1>7. ASSUME NEW s \in Subscriber, HandleSubscribe(s) PROVE CallsInv'
  BY <1>7 DEF HandleSubscribe, calls
<1> QED
  BY <1>1, <1>2, <1>3, <1>4, <1>5, <1>6, <1>7 DEF Serve

LEMMA CallsStep == CallsInv /\ [Next]_vars => CallsInv'
<1> SUFFICES ASSUME CallsInv, [Next]_vars PROVE CallsInv'
  OBVIOUS
<1> USE OpFacts DEF CallsInv, CallsTypeOK, InFlight, NobodyWaitsInVain
<1>1. CASE Crash
  BY <1>1 DEF Crash, Cut, history
<1>2. ASSUME NEW c \in Client, NEW o \in Op, Call(c, o) PROVE CallsInv'
  BY <1>2 DEF Call, daemon, subscriptions, history
<1>3. ASSUME NEW s \in Subscriber, Subscribe(s) \/ ReadChange(s) \/ SubscriptionEnds(s)
      PROVE  CallsInv'
  BY <1>3 DEF Subscribe, ReadChange, SubscriptionEnds, daemon, calls, history
<1>4. CASE UNCHANGED vars
  BY <1>4 DEF vars, daemon, calls, subscriptions, history
<1> QED
  BY <1>1, <1>2, <1>3, <1>4, CallStepsInv, ServeInv DEF Next

(***************************************************************************)
(* The refinement.                                                         *)
(***************************************************************************)

\* The value a client's GetValue has looked up, as Promise has it.
Seen == [c \in Client |-> IF answer[c] \in Value THEN answer[c] ELSE None]

LEMMA PromiseInit == Init => Promise!Init
  BY OpFacts DEF Init, Promise!Init

\* Leaving answers other than values, and putting such answers for others, is not
\* seen by Promise.
LEMMA SeenFacts ==
  ASSUME NEW c \in Client, NEW r, CallsTypeOK, answer' = [answer EXCEPT ![c] = r]
  PROVE  /\ r \notin Value => Seen' = [Seen EXCEPT ![c] = None]
         /\ r \in Value => Seen' = [Seen EXCEPT ![c] = r]
         /\ r \notin Value /\ answer[c] \notin Value => Seen' = Seen
  BY DEF Seen, CallsTypeOK

\* call() as a whole returns with, or without, a value or success.
LEMMA CallStepsPromise ==
  ASSUME NEW c \in Client, CallsInv, CallSteps(c) \/ Timeout(c)
  PROVE  [Promise!Next]_Promise!vars
<1> USE OpFacts DEF CallsInv, CallsTypeOK, InFlight, Promise!vars
<1>1. CASE Send(c)
  BY <1>1 DEF Send, daemon, subscriptions, history
<1>2. CASE ConnectFails(c)
  <2>1. Seen' = [Seen EXCEPT ![c] = None]
    BY <1>2 DEF ConnectFails, Seen
  <2>2. Promise!Failed(c)
    BY <1>2, <2>1 DEF ConnectFails, Return, daemon, Promise!Failed, Promise!Return, Seen
  <2> QED
    BY <2>2 DEF Promise!Next
<1>3. CASE ConnectionLost(c)
  <2>1. Seen' = [Seen EXCEPT ![c] = None] /\ Seen' = Seen
    BY <1>3 DEF ConnectionLost, Disconnect, Seen
  <2>2. request[c] = None /\ orphans' = orphans
    BY <1>3 DEF ConnectionLost, Disconnect
  <2>3. CASE Return(c, "failed")
    <3>1. Promise!Failed(c)
      BY <1>3, <2>1, <2>2, <2>3
         DEF ConnectionLost, Return, Promise!Failed, Promise!Return, Seen
    <3> QED
      BY <3>1 DEF Promise!Next
  <2>4. CASE UNCHANGED <<op, result, applied>>
    BY <1>3, <2>1, <2>2, <2>4 DEF ConnectionLost, Seen
  <2> QED
    BY <1>3, <2>3, <2>4 DEF ConnectionLost
<1>4. CASE Receive(c)
  <2>1. Seen' = [Seen EXCEPT ![c] = None]
    BY <1>4 DEF Receive, Seen
  <2>2. CASE answer[c] = "ok"
    <3>1. Promise!Written(c)
      BY <1>4, <2>1, <2>2
         DEF Receive, Return, daemon, Promise!Written, Promise!Return, Seen
    <3> QED
      BY <3>1 DEF Promise!Next
  <2>3. CASE answer[c] = "error"
    <3>1. Promise!Failed(c)
      BY <1>4, <2>1, <2>3
         DEF Receive, Return, daemon, Promise!Failed, Promise!Return, Seen
    <3> QED
      BY <3>1 DEF Promise!Next
  <2>4. CASE answer[c] \in Value
    <3>1. Return(c, answer[c])
      BY <1>4, <2>4 DEF Receive
    <3>2. Promise!Found(c)
      BY <1>4, <2>1, <2>4, <3>1
         DEF Receive, Return, daemon, Promise!Found, Promise!Return, Seen
    <3> QED
      BY <3>2 DEF Promise!Next
  <2> QED
    BY <1>4, <2>2, <2>3, <2>4 DEF Receive
<1>5. CASE Timeout(c)
  <2>1. Seen' = [Seen EXCEPT ![c] = None]
    BY <1>5 DEF Timeout, Disconnect, Seen
  <2>2. orphans' = orphans \/ (op[c] # Get /\ orphans' = orphans \cup {op[c].value})
    BY <1>5 DEF Timeout, Disconnect
  <2>3. Promise!Failed(c)
    BY <1>5, <2>1, <2>2 DEF Timeout, Return, Promise!Failed, Promise!Return,
       Promise!Get, Seen, Get
  <2> QED
    BY <2>3 DEF Promise!Next
<1> QED
  BY <1>1, <1>2, <1>3, <1>4, <1>5 DEF CallSteps

LEMMA ServePromise ==
  ASSUME CallsInv, Serve PROVE [Promise!Next]_Promise!vars
<1> USE OpFacts DEF CallsInv, CallsTypeOK, InFlight, Promise!vars
<1>1. CASE TakeOrphan
  <2>1. Promise!StrayWrite
    BY <1>1 DEF TakeOrphan, Commit, subscriptions, history, Promise!StrayWrite
  <2> QED
    BY <2>1 DEF Promise!Next
<1>2. CASE Reply
  <2>1. Seen' = Seen
    BY <1>2, SeenFacts DEF Reply, Seen, Handling
  <2> QED
    BY <1>2, <2>1 DEF Reply, subscriptions, history, Seen
<1>3. CASE Notify \/ Start
  BY <1>3 DEF Notify, Start, calls, subscriptions, history
<1>4. ASSUME NEW c \in Client, TakeGet(c) PROVE Promise!Next
  <2>1. Seen' = [Seen EXCEPT ![c] = stored]
    BY <1>4 DEF TakeGet, Seen
  <2>2. Promise!LookUp(c)
    BY <1>4, <2>1 DEF TakeGet, daemon, subscriptions, history, Promise!LookUp, Seen,
       Promise!Get, Get
  <2> QED
    BY <2>2 DEF Promise!Next
<1>5. ASSUME NEW c \in Client, TakeSet(c) PROVE [Promise!Next]_Promise!vars
  <2>1. request[c] = op[c] /\ op[c] \in Sets /\ answer[c] = None
    BY <1>5 DEF TakeSet
  <2>2. CASE Commit(request[c].value, c) /\ applied' = applied \cup {c} /\ UNCHANGED answer
    <3>1. op[c] \in {Promise!Set(v) : v \in Value}
      BY <2>1 DEF Promise!Set, Sets, Set
    <3>2. Promise!Write(c)
      BY <1>5, <2>1, <2>2, <3>1 DEF TakeSet, Commit, subscriptions, Promise!Write
    <3> QED
      BY <3>2 DEF Promise!Next
  <2>3. CASE answer' = [answer EXCEPT ![c] = "error"] /\ UNCHANGED <<daemon, applied>>
    <3>1. Seen' = Seen
      BY <2>1, <2>3, SeenFacts
    <3> QED
      BY <1>5, <2>3, <3>1 DEF TakeSet, daemon, subscriptions, Seen
  <2> QED
    BY <1>5, <2>2, <2>3 DEF TakeSet
<1>6. ASSUME NEW s \in Subscriber, HandleSubscribe(s) PROVE [Promise!Next]_Promise!vars
  BY <1>6 DEF HandleSubscribe, calls
<1> QED
  BY <1>1, <1>2, <1>3, <1>4, <1>5, <1>6 DEF Serve

LEMMA PromiseStep == CallsInv /\ [Next]_vars => [Promise!Next]_Promise!vars
<1> SUFFICES ASSUME CallsInv, [Next]_vars PROVE [Promise!Next]_Promise!vars
  OBVIOUS
<1>1. CASE Crash
  <2>1. Promise!StrayLost
    BY <1>1 DEF Crash, history, Promise!StrayLost
  <2> QED
    BY <2>1 DEF Promise!Next
<1>2. ASSUME NEW c \in Client, NEW o \in Op, Call(c, o) PROVE Promise!Next
  <2>1. o \in Promise!Op
    BY DEF Op, Sets, Set, Get, Promise!Op, Promise!Set, Promise!Get
  <2>2. Promise!Call(c)
    BY <1>2, <2>1 DEF Call, daemon, history, Promise!Call
  <2> QED
    BY <2>2 DEF Promise!Next
<1>3. ASSUME NEW s \in Subscriber, Subscribe(s) \/ ReadChange(s) \/ SubscriptionEnds(s)
      PROVE  UNCHANGED Promise!vars
  BY <1>3 DEF Subscribe, ReadChange, SubscriptionEnds, daemon, calls, history, Promise!vars
<1>4. CASE UNCHANGED vars
  BY <1>4 DEF vars, daemon, calls, history, Promise!vars
<1> QED
  BY <1>1, <1>2, <1>3, <1>4, CallStepsPromise, ServePromise DEF Next

(***************************************************************************)
(* The subscribers.                                                        *)
(***************************************************************************)

\* What a subscriber takes the key for once it has read everything.
Latest(s) == IF inbox[s] = <<>> THEN told[s] ELSE inbox[s][Len(inbox[s])]

SubscribersTypeOK ==
  /\ registered \subseteq Subscriber /\ asked \subseteq Subscriber
  /\ link \in [Subscriber -> {"none", "open", "dead"}]
  /\ inbox \in [Subscriber -> Seq(Value)]
  /\ told \in [Subscriber -> Value \cup {None}]
  /\ crashes \in 0 .. MaxCrashes /\ timeouts \in 0 .. MaxTimeouts

\* Between its commit and Notify the daemon owes its subscribers a change.
Following ==
  /\ \A s \in registered : link[s] = "open"
  /\ \A s \in asked : s \notin registered /\ link[s] = "open" /\ inbox[s] = <<>>
  /\ \A s \in Subscriber : link[s] = "none" => inbox[s] = <<>>
  /\ pc = "down" => registered = {}
  /\ pc \in {"reply", "notify"} => handling # None /\ handling.value = stored
  /\ pc = "idle" \/ (pc = "reply" /\ ~handling.changed) =>
       \A s \in registered : Latest(s) = stored

FollowInv == CallsInv /\ SubscribersTypeOK /\ Following

LEMMA FollowInit == Init => FollowInv
  BY ConstantsOK, CallsInit DEF Init, FollowInv, SubscribersTypeOK, Following

\* Clients do not touch subscribers, nor what the daemon owes them.
LEMMA CallStepsFollow ==
  ASSUME NEW c \in Client, FollowInv, CallSteps(c) \/ Timeout(c)
  PROVE  SubscribersTypeOK' /\ Following'
<1>1. UNCHANGED <<stored, pc, registered, crashes, link, asked, inbox, told>>
  BY DEF CallSteps, Send, ConnectFails, ConnectionLost, Receive, Timeout, daemon,
     subscriptions, history
<1>2. timeouts' \in 0 .. MaxTimeouts
  BY ConstantsOK DEF FollowInv, SubscribersTypeOK, CallSteps, Send, ConnectFails,
     ConnectionLost, Receive, Timeout
<1>3. /\ handling' = None <=> handling = None
      /\ handling # None =>
           handling'.value = handling.value /\ handling'.changed = handling.changed
  <2>1. CASE UNCHANGED handling
    BY <2>1
  <2>2. CASE Disconnect(c)
    BY <2>2, OpFacts DEF Disconnect, FollowInv, CallsInv, CallsTypeOK, Handling
  <2> QED
    BY <2>1, <2>2
       DEF CallSteps, Send, ConnectFails, ConnectionLost, Receive, Timeout, daemon
<1>4. \A s \in Subscriber : Latest(s)' = Latest(s)
  BY <1>1 DEF Latest
<1> QED
  BY <1>1, <1>2, <1>3, <1>4 DEF FollowInv, SubscribersTypeOK, Following

\* Every path to a commit owes the change, if it is one, and pays it in Notify.
LEMMA CommitFollows ==
  ASSUME FollowInv, NEW v \in Value, NEW from \in Client \cup {None}, Commit(v, from),
         pc = "idle", UNCHANGED <<subscriptions, told, timeouts>>
  PROVE  SubscribersTypeOK' /\ Following'
<1>1. UNCHANGED <<registered, crashes, link, asked, inbox, told, timeouts>>
  BY DEF Commit, subscriptions
<1>2. \A s \in Subscriber : Latest(s)' = Latest(s)
  BY <1>1 DEF Latest
<1> QED
  BY <1>1, <1>2, CommitFacts, OpFacts DEF FollowInv, SubscribersTypeOK, Following, Changes

LEMMA NotifyFollows ==
  ASSUME FollowInv, Notify PROVE SubscribersTypeOK' /\ Following'
<1> USE DEF FollowInv, SubscribersTypeOK
<1>1. stored \in Value /\ handling.value = stored
  BY DEF CallsInv, CallsTypeOK, Following, Notify
<1>2. inbox' = [s \in Subscriber |-> IF s \in registered
                                     THEN Append(inbox[s], stored) ELSE inbox[s]]
  BY <1>1 DEF Notify
<1>3. SubscribersTypeOK'
  BY <1>1, <1>2 DEF Notify, calls, history
<1>4. ASSUME NEW s \in registered PROVE Latest(s)' = stored
  <2>1. inbox[s] \in Seq(Value) /\ inbox'[s] = Append(inbox[s], stored)
    BY <1>2
  <2> QED
    BY <1>1, <2>1, AppendProperties DEF Latest
<1>5. ASSUME NEW s \in Subscriber, link[s] = "none" \/ s \in asked
      PROVE  inbox'[s] = inbox[s]
  <2>1. s \notin registered
    BY <1>5 DEF Following, Notify
  <2> QED
    BY <1>2, <2>1
<1> QED
  BY <1>3, <1>4, <1>5 DEF Notify, Following

LEMMA LastOfTail ==
  ASSUME NEW S, NEW q \in Seq(S), q # <<>>, Len(q) # 1
  PROVE  /\ Tail(q) # <<>> /\ Len(Tail(q)) = Len(q) - 1
         /\ Tail(q)[Len(q) - 1] = q[Len(q)]
<1> DEFINE n == Len(q)
<1>1. n \in Nat /\ n # 0 /\ n # 1
  <2>1. Len(q) # 0
    BY EmptySeq
  <2> QED
    BY <2>1, LenProperties
<1>2. /\ Tail(q) \in Seq(S) /\ Len(Tail(q)) = n - 1
      /\ \A i \in 1 .. Len(Tail(q)) : Tail(q)[i] = q[i + 1]
  BY HeadTailProperties
<1> HIDE DEF n
<1>3. n - 1 # 0 /\ n - 1 \in 1 .. n - 1 /\ (n - 1) + 1 = n
  BY <1>1
<1>4. Tail(q) # <<>>
  <2>1. Len(Tail(q)) # 0
    BY <1>2, <1>3
  <2> QED
    BY <2>1, EmptySeq, Zenon
<1>5. Tail(q)[n - 1] = q[n]
  BY <1>2, <1>3
<1> QED
  BY <1>2, <1>4, <1>5 DEF n

LEMMA ReadChangeFollows ==
  ASSUME FollowInv, NEW s \in Subscriber, ReadChange(s)
  PROVE  SubscribersTypeOK' /\ Following'
<1> USE DEF FollowInv, SubscribersTypeOK
<1>1. /\ inbox[s] \in Seq(Value) /\ inbox[s] # <<>>
      /\ inbox' = [inbox EXCEPT ![s] = Tail(inbox[s])]
      /\ told' = [told EXCEPT ![s] = Head(inbox[s])]
  BY DEF ReadChange
<1>2. SubscribersTypeOK'
  BY <1>1 DEF ReadChange, daemon, calls
<1>3. Latest(s)' = Latest(s)
  <2>1. CASE Len(inbox[s]) = 1
    BY <1>1, <2>1 DEF Latest
  <2>2. CASE Len(inbox[s]) # 1
    <3>1. /\ Tail(inbox[s]) # <<>> /\ Len(Tail(inbox[s])) = Len(inbox[s]) - 1
          /\ Tail(inbox[s])[Len(inbox[s]) - 1] = inbox[s][Len(inbox[s])]
      BY <1>1, <2>2, LastOfTail
    <3> QED
      BY <1>1, <3>1 DEF Latest
  <2> QED
    BY <2>1, <2>2
<1>4. ASSUME NEW t \in Subscriber, t # s PROVE Latest(t)' = Latest(t)
  BY <1>1, <1>4 DEF Latest
<1> QED
  BY <1>1, <1>2, <1>3, <1>4 DEF Following, ReadChange, daemon, calls

LEMMA ServeFollows ==
  ASSUME FollowInv, Serve PROVE SubscribersTypeOK' /\ Following'
<1>1. CASE TakeOrphan
  <2>1. PICK v \in orphans : Commit(v, None)
    BY <1>1 DEF TakeOrphan
  <2>2. v \in Value
    BY DEF FollowInv, CallsInv, CallsTypeOK
  <2> QED
    BY <1>1, <2>1, <2>2, CommitFollows DEF TakeOrphan, history
<1>2. CASE Reply \/ Start
  BY <1>2 DEF Reply, Start, calls, subscriptions, history, FollowInv, SubscribersTypeOK,
     Following, Latest
<1>3. CASE Notify
  BY <1>3, NotifyFollows
<1>4. ASSUME NEW c \in Client, TakeGet(c) PROVE SubscribersTypeOK' /\ Following'
  BY <1>4 DEF TakeGet, daemon, subscriptions, history, FollowInv, SubscribersTypeOK,
     Following, Latest
<1>5. ASSUME NEW c \in Client, TakeSet(c) PROVE SubscribersTypeOK' /\ Following'
  <2>1. CASE Commit(request[c].value, c)
    BY <1>5, <2>1, CommitFollows, OpFacts DEF TakeSet
  <2>2. CASE UNCHANGED daemon
    BY <1>5, <2>2 DEF TakeSet, daemon, subscriptions, FollowInv, SubscribersTypeOK,
       Following, Latest
  <2> QED
    BY <1>5, <2>1, <2>2 DEF TakeSet
<1>6. ASSUME NEW s \in Subscriber, HandleSubscribe(s)
      PROVE  SubscribersTypeOK' /\ Following'
  <2>1. inbox[s] = <<>> /\ link[s] = "open" /\ stored \in Value
    BY <1>6 DEF HandleSubscribe, FollowInv, Following, CallsInv, CallsTypeOK
  <2>2. SubscribersTypeOK'
    BY <1>6, <2>1 DEF HandleSubscribe, calls, FollowInv, SubscribersTypeOK
  <2>3. Latest(s)' = stored
    BY <1>6, <2>1 DEF HandleSubscribe, Latest, FollowInv, SubscribersTypeOK
  <2>4. ASSUME NEW t \in Subscriber, t # s PROVE Latest(t)' = Latest(t)
    BY <1>6, <2>4 DEF HandleSubscribe, Latest, FollowInv, SubscribersTypeOK
  <2> QED
    BY <1>6, <2>1, <2>2, <2>3, <2>4
       DEF HandleSubscribe, FollowInv, Following, SubscribersTypeOK
<1> QED
  BY <1>1, <1>2, <1>3, <1>4, <1>5, <1>6 DEF Serve

LEMMA FollowStep == FollowInv /\ [Next]_vars => FollowInv'
<1> SUFFICES ASSUME FollowInv, [Next]_vars PROVE FollowInv'
  OBVIOUS
<1>1. CallsInv'
  BY CallsStep DEF FollowInv
<1>2. CASE Crash
  BY <1>1, <1>2, ConstantsOK
     DEF Crash, Cut, history, FollowInv, SubscribersTypeOK, Following
<1>3. ASSUME NEW c \in Client, NEW o \in Op, Call(c, o) PROVE FollowInv'
  BY <1>1, <1>3 DEF Call, daemon, subscriptions, history, FollowInv, SubscribersTypeOK,
     Following, Latest
<1>4. ASSUME NEW s \in Subscriber, Subscribe(s) \/ SubscriptionEnds(s) PROVE FollowInv'
  BY SMTT(30), <1>1, <1>4 DEF Subscribe, SubscriptionEnds, daemon, calls, history, FollowInv,
     SubscribersTypeOK, Following, Latest
<1>5. CASE UNCHANGED vars
  BY <1>1, <1>5 DEF vars, daemon, calls, subscriptions, history, FollowInv,
     SubscribersTypeOK, Following, Latest
<1> QED
  BY <1>1, <1>2, <1>3, <1>4, <1>5, CallStepsFollow, ServeFollows, ReadChangeFollows
     DEF Next, FollowInv

(***************************************************************************)
(* The theorems.                                                           *)
(***************************************************************************)

LEMMA Invariant == Spec => []FollowInv
<1>1. Init => FollowInv
  BY FollowInit
<1>2. FollowInv /\ [Next]_vars => FollowInv'
  BY FollowStep
<1> QED
  BY <1>1, <1>2, PTL DEF Spec

\* Every variable of the daemon, its clients and its subscribers keeps its type, for any
\* number of them.
THEOREM TypeCorrect == Spec => []TypeOK
<1>1. FollowInv => TypeOK
  BY DEF FollowInv, CallsInv, CallsTypeOK, SubscribersTypeOK, TypeOK
<1> QED
  BY <1>1, Invariant, PTL

\* tcc_registry and its client library implement Register: with any number of clients,
\* crashes and timeouts, the retries of call() and the requests left behind by clients
\* that gave up only do what Register says.
THEOREM KeepsPromiseHolds == Spec => KeepsPromise
<1>1. Init => Promise!Init
  BY PromiseInit
<1>2. CallsInv /\ [Next]_vars => [Promise!Next]_Promise!vars
  BY PromiseStep
<1>3. FollowInv => CallsInv
  BY DEF FollowInv
<1> QED
  BY <1>1, <1>2, <1>3, Invariant, PTL DEF Spec, KeepsPromise, Promise!Spec

\* No client of the registry, of any number, waits for an answer that is not coming
\* (attempt), whenever the daemon dies.
THEOREM NobodyWaitsInVainHolds == Spec => []NobodyWaitsInVain
<1>1. FollowInv => NobodyWaitsInVain
  BY DEF FollowInv, CallsInv
<1> QED
  BY <1>1, Invariant, PTL

\* Any number of subscribers follow the key through any number of restarts, whatever the
\* writers do (SetValue, notify, Subscribe).
THEOREM SubscribersFollowHolds == Spec => []SubscribersFollow
<1>1. FollowInv => SubscribersFollow
  BY DEF FollowInv, Following, SubscribersFollow, Latest
<1> QED
  BY <1>1, Invariant, PTL

=============================================================================
