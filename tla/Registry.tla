------------------------------ MODULE Registry ------------------------------
(***************************************************************************)
(* The settings daemon (registry/daemon) and its client library            *)
(* (registry/lib), for one key: calls over connections that break when the *)
(* daemon does, their one retry and their timeout; and subscriptions.      *)
(*                                                                         *)
(* varlink is external: a connection is a request and an answer in         *)
(* flight, which the daemon takes in any order among connections.  The     *)
(* daemon may die between any two of a handler's steps; what it has        *)
(* written to a socket can still be read, and what it has committed stays. *)
(***************************************************************************)
EXTENDS Naturals, Sequences

CONSTANTS
  Client,      \* TCCRegistryConnections
  Subscriber,  \* TCCRegistrySubscriptions
  Value, Default, None,
  MaxCrashes,  \* bound: times the daemon dies
  MaxTimeouts, \* bound: calls that time out
  MaxInbox     \* bound: changes a subscriber has not read (a SetValue waits for room)

ASSUME ConstantsOK ==
  /\ Default \in Value /\ None \notin Value
  /\ {"ok", "error", "written", "failed"} \cap Value = {}
  /\ None \notin {"ok", "error", "written", "failed"} \cup Client
  /\ MaxCrashes \in Nat /\ MaxTimeouts \in Nat /\ MaxInbox \in Nat \ {0}

VARIABLES
  \* The daemon.
  stored,     \* the key's value in settings.db, or its default
  pc,         \* "idle", "reply" and "notify" within SetValue; "down"
  handling,   \* what SetValue has yet to do
  registered, \* subscribers
  crashes,
  \* The clients.
  op,         \* the call in progress
  had,        \* had_connection, until the retry it allows
  waiting,    \* clients in attempt's loop
  conn,       \* mConn: "none", "open", "dead" (the daemon has gone)
  request, answer, \* in flight on it
  result,     \* what the last call returned
  orphans,    \* values of SetValue requests whose connections have been closed
  timeouts,
  \* The subscribers.
  link,       \* their mConn
  asked,      \* subscribers whose Subscribe has not been handled
  inbox,      \* changes sent to them
  \* History, for properties only.
  applied,    \* clients whose call has written
  told        \* what the key was when a subscriber was registered, then the last
              \* change it read

daemon == <<stored, pc, handling, registered, crashes>>
calls == <<op, had, waiting, conn, request, answer, result, orphans, timeouts>>
subscriptions == <<link, asked, inbox>>
history == <<applied, told>>
vars == <<daemon, calls, subscriptions, history>>

Set(v) == [method |-> "SetValue", value |-> v]
Get == [method |-> "GetValue", value |-> None]
Sets == {Set(v) : v \in Value}
Op == Sets \cup {Get}
Handling == [from : Client \cup {None}, value : Value, changed : BOOLEAN]

ASSUME NoneOK == None \notin Op \cup Handling

Init ==
  /\ stored = Default
  /\ pc = "down" /\ handling = None /\ registered = {} /\ crashes = 0
  /\ op = [c \in Client |-> None]
  /\ had = {} /\ waiting = {}
  /\ conn = [c \in Client |-> "none"]
  /\ request = [c \in Client |-> None]
  /\ answer = [c \in Client |-> None]
  /\ result = [c \in Client |-> None]
  /\ orphans = {} /\ timeouts = 0
  /\ link = [s \in Subscriber |-> "none"]
  /\ asked = {}
  /\ inbox = [s \in Subscriber |-> <<>>]
  /\ applied = {}
  /\ told = [s \in Subscriber |-> None]

(***************************************************************************)
(* Definitions with a mistake.                                             *)
(***************************************************************************)
Disconnect_Not(c) == UNCHANGED <<conn, request, answer, orphans, handling>>

Changes_Never(v) == FALSE

Cut_Unnoticed(peers) == peers

(***************************************************************************)
(* The client library.                                                     *)
(***************************************************************************)

\* Whether call() makes a second attempt when a connection turns out to be lost.
MayRetry(c) == c \in had

\* disconnect.  A request the daemon has not read yet may still be carried out.
Disconnect(c) ==
  /\ conn' = [conn EXCEPT ![c] = "none"]
  /\ request' = [request EXCEPT ![c] = None]
  /\ answer' = [answer EXCEPT ![c] = None]
  /\ orphans' = IF request[c] \in Sets THEN orphans \cup {request[c].value} ELSE orphans
  /\ handling' = IF handling # None /\ handling.from = c
                 THEN [handling EXCEPT !.from = None] ELSE handling

\* The end of call(), and of SetValue or GetValue.
Return(c, r) ==
  /\ op' = [op EXCEPT ![c] = None]
  /\ had' = had \ {c}
  /\ waiting' = waiting \ {c}
  /\ applied' = applied \ {c}
  /\ result' = [result EXCEPT ![c] = r]

\* The beginning of call().
Call(c, o) ==
  /\ op[c] = None
  /\ op' = [op EXCEPT ![c] = o]
  /\ had' = IF conn[c] = "none" THEN had ELSE had \cup {c}
  /\ result' = [result EXCEPT ![c] = None]
  /\ UNCHANGED <<daemon, waiting, conn, request, answer, orphans, timeouts,
                 subscriptions, history>>

\* attempt, up to the request: connecting when there is no connection.
Send(c) ==
  /\ op[c] # None /\ c \notin waiting
  /\ conn[c] = "open" \/ (conn[c] = "none" /\ pc # "down")
  /\ conn' = [conn EXCEPT ![c] = "open"]
  /\ request' = [request EXCEPT ![c] = op[c]]
  /\ waiting' = waiting \cup {c}
  /\ UNCHANGED <<daemon, op, had, answer, result, orphans, timeouts,
                 subscriptions, history>>

\* connect fails.
ConnectFails(c) ==
  /\ op[c] # None /\ c \notin waiting
  /\ conn[c] = "none" /\ pc = "down"
  /\ Return(c, "failed")
  /\ UNCHANGED <<daemon, conn, request, answer, orphans, timeouts, subscriptions, told>>

\* Sending or waiting finds the connection closed: Result::Lost.
ConnectionLost(c) ==
  /\ op[c] # None
  /\ conn[c] = "dead" /\ answer[c] = None
  /\ Disconnect(c)
  /\ \/ /\ MayRetry(c)
        /\ had' = had \ {c} /\ waiting' = waiting \ {c}
        /\ UNCHANGED <<op, result, applied>>
     \/ ~MayRetry(c) /\ Return(c, "failed")
  /\ UNCHANGED <<stored, pc, registered, crashes, timeouts, subscriptions, told>>

\* reply, and the end of attempt.  With the answer, the end of a dead connection
\* may be noticed.
Receive(c) ==
  /\ c \in waiting /\ answer[c] # None
  /\ Return(c, CASE answer[c] = "ok" -> "written"
                 [] answer[c] = "error" -> "failed"
                 [] OTHER -> answer[c])
  /\ answer' = [answer EXCEPT ![c] = None]
  /\ \/ UNCHANGED conn
     \/ conn[c] = "dead" /\ conn' = [conn EXCEPT ![c] = "none"]
  /\ UNCHANGED <<daemon, request, orphans, timeouts, subscriptions, told>>

\* No answer within CALL_TIMEOUT_MS.
Timeout(c) ==
  /\ c \in waiting /\ answer[c] = None /\ conn[c] = "open"
  /\ timeouts < MaxTimeouts /\ timeouts' = timeouts + 1
  /\ Disconnect(c)
  /\ Return(c, "failed")
  /\ UNCHANGED <<stored, pc, registered, crashes, subscriptions, told>>

CallSteps(c) == Send(c) \/ ConnectFails(c) \/ ConnectionLost(c) \/ Receive(c)

\* TCCRegistrySubscription::subscribe.
Subscribe(s) ==
  /\ link[s] = "none" /\ pc # "down"
  /\ link' = [link EXCEPT ![s] = "open"]
  /\ asked' = asked \cup {s}
  /\ UNCHANGED <<daemon, calls, inbox, history>>

\* TCCRegistrySubscription::process, a change at a time.
ReadChange(s) ==
  /\ inbox[s] # <<>>
  /\ told' = [told EXCEPT ![s] = Head(inbox[s])]
  /\ inbox' = [inbox EXCEPT ![s] = Tail(@)]
  /\ UNCHANGED <<daemon, calls, link, asked, applied>>

\* TCCRegistrySubscription::process at the end of the connection.
SubscriptionEnds(s) ==
  /\ link[s] = "dead" /\ inbox[s] = <<>>
  /\ link' = [link EXCEPT ![s] = "none"]
  /\ UNCHANGED <<daemon, calls, asked, inbox, history>>

(***************************************************************************)
(* The daemon.                                                             *)
(***************************************************************************)

\* What SetValue compares before it writes.
Changes(v) == stored # v

\* SetValue up to the commit.
Commit(v, from) ==
  /\ \A s \in registered : Len(inbox[s]) < MaxInbox
  /\ stored' = v
  /\ handling' = [from |-> from, value |-> v, changed |-> Changes(v)]
  /\ pc' = "reply"
  /\ UNCHANGED <<registered, crashes>>

TakeGet(c) ==
  /\ pc = "idle" /\ request[c] = Get
  /\ request' = [request EXCEPT ![c] = None]
  /\ answer' = [answer EXCEPT ![c] = stored]
  /\ UNCHANGED <<daemon, op, had, waiting, conn, result, orphans, timeouts,
                 subscriptions, history>>

TakeSet(c) ==
  /\ pc = "idle" /\ request[c] \in Sets
  /\ request' = [request EXCEPT ![c] = None]
  /\ \/ /\ Commit(request[c].value, c)
        /\ applied' = applied \cup {c}
        /\ UNCHANGED answer
     \/ /\ answer' = [answer EXCEPT ![c] = "error"] \* store->set fails
        /\ UNCHANGED <<daemon, applied>>
  /\ UNCHANGED <<op, had, waiting, conn, result, orphans, timeouts, subscriptions, told>>

\* A request whose sender has hung up.  Others like it may be left.
TakeOrphan ==
  /\ pc = "idle"
  /\ \E v \in orphans : Commit(v, None) /\ orphans' \in {orphans, orphans \ {v}}
  /\ UNCHANGED <<op, had, waiting, conn, request, answer, result, timeouts,
                 subscriptions, history>>

Reply ==
  /\ pc = "reply"
  /\ answer' = IF handling.from = None THEN answer
               ELSE [answer EXCEPT ![handling.from] = "ok"]
  /\ IF handling.changed
     THEN pc' = "notify" /\ UNCHANGED handling
     ELSE pc' = "idle" /\ handling' = None
  /\ UNCHANGED <<stored, registered, crashes, op, had, waiting, conn, request, result,
                 orphans, timeouts, subscriptions, history>>

Notify ==
  /\ pc = "notify"
  /\ inbox' = [s \in Subscriber |-> IF s \in registered
                                    THEN Append(inbox[s], handling.value) ELSE inbox[s]]
  /\ pc' = "idle" /\ handling' = None
  /\ UNCHANGED <<stored, registered, crashes, calls, link, asked, history>>

\* The Subscribe handler.
HandleSubscribe(s) ==
  /\ pc = "idle" /\ s \in asked
  /\ asked' = asked \ {s}
  /\ registered' = registered \cup {s}
  /\ told' = [told EXCEPT ![s] = stored]
  /\ UNCHANGED <<stored, pc, handling, crashes, calls, link, inbox, applied>>

\* The daemon's ends of connections, or of links, have gone.
Cut(peers) == [x \in DOMAIN peers |-> IF peers[x] = "open" THEN "dead" ELSE peers[x]]

Crash ==
  /\ pc # "down" /\ crashes < MaxCrashes
  /\ pc' = "down" /\ crashes' = crashes + 1
  /\ handling' = None /\ registered' = {} /\ asked' = {} /\ orphans' = {}
  /\ request' = [c \in Client |-> None]
  /\ conn' = Cut(conn)
  /\ link' = Cut(link)
  /\ UNCHANGED <<stored, op, had, waiting, answer, result, timeouts, inbox, history>>

\* main, up to its loop.
Start ==
  /\ pc = "down"
  /\ pc' = "idle"
  /\ UNCHANGED <<stored, handling, registered, crashes, calls, subscriptions, history>>

Serve ==
  \/ TakeOrphan \/ Reply \/ Notify \/ Start
  \/ \E c \in Client : TakeGet(c) \/ TakeSet(c)
  \/ \E s \in Subscriber : HandleSubscribe(s)

Next ==
  \/ Serve \/ Crash
  \/ \E c \in Client :
       \/ CallSteps(c) \/ Timeout(c)
       \/ \E o \in Op : Call(c, o)
  \/ \E s \in Subscriber : Subscribe(s) \/ ReadChange(s) \/ SubscriptionEnds(s)

Spec == Init /\ [][Next]_vars

(***************************************************************************)
(* Properties.                                                             *)
(***************************************************************************)

\* Every variable has the kind of value the code gives it.
TypeOK ==
  /\ stored \in Value
  /\ pc \in {"down", "idle", "reply", "notify"}
  /\ handling \in Handling \cup {None}
  /\ registered \subseteq Subscriber /\ crashes \in 0 .. MaxCrashes
  /\ op \in [Client -> Op \cup {None}]
  /\ had \subseteq Client /\ waiting \subseteq Client
  /\ conn \in [Client -> {"none", "open", "dead"}]
  /\ request \in [Client -> Op \cup {None}]
  /\ answer \in [Client -> Value \cup {"ok", "error", None}]
  /\ result \in [Client -> Value \cup {"written", "failed", None}]
  /\ orphans \subseteq Value /\ timeouts \in 0 .. MaxTimeouts
  /\ link \in [Subscriber -> {"none", "open", "dead"}]
  /\ asked \subseteq Subscriber
  /\ inbox \in [Subscriber -> Seq(Value)]
  /\ applied \subseteq Client
  /\ told \in [Subscriber -> Value \cup {None}]

\* The promise to clients (see Register): a SetValue that returned true has been
\* written between its call and its return, a GetValue returns a value the key had
\* meanwhile, and nothing else changes the key but calls that returned false.
Promise == INSTANCE Register
  WITH value <- stored, stray <- orphans,
       seen <- [c \in Client |-> IF answer[c] \in Value THEN answer[c] ELSE None]

KeepsPromise == Promise!Spec

\* A subscriber that reads everything it has been sent knows the value, whoever has
\* written it and wherever the writer or the daemon failed in between: notify tells
\* every registered subscriber every change, in the order of the commits.
SubscribersFollow ==
  pc = "idle" => \A s \in registered :
    IF inbox[s] = <<>> THEN told[s] = stored ELSE inbox[s][Len(inbox[s])] = stored

\* Nobody waits for an answer that is not coming: the request is still to be read,
\* the daemon is at it, its answer is there, or the connection is known to be dead
\* (attempt, whose timeout is for a daemon that hangs).
NobodyWaitsInVain ==
  \A c \in waiting : \/ request[c] = op[c]
                     \/ handling # None /\ handling.from = c /\ pc = "reply"
                     \/ answer[c] # None \/ conn[c] = "dead"

=============================================================================
