--------------------------- MODULE StatusNotifier ---------------------------
(***************************************************************************)
(* The tray's StatusNotifierItems (systray/src/dbus/sni_watcher.cpp): the  *)
(* tray is the session's StatusNotifierWatcher, or mirrors the list of     *)
(* another one and waits in line for its bus name.                         *)
(*                                                                         *)
(* The bus, the other watchers and the programs with items are external.   *)
(* The bus hands every connection its messages in one order; a blocking    *)
(* call takes its reply out of that order.  Watchers handle what they are  *)
(* sent at once, and programs register again when the watcher changes.     *)
(* A program with a Named item has a bus name of its own, under which it   *)
(* can start again; another's item is known by its connection.             *)
(***************************************************************************)
EXTENDS Naturals, Sequences, SequencesExt

CONSTANTS
  Item, Named, Watcher, Icon,
  Tray, None,
  MaxEvents  \* bound: times others start, quit, change or fail to answer

ASSUME ConstantsOK ==
  /\ IsFiniteSet(Item) /\ Named \subseteq Item /\ Tray \notin Watcher
  /\ None \notin Icon \cup Watcher \cup {Tray} \cup Nat
  /\ MaxEvents \in Nat

VARIABLES
  \* The bus and the others on it.
  line,       \* the owner of WATCHER_NAME and those queued for it
  alive,      \* programs on the bus
  instance,   \* which start of the program that is: its connection
  icon,       \* the item's properties
  due,        \* programs that have yet to register with the owner
  theirs,     \* the items of the watcher, when that is not the tray
  inbox,      \* messages to the tray
  \* The tray.
  mode,       \* mMode
  items,      \* mItems, and the keys of mItemConns
  owner,      \* ItemConn::owner
  fetch,      \* ItemConn::pending: "no", "sent", or "answered" and in the inbox
  shown,      \* what propertiesReply has made of the item
  needsRefresh,
  get,        \* refreshFromWatcher's call: "no", "asked", "self", "answered", "error"
  ids,        \* its answer
  events,     \* what has been counted towards MaxEvents
  \* History, for properties only.
  failed,     \* items whose properties could not be got since they last changed
  unanswered  \* whether the last refresh has failed

bus == <<line, alive, instance, icon, due, theirs>>
list == <<items, owner, fetch, shown>>
history == <<failed, unanswered>>
call == <<get, ids>>
vars == <<bus, inbox, mode, list, needsRefresh, call, events, history>>

NoneOf == [i \in Item |-> None]
Instance == 0 .. MaxEvents + 1

\* The tray starts in any session: connect comes next.
Init ==
  /\ line \in {l \in SeqOf(Watcher, 2) : IsInjective(l)}
  /\ alive \in SUBSET Item
  /\ instance = [i \in Item |-> IF i \in alive THEN 1 ELSE 0]
  /\ icon = [i \in Item |-> CHOOSE c \in Icon : TRUE]
  /\ theirs = IF line = <<>> THEN {} ELSE alive
  /\ due = alive \ theirs
  /\ inbox = <<>>
  /\ mode = "Disconnected"
  /\ items = {} /\ owner = NoneOf /\ fetch = [i \in Item |-> "no"] /\ shown = NoneOf
  /\ needsRefresh = FALSE /\ get = "no" /\ ids = {}
  /\ events = 0
  /\ failed = {} /\ unanswered = FALSE

(***************************************************************************)
(* Messages.                                                               *)
(***************************************************************************)
Message(kind) == [kind |-> kind]
About(kind, i) == [kind |-> kind, item |-> i]
NameOwnerChanged(new) == [kind |-> "owner", new |-> new]
NewIcon(i) == [kind |-> "NewIcon", item |-> i, sender |-> instance[i]]
Properties(i) ==
  [kind |-> "properties", item |-> i, sender |-> instance[i], icon |-> icon[i]]

IsReplyOf(m, i) == m.kind \in {"properties", "error"} /\ m.item = i

Owner == IF line = <<>> THEN None ELSE Head(line)

\* What the bus sends the tray.
Sent(ms) == inbox' = inbox \o ms

(***************************************************************************)
(* Definitions with a mistake.                                             *)
(***************************************************************************)

\* Signals recognised only after the first reply.
FirstOwner_Unknown(i) == None

\* Superseded calls left running.
Without_Not(q, cancelled) == q

\* Waiting in line taken for having the name.
Connect_Queued ==
  /\ mode = "Disconnected" /\ ~Contains(line, Tray)
  /\ line' = Append(line, Tray)
  /\ mode' = "Watcher"
  /\ UNCHANGED <<alive, instance, icon, due, theirs, inbox, list, needsRefresh, call, events,
                 history>>

\* The previous watcher's items kept.
BecomeWatcher_Keeps ==
  /\ mode # "Disconnected" /\ get = "no"
  /\ inbox # <<>> /\ Head(inbox).kind = "NameAcquired"
  /\ mode' = "Watcher" /\ needsRefresh' = FALSE /\ unanswered' = FALSE
  /\ inbox' = Tail(inbox)
  /\ UNCHANGED <<bus, list, call, events, failed>>

\* The next watcher not asked.
WatcherChanges_Ignored ==
  /\ mode # "Disconnected" /\ get = "no"
  /\ inbox # <<>> /\ Head(inbox).kind = "owner"
  /\ inbox' = Tail(inbox)
  /\ UNCHANGED <<bus, mode, list, needsRefresh, call, events, history>>

(***************************************************************************)
(* The tray.                                                               *)
(***************************************************************************)

\* Cancelling pending calls of GetAll: libdbus no longer knows whose their replies are.
Without(q, cancelled) ==
  [n \in DOMAIN q |-> IF \E i \in cancelled : IsReplyOf(q[n], i)
                     THEN Message("unexpected") ELSE q[n]]

\* Calls of GetAll: the bus answers for programs that have left it.
Calls(is) == [i \in is |-> IF i \in alive THEN "sent" ELSE "answered"]
Errors(is) == SetToSeq({About("error", i) : i \in is \ alive})

\* Whose signals addItem recognises before the first reply.
FirstOwner(i) == IF i \in Named THEN None ELSE instance[i]

\* removeItem and addItem, until the list is wanted: rest is what is in the inbox.
Relist(wanted, rest) ==
  LET new == wanted \ items
      kept == wanted \cap items
  IN /\ items' = wanted
     /\ owner' = [i \in Item |-> IF i \in kept THEN owner[i]
                                 ELSE IF i \in new THEN FirstOwner(i) ELSE None]
     /\ fetch' = [i \in Item |-> IF i \in kept THEN fetch[i]
                                 ELSE IF i \in new THEN Calls(new)[i] ELSE "no"]
     /\ shown' = [i \in Item |-> IF i \in kept THEN shown[i] ELSE None]
     /\ inbox' = Without(rest, items \ wanted) \o Errors(new)

\* connect.
Connect ==
  /\ mode = "Disconnected" /\ ~Contains(line, Tray)
  /\ line' = Append(line, Tray)
  /\ IF line = <<>>
     THEN mode' = "Watcher" /\ inbox' = <<Message("NameAcquired")>> /\ UNCHANGED needsRefresh
     ELSE mode' = "Host" /\ needsRefresh' = TRUE /\ UNCHANGED inbox
  /\ UNCHANGED <<alive, instance, icon, due, theirs, list, call, events, history>>

\* Dispatching a message of a kind.
Dispatch(kind) ==
  /\ mode # "Disconnected" /\ get = "no"
  /\ inbox # <<>> /\ Head(inbox).kind = kind

Rest == Tail(inbox)

\* becomeWatcher, on NameAcquired.
BecomeWatcher ==
  /\ Dispatch("NameAcquired")
  /\ IF mode = "Watcher"
     THEN inbox' = Rest /\ UNCHANGED <<mode, list, needsRefresh, unanswered>>
     ELSE /\ mode' = "Watcher" /\ needsRefresh' = FALSE /\ unanswered' = FALSE
          /\ Relist({}, Rest)
  /\ UNCHANGED <<bus, call, events, failed>>

\* handleNameOwnerChanged for the watcher's name.
WatcherChanges ==
  /\ Dispatch("owner")
  /\ needsRefresh' = (needsRefresh \/ (mode = "Host" /\ Head(inbox).new # Tray))
  /\ inbox' = Rest
  /\ UNCHANGED <<bus, mode, list, call, events, history>>

\* handleNameOwnerChanged for a program's name.
ProgramVanishes ==
  /\ Dispatch("vanished")
  /\ Relist(IF mode = "Watcher" THEN items \ {Head(inbox).item} ELSE items, Rest)
  /\ UNCHANGED <<bus, mode, needsRefresh, call, events, history>>

\* registerItem, for a program that is still there.
RegisterItem ==
  /\ Dispatch("register")
  /\ Relist(IF mode = "Watcher" THEN items \cup ({Head(inbox).item} \cap alive) ELSE items,
            Rest)
  /\ UNCHANGED <<bus, mode, needsRefresh, call, events, history>>

\* The signals of another watcher.
MirrorRegistered ==
  /\ Dispatch("registered")
  /\ Relist(IF mode = "Host" THEN items \cup {Head(inbox).item} ELSE items, Rest)
  /\ UNCHANGED <<bus, mode, needsRefresh, call, events, history>>

MirrorUnregistered ==
  /\ Dispatch("unregistered")
  /\ Relist(IF mode = "Host" THEN items \ {Head(inbox).item} ELSE items, Rest)
  /\ UNCHANGED <<bus, mode, needsRefresh, call, events, history>>

\* Whether handleItemSignal takes a signal to be the item's.
IsFrom(m) == m.item \in items /\ owner[m.item] = m.sender

\* handleItemSignal: the newer fetch supersedes an older one.
ItemSignal ==
  /\ Dispatch("NewIcon")
  /\ LET i == Head(inbox).item
     IN IF IsFrom(Head(inbox))
        THEN /\ fetch' = [fetch EXCEPT ![i] = Calls({i})[i]]
             /\ inbox' = Without(Rest, {i}) \o Errors({i})
        ELSE inbox' = Rest /\ UNCHANGED fetch
  /\ UNCHANGED <<bus, mode, items, owner, shown, needsRefresh, call, events, history>>

\* propertiesReply.
PropertiesReply ==
  /\ Dispatch("properties")
  /\ LET m == Head(inbox)
     IN /\ owner' = [owner EXCEPT ![m.item] = m.sender]
        /\ shown' = [shown EXCEPT ![m.item] = m.icon]
        /\ fetch' = [fetch EXCEPT ![m.item] = "no"]
        /\ failed' = failed \ {m.item}
  /\ inbox' = Rest
  /\ UNCHANGED <<bus, mode, items, needsRefresh, call, events, unanswered>>

\* propertiesReply of an error.
PropertiesError ==
  /\ Dispatch("error")
  /\ fetch' = [fetch EXCEPT ![Head(inbox).item] = "no"]
  /\ inbox' = Rest
  /\ UNCHANGED <<bus, mode, items, owner, shown, needsRefresh, call, events, history>>

\* The reply to a call that was cancelled, which filter leaves alone.
UnexpectedReply ==
  /\ Dispatch("unexpected")
  /\ inbox' = Rest
  /\ UNCHANGED <<bus, mode, list, needsRefresh, call, events, history>>

\* refreshFromWatcher up to its call, at the end of some poll, whatever has not been
\* read.  The bus gives the call to the tray itself when the name is its own and
\* NameAcquired has yet to be dispatched.
Refresh ==
  /\ mode = "Host" /\ needsRefresh /\ get = "no"
  /\ needsRefresh' = FALSE
  /\ get' = IF Owner = Tray THEN "self" ELSE "asked"
  /\ UNCHANGED <<ids, bus, inbox, mode, list, events, history>>

\* The rest of it, with an answer or without.
Refreshed ==
  /\ get \in {"answered", "error"}
  /\ Relist(ids, inbox)
  /\ unanswered' = (get = "error")
  /\ get' = "no" /\ ids' = {}
  /\ UNCHANGED <<bus, mode, needsRefresh, events, failed>>

\* poll finds the connection gone: disconnect.
LoseBus ==
  /\ mode # "Disconnected" /\ get = "no"
  /\ mode' = "Disconnected"
  /\ Relist({}, <<>>)
  /\ UNCHANGED <<bus, needsRefresh, call, events, history>>

TrayNext ==
  \/ BecomeWatcher \/ WatcherChanges \/ ProgramVanishes \/ RegisterItem
  \/ MirrorRegistered \/ MirrorUnregistered
  \/ ItemSignal \/ PropertiesReply \/ PropertiesError \/ UnexpectedReply
  \/ Refresh \/ Refreshed

(***************************************************************************)
(* The others.                                                             *)
(***************************************************************************)
tray == <<mode, items, owner, shown, needsRefresh>>

Event == events < MaxEvents /\ events' = events + 1

\* A program starts, under a new connection.
Start(i) ==
  /\ i \notin alive /\ (i \in Named \/ instance[i] = 0)
  /\ Event
  /\ alive' = alive \cup {i} /\ due' = due \cup {i}
  /\ instance' = [instance EXCEPT ![i] = @ + 1]
  /\ UNCHANGED <<line, icon, theirs, inbox, tray, fetch, call, history>>

\* The bus tells the tray, answers the calls the program leaves, and the watcher, if it
\* is not the tray, drops the item.
Quit(i) ==
  /\ i \in alive /\ Event
  /\ alive' = alive \ {i} /\ due' = due \ {i} /\ theirs' = theirs \ {i}
  /\ fetch' = IF fetch[i] = "sent" THEN [fetch EXCEPT ![i] = "answered"] ELSE fetch
  /\ Sent(<<About("vanished", i)>>
            \o (IF fetch[i] = "sent" THEN <<About("error", i)>> ELSE <<>>)
            \o (IF i \in theirs THEN <<About("unregistered", i)>> ELSE <<>>))
  /\ UNCHANGED <<line, instance, icon, tray, call, history>>

\* A program registers with whoever owns the watcher's name.
Register(i) ==
  /\ i \in due /\ line # <<>>
  /\ due' = due \ {i}
  /\ IF Owner = Tray THEN Sent(<<About("register", i)>>) /\ UNCHANGED theirs
     ELSE Sent(<<About("registered", i)>>) /\ theirs' = theirs \cup {i}
  /\ UNCHANGED <<line, alive, instance, icon, tray, fetch, call, events, history>>

ChangeIcon(i) ==
  /\ i \in alive
  /\ Event
  /\ \E c \in Icon \ {icon[i]} : icon' = [icon EXCEPT ![i] = c]
  /\ Sent(<<NewIcon(i)>>)
  /\ failed' = failed \ {i}
  /\ UNCHANGED <<line, alive, instance, due, theirs, tray, fetch, call, unanswered>>

AnswerGetAll(i) ==
  /\ fetch[i] = "sent"
  /\ fetch' = [fetch EXCEPT ![i] = "answered"]
  /\ Sent(<<Properties(i)>>)
  /\ UNCHANGED <<bus, tray, call, events, history>>

\* libdbus gives up on a GetAll.
TimeOutGetAll(i) ==
  /\ fetch[i] = "sent"
  /\ Event
  /\ fetch' = [fetch EXCEPT ![i] = "answered"]
  /\ Sent(<<About("error", i)>>)
  /\ failed' = failed \cup {i}
  /\ UNCHANGED <<bus, tray, call, unanswered>>

AnswerRefresh ==
  /\ get = "asked" /\ get' = "answered" /\ ids' = theirs
  /\ UNCHANGED <<bus, inbox, tray, fetch, events, history>>

\* libdbus gives up on the refresh.
TimeOutRefresh ==
  /\ get' = "error"
  /\ \/ get = "asked" /\ Event
     \/ get = "self" /\ UNCHANGED events
  /\ UNCHANGED <<ids, bus, inbox, tray, fetch, history>>

\* The watcher leaves the bus, and the next in line owns the name.
WatcherExits ==
  /\ Owner \in Watcher /\ Event
  /\ line' = Tail(line)
  /\ theirs' = {} /\ due' = alive
  /\ Sent(IF line' = <<>> THEN <<>>
          ELSE <<NameOwnerChanged(Head(line'))>>
                 \o IF Head(line') = Tray THEN <<Message("NameAcquired")>> ELSE <<>>)
  /\ get' = IF get = "asked" THEN "error" ELSE get
  /\ UNCHANGED <<ids, alive, instance, icon, tray, fetch, history>>

\* One that is waiting in line leaves it.
WatcherGivesUp ==
  /\ Event
  /\ \E n \in 2 .. Len(line) : line[n] \in Watcher /\ line' = RemoveAt(line, n)
  /\ UNCHANGED <<alive, instance, icon, due, theirs, inbox, tray, fetch, call, history>>

\* What the others do while the tray is not on the bus does not concern it.
Elsewhere ==
  /\ mode # "Disconnected"
  /\ \/ AnswerRefresh \/ TimeOutRefresh \/ WatcherExits \/ WatcherGivesUp
     \/ \E i \in Item : \/ Start(i) \/ Quit(i) \/ Register(i) \/ ChangeIcon(i)
                        \/ AnswerGetAll(i) \/ TimeOutGetAll(i)

Next == Connect \/ TrayNext \/ LoseBus \/ Elsewhere

\* The tray polls all the time, the bus and libdbus answer it, and programs register.
Fairness ==
  /\ WF_vars(Connect \/ TrayNext)
  /\ WF_vars(AnswerRefresh \/ (get = "self" /\ TimeOutRefresh))
  /\ WF_vars(\E i \in Item : Register(i))

Spec == Init /\ [][Next]_vars /\ Fairness

(***************************************************************************)
(* Properties.                                                             *)
(***************************************************************************)

\* The reply to a GetAll finds its item (propertiesReply): there is one for each fetch
\* in progress, and none is left when its item goes or is fetched again.
RepliesAreExpected ==
  /\ \A i \in Item :
       /\ fetch[i] = "answered" <=> \E n \in 1 .. Len(inbox) : IsReplyOf(inbox[n], i)
       /\ fetch[i] # "no" => i \in items
  /\ \A i \in Item : \A m, n \in 1 .. Len(inbox) :
       IsReplyOf(inbox[m], i) /\ IsReplyOf(inbox[n], i) => m = n

\* The tray acts as the watcher only when it owns the name, and is so by the time it
\* reads a program's registration, which it would otherwise turn down for good (filter).
RegistrationsHeard ==
  /\ mode = "Watcher" => Owner = Tray
  /\ mode = "Host" => \A n \in 1 .. Len(inbox) : inbox[n].kind = "register"
                        => \E k \in 1 .. n - 1 : inbox[k].kind = "NameAcquired"

\* The tray has read all there is and waits for nobody but items.
Quiet == mode # "Disconnected" /\ inbox = <<>> /\ ~needsRefresh /\ get = "no"

\* The tray's icons are those of the programs there are that have registered, through
\* any sequence of watchers and of programs, and whatever crosses a refresh: except
\* that a refresh that has failed is not repeated (refreshFromWatcher).
ListIsTrue ==
  Quiet => /\ items \subseteq alive \ due
           /\ unanswered \/ items = alive \ due

\* An item that is not being fetched is shown as it is, unless it could not be fetched
\* since it last changed; or at all, when its name does not tell whose signals are its
\* own (handleItemSignal): nobody's before the first reply, and a former connection's if
\* the program has started again within a refresh, which keeps the item.
IconsFollow ==
  Quiet => \A i \in items : \/ fetch[i] # "no" \/ shown[i] = icon[i]
                            \/ i \in failed \/ (i \in Named /\ owner[i] # instance[i])

\* In the end the tray shows everybody.
ShowsAll == <>[](mode = "Disconnected" \/ unanswered \/ items = alive)

=============================================================================
