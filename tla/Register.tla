------------------------------ MODULE Register ------------------------------
(***************************************************************************)
(* What tcc_registry promises its clients of one key, whatever happens to  *)
(* the daemon and to connections: SetValue and GetValue of                 *)
(* TCCRegistryConnection take effect somewhere between being called and    *)
(* returning, with two exceptions that the client library does not hide.   *)
(*                                                                         *)
(*   - SetValue may write more than once, since a call whose connection    *)
(*     was lost is repeated: another client's value in between is          *)
(*     overwritten.                                                        *)
(*   - A SetValue that has returned false may still write, later: the      *)
(*     daemon may yet get to a request whose caller has given up.          *)
(*                                                                         *)
(* Registry is shown to implement this.                                    *)
(***************************************************************************)
EXTENDS Naturals

CONSTANTS Client, Value, Default, None

VARIABLES
  value,   \* the value of the key
  op,      \* what each client has called, None between calls
  applied, \* clients whose SetValue has written
  seen,    \* the value a client's GetValue has looked up
  result,  \* what each client's last call has returned
  stray    \* values that SetValue calls which returned false may yet write

vars == <<value, op, applied, seen, result, stray>>

Set(v) == [method |-> "SetValue", value |-> v]
Get == [method |-> "GetValue", value |-> None]
Op == {Set(v) : v \in Value} \cup {Get}

Init ==
  /\ value = Default
  /\ op = [c \in Client |-> None]
  /\ applied = {}
  /\ seen = [c \in Client |-> None]
  /\ result = [c \in Client |-> None]
  /\ stray = {}

Call(c) ==
  /\ op[c] = None
  /\ \E o \in Op : op' = [op EXCEPT ![c] = o]
  /\ result' = [result EXCEPT ![c] = None]
  /\ UNCHANGED <<value, applied, seen, stray>>

Write(c) ==
  /\ op[c] \in {Set(v) : v \in Value}
  /\ value' = op[c].value
  /\ applied' = applied \cup {c}
  /\ UNCHANGED <<op, seen, result, stray>>

LookUp(c) ==
  /\ op[c] = Get
  /\ seen' = [seen EXCEPT ![c] = value]
  /\ UNCHANGED <<value, op, applied, result, stray>>

Return(c, r) ==
  /\ op[c] # None
  /\ op' = [op EXCEPT ![c] = None]
  /\ applied' = applied \ {c}
  /\ seen' = [seen EXCEPT ![c] = None]
  /\ result' = [result EXCEPT ![c] = r]

Written(c) ==
  /\ c \in applied
  /\ Return(c, "written")
  /\ UNCHANGED <<value, stray>>

Found(c) ==
  /\ seen[c] # None
  /\ Return(c, seen[c])
  /\ UNCHANGED <<value, stray>>

Failed(c) ==
  /\ Return(c, "failed")
  /\ \/ stray' = stray
     \/ op[c] # Get /\ stray' = stray \cup {op[c].value}
  /\ UNCHANGED value

StrayWrite ==
  /\ \E v \in stray : value' = v /\ stray' \in {stray, stray \ {v}}
  /\ UNCHANGED <<op, applied, seen, result>>

\* Requests nobody waits for are lost with the daemon.
StrayLost ==
  /\ stray' = {}
  /\ UNCHANGED <<value, op, applied, seen, result>>

Next ==
  \/ StrayWrite \/ StrayLost
  \/ \E c \in Client :
       Call(c) \/ Write(c) \/ LookUp(c) \/ Written(c) \/ Found(c) \/ Failed(c)

Spec == Init /\ [][Next]_vars

=============================================================================
