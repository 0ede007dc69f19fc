----------------------------- MODULE NodeStore -----------------------------
(***************************************************************************)
(* internal/inmemorystore: the mutable execution state of the graph, three *)
(* independent sync.Maps.  Each method is one sync.Map operation, so each  *)
(* is one step; none looks at another map or at the value it replaces.     *)
(***************************************************************************)

CONSTANTS Ids,      \* addresses (see TopologyStore)
          Absent,   \* "no entry" in a map
          Nil       \* Go's nil, as an output or as an error

VARIABLES states, outputs, errors   \* Store.states, .outputs, .errors

Pending == "pending"
Running == "running"
Completed == "completed"
Failed == "failed"
Skipped == "skipped"

Status == {Pending, Running, Completed, Failed, Skipped}

\* Statuses no transition of the documented life cycle leaves.
Terminal == {Completed, Failed, Skipped}

Init ==
  /\ states = [id \in Ids |-> Absent]
  /\ outputs = [id \in Ids |-> Absent]
  /\ errors = [id \in Ids |-> Absent]

SetStatus(id, status) ==
  /\ states' = [states EXCEPT ![id] = status]
  /\ UNCHANGED <<outputs, errors>>

SetOutput(id, output) ==
  /\ outputs' = [outputs EXCEPT ![id] = output]
  /\ UNCHANGED <<states, errors>>

SetError(id, err) ==
  /\ errors' = [errors EXCEPT ![id] = err]
  /\ UNCHANGED <<states, outputs>>

GetStatus(id) == IF states[id] = Absent THEN Pending ELSE states[id]

GetOutput(id) == IF outputs[id] = Absent THEN Nil ELSE outputs[id]

GetError(id) == IF errors[id] = Absent THEN Nil ELSE errors[id]

=============================================================================
