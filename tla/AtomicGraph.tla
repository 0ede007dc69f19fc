---------------------------- MODULE AtomicGraph ----------------------------
(***************************************************************************)
(* What graph.Graph promises, each call a single step: the topology grows  *)
(* and never changes what it holds, a node runs at most once and gets its  *)
(* verdict and the value that goes with it together, and a dependency      *)
(* query answers with the nodes of one moment.  GraphManager implements it *)
(* with stores that know nothing of each other.                            *)
(*                                                                         *)
(* That a node runs once is what callers see to; that its verdict and its  *)
(* value are one, and answers whole, is the manager's part.                *)
(*                                                                         *)
(* The promise is about dependencies whose key comes back as their own     *)
(* address.  For a key that is misread, what is looked up is some other    *)
(* node, which may appear in the middle of the call: there is no moment    *)
(* such an answer is true of as a whole.                                   *)
(***************************************************************************)

CONSTANTS Ids, Configs, Outputs, Errors, Readers, Reread, Absent

VARIABLES nodes,   \* nodes[id]: its configuration, or Absent
          deps,    \* deps[id]: the addresses id depends on
          verdict, \* verdict[id]: its status
          value,   \* value[id]: the output or the error that came with it
          answer   \* answer[r]: what r's last dependency query returned, and
                   \*            the node it was about

vars == <<nodes, deps, verdict, value, answer>>

Nothing == [kind |-> "none", about |-> Absent, nodes |-> {}]
Error(id) == [kind |-> "error", about |-> id, nodes |-> {}]
Found(id, set) == [kind |-> "nodes", about |-> id, nodes |-> set]

Init ==
  /\ nodes = [id \in Ids |-> Absent]
  /\ deps = [id \in Ids |-> {}]
  /\ verdict = [id \in Ids |-> "pending"]
  /\ value = [id \in Ids |-> Absent]
  /\ answer = [r \in Readers |-> Nothing]

Exists(id) == nodes[id] # Absent

AddNode(id, cfg) ==
  /\ ~Exists(id)
  /\ nodes' = [nodes EXCEPT ![id] = cfg]
  /\ UNCHANGED <<deps, verdict, value, answer>>

AddDependency(from, to) ==
  /\ Exists(from) /\ Exists(to)
  /\ deps' = [deps EXCEPT ![to] = @ \cup {from}]
  /\ UNCHANGED <<nodes, verdict, value, answer>>

Start(id) ==
  /\ verdict[id] = "pending"
  /\ verdict' = [verdict EXCEPT ![id] = "running"]
  /\ UNCHANGED <<nodes, deps, value, answer>>

Skip(id) ==
  /\ verdict[id] = "pending"
  /\ verdict' = [verdict EXCEPT ![id] = "skipped"]
  /\ UNCHANGED <<nodes, deps, value, answer>>

Finish(id, status, val) ==
  /\ verdict[id] = "running"
  /\ verdict' = [verdict EXCEPT ![id] = status]
  /\ value' = [value EXCEPT ![id] = val]
  /\ UNCHANGED <<nodes, deps, answer>>

Complete(id, output) == Finish(id, "completed", output)

Fail(id, err) == Finish(id, "failed", err)

\* The answer names the nodes of this very moment, and all of them whose
\* keys come back.
Query(r, id) ==
  /\ answer' = [answer EXCEPT ![r] =
       IF ~Exists(id) \/ \E d \in deps[id] : Reread[d] = Absent
       THEN Error(id)
       ELSE Found(id, {<<d, nodes[d]>> : d \in {e \in deps[id] : Reread[e] = e}})]
  /\ UNCHANGED <<nodes, deps, verdict, value>>

Next ==
  \/ \E id \in Ids, cfg \in Configs : AddNode(id, cfg)
  \/ \E from, to \in Ids : AddDependency(from, to)
  \/ \E id \in Ids : Start(id) \/ Skip(id)
  \/ \E id \in Ids, output \in Outputs : Complete(id, output)
  \/ \E id \in Ids, err \in Errors : Fail(id, err)
  \/ \E r \in Readers, id \in Ids : Query(r, id)

Spec == Init /\ [][Next]_vars

=============================================================================
