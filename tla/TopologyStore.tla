--------------------------- MODULE TopologyStore ---------------------------
(***************************************************************************)
(* internal/inmemorytopology: the static structure of the graph.  Every    *)
(* method holds the store's RWMutex from its first line to its return, so  *)
(* each is a single step; the read methods are operators on the state.     *)
(*                                                                         *)
(* An element of Ids stands for an address together with the key           *)
(* Address.String makes of it: addresses with the same key are the same    *)
(* element.  DependenciesOf turns the stored keys back into addresses with *)
(* nodeid.Parse, and Reread is what comes of that.  The key of an address  *)
(* that was parsed comes back as that address; one built with names that   *)
(* are no names has a key that Parse refuses, or takes for another address *)
(* (the name a[01] comes back as a[1], see NodeId).                        *)
(***************************************************************************)

CONSTANTS Ids,      \* addresses
          Configs,  \* what *node.Node carries beside its address
          Reread,   \* Reread[id]: what Parse makes of id's key, or Absent
          Absent    \* "no entry" in a map, and no address

VARIABLES nodes,    \* Store.nodes
          deps      \* Store.deps: deps[to] is the set of its froms' keys

TypeOK ==
  /\ nodes \in [Ids -> Configs \cup {Absent}]
  /\ deps \in [Ids -> SUBSET Ids]

Init ==
  /\ nodes = [id \in Ids |-> Absent]
  /\ deps = [id \in Ids |-> {}]

Exists(id) == nodes[id] # Absent

\* Faulty variant: the last writer wins.
AddNodeReplaces(id, cfg) ==
  /\ nodes' = [nodes EXCEPT ![id] = cfg]
  /\ UNCHANGED deps

\* The first writer wins: a second node with the same key is dropped.
AddNode(id, cfg) ==
  /\ nodes' = IF Exists(id) THEN nodes ELSE [nodes EXCEPT ![id] = cfg]
  /\ UNCHANGED deps

\* Faulty variant: one endpoint is not checked.
AddDependencyUncheckedSource(from, to) ==
  /\ deps' = IF Exists(to) THEN [deps EXCEPT ![to] = @ \cup {from}] ELSE deps
  /\ UNCHANGED nodes

\* Both endpoints must be there, or the call returns an error and changes
\* nothing.  Nothing else is checked: from may be to, or depend on it.
AddDependency(from, to) ==
  /\ deps' = IF Exists(from) /\ Exists(to)
             THEN [deps EXCEPT ![to] = @ \cup {from}]
             ELSE deps
  /\ UNCHANGED nodes

\* DependenciesOf fails on a node it does not hold, and on a stored key that
\* does not parse; otherwise it returns what the keys of deps[id] come back
\* as, one address for each key.
DependenciesFail(id) == ~Exists(id) \/ \E key \in deps[id] : Reread[key] = Absent

=============================================================================
