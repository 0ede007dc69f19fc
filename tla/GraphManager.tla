---------------------------- MODULE GraphManager ----------------------------
(***************************************************************************)
(* internal/graph: the Manager is a facade over a topology store and a     *)
(* node store.  It has no state and takes no lock, so a method that calls  *)
(* the stores more than once is as many steps, and other goroutines run    *)
(* between them:                                                           *)
(*                                                                         *)
(*   DependenciesOf   topology.DependenciesOf, then a GetNode per address  *)
(*   MarkCompleted    SetStatus(Completed), then SetOutput                 *)
(*   MarkFailed       SetStatus(Failed), then SetError                     *)
(*                                                                         *)
(* Its callers are those the package documents and tests (doc.go 54-71,    *)
(* graph_test.go 319-394); the executor and the builder of this version    *)
(* are stubs.  Workers run the executor's loop, one node at a time; which  *)
(* node they may take is their discipline (Free, Untouched), which the     *)
(* Mark methods neither know nor check.                                    *)
(* Readers ask for dependencies.  Observers look at a node's status,       *)
(* output and error in successive calls.  Nodes and links are added by     *)
(* goroutines that need no state of their own.                             *)
(***************************************************************************)

CONSTANTS Ids, Configs, Outputs, Errors, Reread, Absent, Nil,
          Links,       \* the <<from, to>> that AddDependency is called with
          Workers, Readers, Observers,
          Retry        \* may a worker run a failed node again?

\* Markers are no values, no error is nil, and links join addresses.
ASSUME ConstantsAssumption ==
  /\ Absent \notin Configs \cup Outputs \cup Errors \cup Ids
  /\ Absent \notin {"pending", "running", "completed", "failed", "skipped",
                    "unread"}
  /\ Nil \notin Errors /\ Nil # Absent
  /\ Reread \in [Ids -> Ids \cup {Absent}]
  /\ Links \subseteq Ids \X Ids
  /\ Retry \in BOOLEAN

VARIABLES
  nodes, deps,              \* the topology store
  states, outputs, errors,  \* the node store
  at,       \* at[w]: where worker w stands in the executor's loop
  job,      \* job[w]: the node it is running
  result,   \* result[w]: what the handler returned
  taken,    \* the nodes handed to a worker so far
  asking,   \* asking[r]: how far r's last DependenciesOf call got
  asked,    \* asked[r]: the node it is about
  todo,     \* todo[r]: the stored keys whose addresses it has to look up
  found,    \* found[r]: the nodes it has looked up, each with its key
  seen      \* seen[o]: what o has seen of one node, call after call

Topology == INSTANCE TopologyStore
State == INSTANCE NodeStore

topologyVars == <<nodes, deps>>
stateVars == <<states, outputs, errors>>
workerVars == <<at, job, result, taken>>
readerVars == <<asking, asked, todo, found>>
vars == <<nodes, deps, states, outputs, errors, at, job, result, taken,
          asking, asked, todo, found, seen>>

\* Keys that come back as an address, and those that do as their own.
Readable == {key \in Ids : Reread[key] # Absent}

Faithful(keys) == {key \in keys : Reread[key] = key}

\* Nobody has called yet, or the call has not been made on this node.
Unread == "unread"

View == [id : Ids \cup {Absent},
         status : State!Status \cup {Unread},
         output : Outputs \cup {Nil, Unread},
         error : Errors \cup {Nil, Unread}]

NoView == [id |-> Absent, status |-> Unread, output |-> Unread, error |-> Unread]

NoResult == [output |-> Absent, error |-> Absent]

\* What each map, worker, reader and observer may hold.  No stored error is
\* nil, where GetError's type assertion (inmemorystore/store.go 113) panics.
TypeOK ==
  /\ Topology!TypeOK
  /\ states \in [Ids -> State!Status \cup {Absent}]
  /\ outputs \in [Ids -> Outputs \cup {Absent}]
  /\ errors \in [Ids -> Errors \cup {Absent}]
  /\ at \in [Workers -> {"idle", "running", "returned", "output", "error"}]
  /\ job \in [Workers -> Ids \cup {Absent}]
  /\ result \in [Workers -> [output : Outputs \cup {Absent},
                             error : Errors \cup {Nil, Absent}]]
  /\ taken \in SUBSET Ids
  /\ asking \in [Readers -> {"none", "nodes", "error"}]
  /\ asked \in [Readers -> Ids \cup {Absent}]
  /\ todo \in [Readers -> SUBSET Readable]
  /\ found \in [Readers -> SUBSET (Readable \X Configs)]
  /\ seen \in [Observers -> View]

Init ==
  /\ Topology!Init
  /\ State!Init
  /\ at = [w \in Workers |-> "idle"]
  /\ job = [w \in Workers |-> Absent]
  /\ result = [w \in Workers |-> NoResult]
  /\ taken = {}
  /\ asking = [r \in Readers |-> "none"]
  /\ asked = [r \in Readers |-> Absent]
  /\ todo = [r \in Readers |-> {}]
  /\ found = [r \in Readers |-> {}]
  /\ seen = [o \in Observers |-> NoView]

-----------------------------------------------------------------------------
(* The builder's calls.                                                    *)

AddNode(id, cfg) ==
  /\ Topology!AddNode(id, cfg)
  /\ UNCHANGED <<stateVars, workerVars, readerVars, seen>>

AddDependency(from, to) ==
  /\ Topology!AddDependency(from, to)
  /\ UNCHANGED <<stateVars, workerVars, readerVars, seen>>

-----------------------------------------------------------------------------
(* The executor's loop (doc.go 65-71).  Its discipline: a node goes to one *)
(* worker, once; with Retry a failed one may be taken again after its      *)
(* worker let it go; and only what nobody took is skipped.                 *)

Untouched(id) == id \notin taken

Free(id) ==
  \/ Untouched(id)
  \/ /\ Retry
     /\ states[id] = State!Failed
     /\ \A w \in Workers : job[w] # id

MarkRunning(w, id) ==
  /\ at[w] = "idle"
  /\ State!SetStatus(id, State!Running)
  /\ at' = [at EXCEPT ![w] = "running"]
  /\ job' = [job EXCEPT ![w] = id]
  /\ taken' = taken \cup {id}
  /\ UNCHANGED <<topologyVars, result, readerVars, seen>>

MarkSkipped(w, id) ==
  /\ at[w] = "idle"
  /\ State!SetStatus(id, State!Skipped)
  /\ taken' = taken \cup {id}
  /\ UNCHANGED <<topologyVars, at, job, result, readerVars, seen>>

HandlerReturns(w, output, err) ==
  /\ at[w] = "running"
  /\ result' = [result EXCEPT ![w] = [output |-> output, error |-> err]]
  /\ at' = [at EXCEPT ![w] = "returned"]
  /\ UNCHANGED <<topologyVars, stateVars, job, taken,
                 readerVars, seen>>

\* Faulty variant: the output is stored before the status.
MarkCompletedOutputFirst(w) ==
  /\ at[w] = "returned" /\ result[w].error = Nil
  /\ State!SetOutput(job[w], result[w].output)
  /\ at' = [at EXCEPT ![w] = "output"]
  /\ UNCHANGED <<topologyVars, job, result, taken, readerVars, seen>>

\* First half of MarkCompleted: SetStatus.
MarkCompleted(w) ==
  /\ at[w] = "returned" /\ result[w].error = Nil
  /\ State!SetStatus(job[w], State!Completed)
  /\ at' = [at EXCEPT ![w] = "output"]
  /\ UNCHANGED <<topologyVars, job, result, taken, readerVars, seen>>

\* Faulty variants: the error is stored before the status; the test of the
\* handler's error is the wrong way round.
MarkFailedErrorFirst(w) ==
  /\ at[w] = "returned" /\ result[w].error # Nil
  /\ State!SetError(job[w], result[w].error)
  /\ at' = [at EXCEPT ![w] = "error"]
  /\ UNCHANGED <<topologyVars, job, result, taken, readerVars, seen>>

MarkFailedOnNil(w) ==
  /\ at[w] = "returned" /\ result[w].error = Nil
  /\ State!SetStatus(job[w], State!Failed)
  /\ at' = [at EXCEPT ![w] = "error"]
  /\ UNCHANGED <<topologyVars, job, result, taken, readerVars, seen>>

\* First half of MarkFailed: SetStatus.
MarkFailed(w) ==
  /\ at[w] = "returned" /\ result[w].error # Nil
  /\ State!SetStatus(job[w], State!Failed)
  /\ at' = [at EXCEPT ![w] = "error"]
  /\ UNCHANGED <<topologyVars, job, result, taken, readerVars, seen>>

\* The worker is back at the top of its loop.
NextJob(w) ==
  /\ at' = [at EXCEPT ![w] = "idle"]
  /\ job' = [job EXCEPT ![w] = Absent]
  /\ result' = [result EXCEPT ![w] = NoResult]
  /\ UNCHANGED <<topologyVars, taken, readerVars, seen>>

\* Faulty variant: MarkCompleted returns after SetStatus.
StoreNoOutput(w) ==
  /\ at[w] = "output"
  /\ UNCHANGED stateVars
  /\ NextJob(w)

\* Second half of MarkCompleted: SetOutput.
StoreOutput(w) ==
  /\ at[w] = "output"
  /\ State!SetOutput(job[w], result[w].output)
  /\ NextJob(w)

\* Second half of MarkFailed: SetError.
StoreError(w) ==
  /\ at[w] = "error"
  /\ State!SetError(job[w], result[w].error)
  /\ NextJob(w)

-----------------------------------------------------------------------------
(* DependenciesOf.  The result is the slice the call has built when no     *)
(* address is left to look up; addresses come in the map's random order.   *)
(* An entry of found is a key with the configuration of the node that      *)
(* Reread[key] names.                                                      *)

AskDependencies(r, id) ==
  /\ todo[r] = {}
  /\ LET fails == Topology!DependenciesFail(id) IN
     /\ asking' = [asking EXCEPT ![r] = IF fails THEN "error" ELSE "nodes"]
     /\ todo' = [todo EXCEPT ![r] = IF fails THEN {} ELSE deps[id]]
  /\ asked' = [asked EXCEPT ![r] = id]
  /\ found' = [found EXCEPT ![r] = {}]
  /\ UNCHANGED <<topologyVars, stateVars, workerVars, seen>>

\* Faulty variant: an address that has no node ends the loop.
LookUpBreaks(r, key) ==
  /\ key \in todo[r]
  /\ LET address == Reread[key] IN
     /\ todo' = [todo EXCEPT ![r] = IF Topology!Exists(address)
                                     THEN @ \ {key} ELSE {}]
     /\ found' = [found EXCEPT ![r] =
                    IF Topology!Exists(address)
                    THEN @ \cup {<<key, nodes[address]>>} ELSE @]
  /\ UNCHANGED <<topologyVars, stateVars, workerVars, asking, asked, seen>>

\* One GetNode; an address that has no node is logged and left out.
LookUpDependency(r, key) ==
  /\ key \in todo[r]
  /\ todo' = [todo EXCEPT ![r] = @ \ {key}]
  /\ LET address == Reread[key] IN
     found' = [found EXCEPT ![r] =
                 IF Topology!Exists(address)
                 THEN @ \cup {<<key, nodes[address]>>} ELSE @]
  /\ UNCHANGED <<topologyVars, stateVars, workerVars, asking, asked, seen>>

-----------------------------------------------------------------------------
(* An observer's calls: NodeStatus, then the node store's GetOutput and    *)
(* GetError, which Graph does not expose but its readers use.              *)

ObserveStatus(o, id) ==
  /\ seen' = [seen EXCEPT ![o] =
                [NoView EXCEPT !.id = id, !.status = State!GetStatus(id)]]
  /\ UNCHANGED <<topologyVars, stateVars, workerVars, readerVars>>

ObserveOutput(o) ==
  /\ seen[o].id # Absent
  /\ seen' = [seen EXCEPT ![o].output = State!GetOutput(seen[o].id)]
  /\ UNCHANGED <<topologyVars, stateVars, workerVars, readerVars>>

ObserveError(o) ==
  /\ seen[o].id # Absent
  /\ seen' = [seen EXCEPT ![o].error = State!GetError(seen[o].id)]
  /\ UNCHANGED <<topologyVars, stateVars, workerVars, readerVars>>

-----------------------------------------------------------------------------

Build ==
  \/ \E id \in Ids, cfg \in Configs : AddNode(id, cfg)
  \/ \E link \in Links : AddDependency(link[1], link[2])

Work(w) ==
  \/ \E id \in Ids : Free(id) /\ MarkRunning(w, id)
  \/ \E id \in Ids : Untouched(id) /\ MarkSkipped(w, id)
  \/ \E output \in Outputs, err \in Errors \cup {Nil} :
       HandlerReturns(w, output, err)
  \/ MarkCompleted(w) \/ MarkFailed(w)
  \/ StoreOutput(w) \/ StoreError(w)

Read(r) ==
  \/ \E id \in Ids : AskDependencies(r, id)
  \/ \E key \in Ids : LookUpDependency(r, key)

Observe(o) ==
  \/ \E id \in Ids : ObserveStatus(o, id)
  \/ ObserveOutput(o)
  \/ ObserveError(o)

Next ==
  \/ Build
  \/ \E w \in Workers : Work(w)
  \/ \E r \in Readers : Read(r)
  \/ \E o \in Observers : Observe(o)

Spec == Init /\ [][Next]_vars

\* Goroutines that can run do: the calls block on no lock for ever, but a
\* handler need not return, and nobody has to make a call at all.
Fairness ==
  \A w \in Workers :
    /\ WF_vars(MarkCompleted(w)) /\ WF_vars(MarkFailed(w))
    /\ WF_vars(StoreOutput(w)) /\ WF_vars(StoreError(w))

FairSpec == Spec /\ Fairness

-----------------------------------------------------------------------------
(* Properties                                                              *)

Storing(id) == \E w \in Workers : job[w] = id /\ at[w] \in {"output", "error"}

\* Every stored edge joins two nodes of the topology, whatever order nodes
\* and links are added in (AddDependency's two checks, and no removal).
EdgesConnectNodes ==
  \A to \in Ids : \A from \in deps[to] :
    Topology!Exists(from) /\ Topology!Exists(to)

\* DependenciesOf releases the topology's lock between the list of addresses
\* and each GetNode; still the branch "this shouldn't happen" (graph.go 61)
\* is taken for no dependency but one whose key is misread as another
\* address: every other one on the list has its node, ...
LookupsFindTheirNode ==
  \A r \in Readers : \A key \in Faithful(todo[r]) : Topology!Exists(key)

\* ... and what it has collected is not out of date when it returns: each
\* node was looked up for a dependency of the very node that was asked
\* about, and is still the node of the address that this key comes back as.
CollectedNodesAreCurrent ==
  \A r \in Readers : \A f \in found[r] :
    /\ f[1] \in deps[asked[r]]
    /\ nodes[Reread[f[1]]] = f[2]

\* Once no worker is between the two calls of MarkCompleted or MarkFailed
\* on a node, a completed node has an output and a failed one an error.
VerdictHasItsValue ==
  \A id \in Ids : ~Storing(id) =>
    /\ states[id] = State!Completed => outputs[id] # Absent
    /\ states[id] = State!Failed => errors[id] # Absent

\* An output is readable only while its node is completed: status comes
\* first in MarkCompleted and no later call on that node undoes it.
OutputOnlyOfCompleted ==
  \A id \in Ids : outputs[id] # Absent => states[id] = State!Completed

\* "Returns nil if the node succeeded or hasn't executed yet" (GetError,
\* nodestore/store.go 121): an error is readable only of a failed node.
ErrorOnlyOfFailed ==
  \A id \in Ids : errors[id] # Absent => states[id] = State!Failed

\* What an observer learned of a terminal status, an output or an error is
\* still so at any later time: the scheduler may act on it after the call.
ObservationsStayTrue ==
  \A o \in Observers : LET s == seen[o] IN
    /\ s.status \in State!Terminal => states[s.id] = s.status
    /\ s.output \notin {Unread, Nil} =>
         states[s.id] = State!Completed /\ outputs[s.id] = s.output
    /\ s.error \notin {Unread, Nil} =>
         states[s.id] = State!Failed /\ errors[s.id] = s.error

\* "Returns nil if the node hasn't completed yet or produced no output"
\* (GetOutput, nodestore/store.go 104): whoever saw a node completed and
\* then reads nil knows that its handler returned nil.
CompletedOutputIsVisible ==
  \A o \in Observers :
    seen[o].status = State!Completed /\ seen[o].output = Nil => Nil \in Outputs

\* What a handler returned reaches the store: after it the node becomes
\* completed or failed, and its output or its error readable.
ResultsAreStored ==
  \A w \in Workers, id \in Ids :
    (at[w] = "returned" /\ job[w] = id) ~>
      \/ states[id] = State!Completed /\ outputs[id] # Absent
      \/ states[id] = State!Failed /\ errors[id] # Absent

-----------------------------------------------------------------------------
(* Refinement: a node becomes completed or failed when its value is there, *)
(* and a query answers at its first step, misread keys aside.              *)

verdictMap ==
  [id \in Ids |->
     IF states[id] = Absent THEN State!Pending
     ELSE IF \/ states[id] = State!Completed /\ outputs[id] = Absent
             \/ states[id] = State!Failed /\ errors[id] = Absent
     THEN State!Running
     ELSE states[id]]

valueMap == [id \in Ids |-> IF outputs[id] # Absent THEN outputs[id] ELSE errors[id]]

Promised(r) ==
  {f \in found[r] : Reread[f[1]] = f[1]}
    \cup {<<d, nodes[d]>> : d \in Faithful(todo[r])}

answerMap ==
  [r \in Readers |-> [kind |-> asking[r], about |-> asked[r], nodes |-> Promised(r)]]

Atomic == INSTANCE AtomicGraph
            WITH verdict <- verdictMap, value <- valueMap, answer <- answerMap

\* The manager over its two stores implements the atomic graph.
ImplementsAtomicGraph == Atomic!Spec

=============================================================================
