------------------------- MODULE GraphManagerProofs -------------------------
(***************************************************************************)
(* The invariants of GraphManager, for every set of addresses, workers,    *)
(* readers and observers.  None of them is inductive: what a worker stores *)
(* depends on what it holds, and what a node's maps hold on whether a      *)
(* worker has it.  GraphInv says both.                                     *)
(***************************************************************************)
EXTENDS GraphManager, TLAPS

Busy == {"running", "returned", "output", "error"}

\* A worker holds a node exactly while it is busy, and has stored of it what
\* the place it has reached says.
WorkerOK(w) ==
  /\ at[w] = "idle" <=> job[w] = Absent
  /\ at[w] # "idle" =>
       /\ job[w] \in taken
       /\ outputs[job[w]] = Absent
       /\ Retry \/ errors[job[w]] = Absent
  /\ at[w] \in {"running", "returned"} => states[job[w]] = "running"
  /\ at[w] = "output" => states[job[w]] = "completed"
  /\ at[w] = "error" => states[job[w]] = "failed"

\* What a busy worker will store is a value of the right kind.
ResultOK(w) ==
  /\ at[w] \in {"returned", "output", "error"} =>
       result[w].output # Absent /\ result[w].error # Absent
  /\ at[w] = "output" => result[w].error = Nil
  /\ at[w] = "error" => result[w].error # Nil

Held(id) == \E w \in Workers : job[w] = id

\* A node is run by one worker at a time, as Free demands of the callers.
OneWorkerPerNode ==
  \A v, w \in Workers : job[v] = job[w] /\ job[v] # Absent => v = w

\* A node nobody took has no entries; one that was let go has its verdict.
NodeOK(id) ==
  /\ id \notin taken =>
       states[id] = Absent /\ outputs[id] = Absent /\ errors[id] = Absent
  /\ id \in taken /\ ~Held(id) =>
       \/ /\ states[id] = "completed" /\ outputs[id] # Absent
          /\ Retry \/ errors[id] = Absent
       \/ states[id] = "failed" /\ outputs[id] = Absent /\ errors[id] # Absent
       \/ /\ states[id] = "skipped" /\ outputs[id] = Absent
          /\ Retry \/ errors[id] = Absent

WorkInv ==
  /\ OneWorkerPerNode
  /\ \A w \in Workers : WorkerOK(w)
  /\ \A id \in Ids : NodeOK(id)

\* What a DependenciesOf call has still to look up are dependencies of the
\* node it was asked about.
TodoAreDependencies ==
  \A r \in Readers :
    (todo[r] # {} \/ found[r] # {}) => asked[r] \in Ids /\ todo[r] \subseteq deps[asked[r]]

TopologyInv ==
  /\ EdgesConnectNodes /\ LookupsFindTheirNode /\ CollectedNodesAreCurrent
  /\ TodoAreDependencies

Typed == TypeOK /\ \A w \in Workers : ResultOK(w)

GraphInv == Typed /\ TopologyInv /\ WorkInv

-----------------------------------------------------------------------------
(* Types                                                                   *)

\* The empty stores and idle goroutines are of their types.
LEMMA TypedInit == Init => Typed
  BY ConstantsAssumption
  DEF Init, Typed, TypeOK, ResultOK, Topology!Init, Topology!TypeOK,
      State!Init, State!Status, NoResult, NoView, View, Unread

\* Every step of Build, Work, Read and Observe keeps the types.
LEMMA TypedStep == Typed /\ [Next]_vars => Typed'
  <1> SUFFICES ASSUME Typed, [Next]_vars PROVE Typed'
    OBVIOUS
  <1> USE ConstantsAssumption
      DEF Typed, TypeOK, ResultOK, Topology!TypeOK, topologyVars, stateVars,
          workerVars, readerVars, State!Pending, State!Running,
          State!Completed, State!Failed, State!Skipped, State!Status
  <1>1. ASSUME NEW id \in Ids, NEW cfg \in Configs, AddNode(id, cfg)
        PROVE  Typed'
    BY <1>1 DEF AddNode, Topology!AddNode
  <1>2. ASSUME NEW link \in Links, AddDependency(link[1], link[2])
        PROVE  Typed'
    BY <1>2 DEF AddDependency, Topology!AddDependency
  <1>3. ASSUME NEW w \in Workers, NEW id \in Ids, MarkRunning(w, id)
        PROVE  Typed'
    BY <1>3 DEF MarkRunning, State!SetStatus
  <1>4. ASSUME NEW w \in Workers, NEW id \in Ids, MarkSkipped(w, id)
        PROVE  Typed'
    BY <1>4 DEF MarkSkipped, State!SetStatus
  <1>5. ASSUME NEW w \in Workers, NEW output \in Outputs,
               NEW err \in Errors \cup {Nil}, HandlerReturns(w, output, err)
        PROVE  Typed'
    BY <1>5 DEF HandlerReturns
  <1>6. ASSUME NEW w \in Workers, MarkCompleted(w)
        PROVE  Typed'
    BY <1>6 DEF MarkCompleted, State!SetStatus
  <1>7. ASSUME NEW w \in Workers, MarkFailed(w)
        PROVE  Typed'
    BY <1>7 DEF MarkFailed, State!SetStatus
  <1>8. ASSUME NEW w \in Workers, StoreOutput(w)
        PROVE  Typed'
    BY <1>8 DEF StoreOutput, NextJob, NoResult, State!SetOutput
  <1>9. ASSUME NEW w \in Workers, StoreError(w)
        PROVE  Typed'
    BY <1>9 DEF StoreError, NextJob, NoResult, State!SetError
  <1>10. ASSUME NEW r \in Readers, NEW id \in Ids, AskDependencies(r, id)
         PROVE  Typed'
    <2>1. ~Topology!DependenciesFail(id) => deps[id] \in SUBSET Readable
      BY DEF Topology!DependenciesFail, Readable
    <2>2. QED
      BY <1>10, <2>1 DEF AskDependencies
  <1>11. ASSUME NEW r \in Readers, NEW key \in Ids, LookUpDependency(r, key)
         PROVE  Typed'
    <2>1. key \in Readable /\ Reread[key] \in Ids
      BY <1>11 DEF LookUpDependency, Readable
    <2>2. Topology!Exists(Reread[key]) => nodes[Reread[key]] \in Configs
      BY <2>1 DEF Topology!Exists
    <2>3. QED
      BY <1>11, <2>1, <2>2 DEF LookUpDependency
  <1>12. ASSUME NEW o \in Observers, NEW id \in Ids, ObserveStatus(o, id)
         PROVE  Typed'
    <2>1. State!GetStatus(id) \in State!Status
      BY DEF State!GetStatus
    <2>2. [NoView EXCEPT !.id = id, !.status = State!GetStatus(id)] \in View
      BY <2>1 DEF NoView, View
    <2>3. seen' \in [Observers -> View]
      BY <1>12, <2>2 DEF ObserveStatus, View
    <2>4. QED
      BY <1>12, <2>3 DEF ObserveStatus, View
  <1>13. ASSUME NEW o \in Observers, ObserveOutput(o)
         PROVE  Typed'
    <2>1. seen[o] \in View /\ seen[o].id \in Ids
      BY <1>13 DEF ObserveOutput, View
    <2>2. State!GetOutput(seen[o].id) \in Outputs \cup {Nil, Unread}
      BY <2>1 DEF State!GetOutput
    <2>3. [seen[o] EXCEPT !.output = State!GetOutput(seen[o].id)] \in View
      BY <2>1, <2>2 DEF View
    <2>4. seen' \in [Observers -> View]
      BY <1>13, <2>3 DEF ObserveOutput, View
    <2>5. QED
      BY <1>13, <2>4 DEF ObserveOutput, View
  <1>14. ASSUME NEW o \in Observers, ObserveError(o)
         PROVE  Typed'
    <2>1. seen[o] \in View /\ seen[o].id \in Ids
      BY <1>14 DEF ObserveError, View
    <2>2. State!GetError(seen[o].id) \in Errors \cup {Nil, Unread}
      BY <2>1 DEF State!GetError
    <2>3. [seen[o] EXCEPT !.error = State!GetError(seen[o].id)] \in View
      BY <2>1, <2>2 DEF View
    <2>4. seen' \in [Observers -> View]
      BY <1>14, <2>3 DEF ObserveError, View
    <2>5. QED
      BY <1>14, <2>4 DEF ObserveError, View
  <1>15. CASE UNCHANGED vars
    BY <1>15 DEF vars
  <1>16. QED
    BY <1>1, <1>2, <1>3, <1>4, <1>5, <1>6, <1>7, <1>8, <1>9, <1>10, <1>11,
       <1>12, <1>13, <1>14, <1>15
    DEF Next, Build, Work, Read, Observe

\* Every map, worker, reader and observer holds values of its type.
THEOREM TypeCorrect == Spec => []TypeOK
  <1>1. Typed => TypeOK
    BY DEF Typed
  <1>2. QED
    BY <1>1, TypedInit, TypedStep, PTL DEF Spec


-----------------------------------------------------------------------------
(* The topology: nodes are never replaced or removed, so an address read   *)
(* under one lock still has its node under the next, unless its key was    *)
(* misread.                                                                *)

\* The empty topology has no edge and nobody asks for one.
LEMMA TopologyInit == Init => TopologyInv
  BY DEF Init, Topology!Init, TopologyInv, EdgesConnectNodes,
     LookupsFindTheirNode, CollectedNodesAreCurrent, TodoAreDependencies, Faithful

\* AddNode and AddDependency only add, so what was found stays found.
LEMMA TopologyStep == Typed /\ TopologyInv /\ [Next]_vars => TopologyInv'
  <1> SUFFICES ASSUME Typed, TopologyInv, [Next]_vars PROVE TopologyInv'
    OBVIOUS
  <1> USE DEF TopologyInv, EdgesConnectNodes, LookupsFindTheirNode,
              CollectedNodesAreCurrent, TodoAreDependencies, Faithful,
              Readable, Topology!Exists
  <1>t. /\ nodes \in [Ids -> Configs \cup {Absent}]
        /\ deps \in [Ids -> SUBSET Ids]
        /\ todo \in [Readers -> SUBSET Readable]
        /\ found \in [Readers -> SUBSET (Readable \X Configs)]
        /\ asked \in [Readers -> Ids \cup {Absent}]
        /\ Reread \in [Ids -> Ids \cup {Absent}]
    BY ConstantsAssumption DEF Typed, TypeOK, Topology!TypeOK
  <1>1. ASSUME NEW id \in Ids, NEW cfg \in Configs, AddNode(id, cfg)
        PROVE  TopologyInv'
    <2>1. /\ UNCHANGED <<deps, asked, todo, found>>
          /\ \A n \in Ids : nodes[n] # Absent => nodes'[n] = nodes[n]
      BY <1>1, <1>t DEF AddNode, Topology!AddNode, readerVars
    <2>2. EdgesConnectNodes' /\ LookupsFindTheirNode' /\ TodoAreDependencies'
      BY <2>1, <1>t
    <2>3. ASSUME NEW r \in Readers, NEW f \in found[r]
          PROVE  nodes'[Reread[f[1]]] = f[2] /\ f[1] \in deps'[asked'[r]]
      <3>1. /\ Reread[f[1]] \in Ids /\ f[2] \in Configs
            /\ nodes[Reread[f[1]]] = f[2] /\ f[1] \in deps[asked[r]]
        BY <1>t
      <3>2. nodes[Reread[f[1]]] # Absent
        BY <3>1, ConstantsAssumption
      <3>3. QED
        BY <2>1, <3>1, <3>2
    <2>4. QED
      BY <2>1, <2>2, <2>3
  <1>2. ASSUME NEW link \in Links, AddDependency(link[1], link[2])
        PROVE  TopologyInv'
    <2>1. link[1] \in Ids /\ link[2] \in Ids
      BY ConstantsAssumption
    <2>2. /\ UNCHANGED <<nodes, asked, todo, found>>
          /\ \A to \in Ids : deps[to] \subseteq deps'[to]
          /\ \A to \in Ids : \A from \in deps'[to] :
               from \in deps[to] \/ (nodes[from] # Absent /\ nodes[to] # Absent)
      BY <1>2, <1>t, <2>1 DEF AddDependency, Topology!AddDependency, readerVars
    <2>3. EdgesConnectNodes'
      BY <2>2
    <2>4. LookupsFindTheirNode' /\ TodoAreDependencies'
      BY <2>2
    <2>5. ASSUME NEW r \in Readers, NEW f \in found[r]
          PROVE  nodes'[Reread[f[1]]] = f[2] /\ f[1] \in deps'[asked'[r]]
      <3>1. asked[r] \in Ids /\ f[1] \in deps[asked[r]] /\ nodes[Reread[f[1]]] = f[2]
        BY <2>5
      <3>2. QED
        BY <2>2, <3>1
    <2>6. CollectedNodesAreCurrent'
      BY <2>2, <2>5
    <2>7. QED
      BY <2>3, <2>4, <2>6
  <1>3. ASSUME NEW r \in Readers, NEW id \in Ids, AskDependencies(r, id)
        PROVE  TopologyInv'
    <2>1. UNCHANGED <<nodes, deps>>
      BY <1>3 DEF AskDependencies, topologyVars
    <2>2. \A s \in Readers : s # r =>
            todo'[s] = todo[s] /\ found'[s] = found[s] /\ asked'[s] = asked[s]
      BY <1>3, <1>t DEF AskDependencies
    <2>3. todo'[r] \subseteq deps[id] /\ found'[r] = {} /\ asked'[r] = id
      BY <1>3, <1>t DEF AskDependencies
    <2>4. QED
      BY <2>1, <2>2, <2>3
  <1>4. ASSUME NEW r \in Readers, NEW key \in Ids, LookUpDependency(r, key)
        PROVE  TopologyInv'
    <2>1. UNCHANGED <<nodes, deps, asked>>
      BY <1>4 DEF LookUpDependency, topologyVars
    <2>2. \A s \in Readers : s # r => todo'[s] = todo[s] /\ found'[s] = found[s]
      BY <1>4, <1>t DEF LookUpDependency
    <2>3. /\ key \in todo[r] /\ todo'[r] \subseteq todo[r]
          /\ found'[r] \subseteq found[r] \cup {<<key, nodes[Reread[key]]>>}
      BY <1>4, <1>t DEF LookUpDependency
    <2>4. LookupsFindTheirNode' /\ TodoAreDependencies' /\ EdgesConnectNodes'
      BY <2>1, <2>2, <2>3
    <2>5. \A f \in found'[r] :
            nodes[Reread[f[1]]] = f[2] /\ f[1] \in deps[asked[r]]
      BY <2>3
    <2>6. CollectedNodesAreCurrent'
      BY <2>1, <2>2, <2>5
    <2>7. QED
      BY <2>4, <2>6
  <1>5. CASE UNCHANGED <<nodes, deps, asked, todo, found>>
    BY <1>5
  <1>6. ASSUME NEW w \in Workers, Work(w)
        PROVE  UNCHANGED <<nodes, deps, asked, todo, found>>
    BY <1>6 DEF Work, MarkRunning, MarkSkipped, HandlerReturns, MarkCompleted,
       MarkFailed, StoreOutput, StoreError, NextJob, topologyVars, readerVars
  <1>7. ASSUME NEW o \in Observers, Observe(o)
        PROVE  UNCHANGED <<nodes, deps, asked, todo, found>>
    BY <1>7 DEF Observe, ObserveStatus, ObserveOutput, ObserveError,
       topologyVars, readerVars
  <1>8. QED
    BY <1>1, <1>2, <1>3, <1>4, <1>5, <1>6, <1>7 DEF Next, Build, Read, vars

-----------------------------------------------------------------------------
(* The workers and the node store.                                         *)

\* No node has a result before it has been taken.
LEMMA WorkInit == Init => WorkInv
  BY DEF Init, State!Init, WorkInv, OneWorkerPerNode, WorkerOK, NodeOK

\* A step on the node that one worker holds, or is to hold, leaves the
\* others' workers and nodes as they were.
LEMMA OthersUndisturbed ==
  ASSUME Typed, WorkInv, NEW w \in Workers, NEW id \in Ids,
         \A v \in Workers : v # w => job[v] # id,
         job[w] \in {id, Absent},
         \A v \in Workers : v # w => at'[v] = at[v] /\ job'[v] = job[v],
         \A n \in Ids : n # id =>
           states'[n] = states[n] /\ outputs'[n] = outputs[n] /\ errors'[n] = errors[n],
         job'[w] \in {id, Absent},
         taken' = taken \cup {id},
         WorkerOK(w)', NodeOK(id)'
  PROVE  WorkInv'
  <1> USE ConstantsAssumption
  <1>t. /\ job \in [Workers -> Ids \cup {Absent}]
        /\ at \in [Workers -> {"idle", "running", "returned", "output", "error"}]
    BY DEF Typed, TypeOK
  <1>1. OneWorkerPerNode'
    BY <1>t DEF WorkInv, OneWorkerPerNode
  <1>2. ASSUME NEW v \in Workers PROVE WorkerOK(v)'
    <2>1. CASE v = w
      BY <2>1
    <2>2. CASE v # w
      <3>1. WorkerOK(v)
        BY DEF WorkInv
      <3>2. CASE at[v] = "idle"
        BY <2>2, <3>1, <3>2, <1>t DEF WorkerOK
      <3>3. CASE at[v] # "idle"
        <4>1. job[v] \in Ids /\ job[v] # id
          BY <2>2, <3>1, <3>3, <1>t DEF WorkerOK
        <4>2. QED
          BY <2>2, <3>1, <3>3, <4>1, <1>t DEF WorkerOK
      <3>4. QED
        BY <3>2, <3>3
    <2>3. QED
      BY <2>1, <2>2
  <1>3. ASSUME NEW n \in Ids PROVE NodeOK(n)'
    <2>1. CASE n = id
      BY <2>1
    <2>2. CASE n # id
      <3>1. NodeOK(n)
        BY DEF WorkInv
      <3>2. Held(n)' <=> Held(n)
        BY <2>2, <1>t DEF Held
      <3>3. QED
        BY <2>2, <3>1, <3>2 DEF NodeOK
    <2>3. QED
      BY <2>1, <2>2
  <1>4. QED
    BY <1>1, <1>2, <1>3 DEF WorkInv

\* A worker changes the state of its own node only, and in order.
LEMMA WorkStep == Typed /\ WorkInv /\ [Next]_vars => WorkInv'
  <1> SUFFICES ASSUME Typed, WorkInv, [Next]_vars PROVE WorkInv'
    OBVIOUS
  <1> USE ConstantsAssumption
      DEF topologyVars, stateVars, workerVars, readerVars, State!Pending,
          State!Running, State!Completed, State!Failed, State!Skipped
  <1>t. /\ states \in [Ids -> State!Status \cup {Absent}]
        /\ outputs \in [Ids -> Outputs \cup {Absent}]
        /\ errors \in [Ids -> Errors \cup {Absent}]
        /\ at \in [Workers -> {"idle", "running", "returned", "output", "error"}]
        /\ job \in [Workers -> Ids \cup {Absent}]
        /\ result \in [Workers -> [output : Outputs \cup {Absent},
                                   error : Errors \cup {Nil, Absent}]]
        /\ \A w \in Workers : ResultOK(w)
    BY DEF Typed, TypeOK
  \* A busy worker holds a node, and alone.
  <1>b. ASSUME NEW w \in Workers, at[w] # "idle"
        PROVE  /\ job[w] \in Ids /\ job[w] \in taken
               /\ \A v \in Workers : v # w => job[v] # job[w]
    BY <1>b, <1>t DEF WorkInv, WorkerOK, OneWorkerPerNode
  <1>1. ASSUME NEW w \in Workers, NEW id \in Ids, Free(id), MarkRunning(w, id)
        PROVE  WorkInv'
    <2>1. /\ at[w] = "idle" /\ job[w] = Absent
          /\ \A v \in Workers : job[v] # id
          /\ outputs[id] = Absent /\ (Retry \/ errors[id] = Absent)
      <3>1. at[w] = "idle" /\ job[w] = Absent
        BY <1>1 DEF MarkRunning, WorkInv, WorkerOK
      <3>2. CASE id \notin taken
        <4>1. \A v \in Workers : job[v] # id
          BY <3>2, <1>t DEF WorkInv, WorkerOK
        <4>2. QED
          BY <3>1, <3>2, <4>1 DEF WorkInv, NodeOK
      <3>3. CASE id \in taken
        <4>1. /\ Retry /\ states[id] = "failed"
              /\ \A v \in Workers : job[v] # id
          BY <1>1, <3>3 DEF Free, Untouched
        <4>2. QED
          BY <3>1, <3>3, <4>1 DEF WorkInv, NodeOK, Held
      <3>4. QED
        BY <3>2, <3>3
    <2>2. /\ at' = [at EXCEPT ![w] = "running"]
          /\ job' = [job EXCEPT ![w] = id]
          /\ states' = [states EXCEPT ![id] = "running"]
          /\ taken' = taken \cup {id}
          /\ UNCHANGED <<outputs, errors>>
      BY <1>1 DEF MarkRunning, State!SetStatus
    <2>3. WorkerOK(w)'
      BY <2>1, <2>2, <1>t DEF WorkerOK
    <2>4. NodeOK(id)'
      BY <2>2, <1>t DEF NodeOK, Held
    <2>5. QED
      BY <2>1, <2>2, <2>3, <2>4, <1>t, OthersUndisturbed
  <1>2. ASSUME NEW w \in Workers, NEW id \in Ids, Untouched(id), MarkSkipped(w, id)
        PROVE  WorkInv'
    <2>1. /\ at[w] = "idle" /\ job[w] = Absent /\ id \notin taken
          /\ \A v \in Workers : job[v] # id
      BY <1>2, <1>t DEF Untouched, MarkSkipped, WorkInv, WorkerOK
    <2>2. /\ states' = [states EXCEPT ![id] = "skipped"]
          /\ taken' = taken \cup {id}
          /\ UNCHANGED <<outputs, errors, at, job>>
      BY <1>2 DEF MarkSkipped, State!SetStatus
    <2>3. WorkerOK(w)'
      BY <2>1, <2>2, <1>t DEF WorkerOK
    <2>4. outputs[id] = Absent /\ errors[id] = Absent
      BY <2>1 DEF WorkInv, NodeOK
    <2>5. NodeOK(id)'
      BY <2>1, <2>2, <2>4, <1>t DEF NodeOK, Held
    <2>6. QED
      BY <2>1, <2>2, <2>3, <2>5, <1>t, OthersUndisturbed
  <1>3. ASSUME NEW w \in Workers, NEW output \in Outputs,
               NEW err \in Errors \cup {Nil}, HandlerReturns(w, output, err)
        PROVE  WorkInv'
    <2>1. /\ at[w] = "running" /\ at' = [at EXCEPT ![w] = "returned"]
          /\ UNCHANGED <<states, outputs, errors, job, taken>>
      BY <1>3 DEF HandlerReturns
    <2>2. WorkerOK(w)'
      BY <2>1, <1>t DEF WorkInv, WorkerOK
    <2>3. NodeOK(job[w])'
      BY <2>1, <1>b DEF NodeOK, Held
    <2>4. QED
      BY <2>1, <2>2, <2>3, <1>b, <1>t, OthersUndisturbed
  <1>4. ASSUME NEW w \in Workers, MarkCompleted(w)
        PROVE  WorkInv'
    <2>1. /\ at[w] = "returned" /\ at' = [at EXCEPT ![w] = "output"]
          /\ states' = [states EXCEPT ![job[w]] = "completed"]
          /\ UNCHANGED <<outputs, errors, job, taken>>
      BY <1>4 DEF MarkCompleted, State!SetStatus
    <2>2. WorkerOK(w)'
      BY <2>1, <1>t, <1>b DEF WorkInv, WorkerOK
    <2>3. NodeOK(job[w])'
      BY <2>1, <1>b DEF NodeOK, Held
    <2>4. QED
      BY <2>1, <2>2, <2>3, <1>b, <1>t, OthersUndisturbed
  <1>5. ASSUME NEW w \in Workers, MarkFailed(w)
        PROVE  WorkInv'
    <2>1. /\ at[w] = "returned" /\ at' = [at EXCEPT ![w] = "error"]
          /\ states' = [states EXCEPT ![job[w]] = "failed"]
          /\ UNCHANGED <<outputs, errors, job, taken>>
      BY <1>5 DEF MarkFailed, State!SetStatus
    <2>2. WorkerOK(w)'
      BY <2>1, <1>t, <1>b DEF WorkInv, WorkerOK
    <2>3. NodeOK(job[w])'
      BY <2>1, <1>b DEF NodeOK, Held
    <2>4. QED
      BY <2>1, <2>2, <2>3, <1>b, <1>t, OthersUndisturbed
  <1>6. ASSUME NEW w \in Workers, StoreOutput(w)
        PROVE  WorkInv'
    <2>1. /\ at[w] = "output" /\ at' = [at EXCEPT ![w] = "idle"]
          /\ job' = [job EXCEPT ![w] = Absent]
          /\ outputs' = [outputs EXCEPT ![job[w]] = result[w].output]
          /\ UNCHANGED <<states, errors, taken>>
      BY <1>6 DEF StoreOutput, NextJob, State!SetOutput
    <2>2. WorkerOK(w)'
      BY <2>1, <1>t DEF WorkerOK
    <2>3. /\ states[job[w]] = "completed"
          /\ Retry \/ errors[job[w]] = Absent
          /\ result[w].output # Absent
      BY <2>1, <1>t DEF WorkInv, WorkerOK, ResultOK
    <2>4. PICK id \in Ids : id = job[w]
      BY <2>1, <1>b
    <2>5. id \in taken /\ \A v \in Workers : v # w => job[v] # id
      BY <2>1, <2>4, <1>b
    <2>6. NodeOK(id)'
      BY <2>1, <2>3, <2>4, <2>5, <1>t DEF NodeOK
    <2>7. QED
      BY <2>1, <2>2, <2>4, <2>5, <2>6, <1>t, OthersUndisturbed
  <1>7. ASSUME NEW w \in Workers, StoreError(w)
        PROVE  WorkInv'
    <2>1. /\ at[w] = "error" /\ at' = [at EXCEPT ![w] = "idle"]
          /\ job' = [job EXCEPT ![w] = Absent]
          /\ errors' = [errors EXCEPT ![job[w]] = result[w].error]
          /\ UNCHANGED <<states, outputs, taken>>
      BY <1>7 DEF StoreError, NextJob, State!SetError
    <2>2. WorkerOK(w)'
      BY <2>1, <1>t DEF WorkerOK
    <2>3. /\ states[job[w]] = "failed" /\ outputs[job[w]] = Absent
          /\ result[w].error # Absent
      BY <2>1, <1>t DEF WorkInv, WorkerOK, ResultOK
    <2>4. PICK id \in Ids : id = job[w]
      BY <2>1, <1>b
    <2>5. id \in taken /\ \A v \in Workers : v # w => job[v] # id
      BY <2>1, <2>4, <1>b
    <2>6. NodeOK(id)'
      BY <2>1, <2>3, <2>4, <2>5, <1>t DEF NodeOK
    <2>7. QED
      BY <2>1, <2>2, <2>4, <2>5, <2>6, <1>t, OthersUndisturbed
  <1>8. CASE UNCHANGED <<states, outputs, errors, at, job, taken>>
    BY <1>8 DEF WorkInv, OneWorkerPerNode, WorkerOK, NodeOK, Held
  <1>9. ASSUME Build \/ (\E r \in Readers : Read(r))
               \/ (\E o \in Observers : Observe(o)) \/ UNCHANGED vars
        PROVE  UNCHANGED <<states, outputs, errors, at, job, taken>>
    BY <1>9 DEF Build, AddNode, AddDependency, Read, AskDependencies,
       LookUpDependency, Observe, ObserveStatus, ObserveOutput, ObserveError, vars
  <1>10. QED
    BY <1>1, <1>2, <1>3, <1>4, <1>5, <1>6, <1>7, <1>8, <1>9 DEF Next, Work

-----------------------------------------------------------------------------
(* The invariants.                                                         *)

\* Types, topology and work together are invariant.
LEMMA Invariance == Spec => []GraphInv
  <1>1. Init => GraphInv
    BY TypedInit, TopologyInit, WorkInit DEF GraphInv
  <1>2. GraphInv /\ [Next]_vars => GraphInv'
    BY TypedStep, TopologyStep, WorkStep DEF GraphInv
  <1>3. QED
    BY <1>1, <1>2, PTL DEF Spec

\* Every edge joins two nodes, whatever order nodes and links came in.
THEOREM EdgesAreSound == Spec => []EdgesConnectNodes
  <1>1. GraphInv => EdgesConnectNodes
    BY DEF GraphInv, TopologyInv
  <1>2. QED
    BY <1>1, Invariance, PTL

\* DependenciesOf finds the node of every dependency whose key comes back as
\* its own address, though it takes the topology's lock anew for each: the
\* branch at graph.go 61 is taken for misread keys only.
THEOREM LookupsSucceed == Spec => []LookupsFindTheirNode
  <1>1. GraphInv => LookupsFindTheirNode
    BY DEF GraphInv, TopologyInv
  <1>2. QED
    BY <1>1, Invariance, PTL

\* What DependenciesOf has collected was looked up for dependencies of the
\* node it was asked about, and is not out of date when it returns.
THEOREM CollectedStayCurrent == Spec => []CollectedNodesAreCurrent
  <1>1. GraphInv => CollectedNodesAreCurrent
    BY DEF GraphInv, TopologyInv
  <1>2. QED
    BY <1>1, Invariance, PTL

\* Outside the two calls of MarkCompleted and MarkFailed, a verdict has the
\* value that goes with it.
THEOREM VerdictsHaveValues == Spec => []VerdictHasItsValue
  <1>1. ASSUME GraphInv, NEW id \in Ids, ~Storing(id)
        PROVE  /\ states[id] = State!Completed => outputs[id] # Absent
               /\ states[id] = State!Failed => errors[id] # Absent
    <2> USE ConstantsAssumption DEF State!Completed, State!Failed
    <2>0. NodeOK(id) /\ \A w \in Workers : WorkerOK(w)
      BY <1>1 DEF GraphInv, WorkInv
    <2>1. CASE id \notin taken
      BY <2>0, <2>1 DEF NodeOK
    <2>2. CASE id \in taken /\ ~Held(id)
      BY <2>0, <2>2 DEF NodeOK
    <2>3. CASE Held(id)
      <3>1. PICK w \in Workers : job[w] = id
        BY <2>3 DEF Held
      <3>2. at[w] \in {"idle", "running", "returned", "output", "error"}
        BY <1>1 DEF GraphInv, Typed, TypeOK
      <3>3. at[w] \in {"running", "returned"}
        BY <1>1, <2>0, <3>1, <3>2 DEF WorkerOK, Storing
      <3>4. QED
        BY <2>0, <3>1, <3>3 DEF WorkerOK
    <2>4. QED
      BY <2>1, <2>2, <2>3
  <1>2. GraphInv => VerdictHasItsValue
    BY <1>1 DEF VerdictHasItsValue
  <1>3. QED
    BY <1>2, Invariance, PTL

\* An output is readable only of a completed node, even between the calls
\* and when failed nodes are retried.
THEOREM OutputsOnlyOfCompleted == Spec => []OutputOnlyOfCompleted
  <1>1. GraphInv => OutputOnlyOfCompleted
    BY ConstantsAssumption
    DEF GraphInv, WorkInv, OutputOnlyOfCompleted, NodeOK, Held, WorkerOK,
        State!Completed
  <1>2. QED
    BY <1>1, Invariance, PTL

\* Without retries an error is readable only of a failed node: there is none
\* for GetError to return of any other.
THEOREM ErrorsOnlyOfFailed ==
  ASSUME ~Retry
  PROVE  Spec => []ErrorOnlyOfFailed
  <1>1. GraphInv => ErrorOnlyOfFailed
    BY ConstantsAssumption
    DEF GraphInv, WorkInv, ErrorOnlyOfFailed, NodeOK, Held, WorkerOK, State!Failed
  <1>2. QED
    BY <1>1, Invariance, PTL

-----------------------------------------------------------------------------
(* What a step does to a node's entries.                                   *)

\* A terminal status changes only from failed to running, under Retry; an
\* output never changes, nor an error without Retry.
EntriesKept ==
  \A id \in Ids :
    /\ states[id] \in State!Terminal =>
         \/ states'[id] = states[id]
         \/ Retry /\ states[id] = State!Failed /\ states'[id] = State!Running
    /\ outputs[id] # Absent => outputs'[id] = outputs[id]
    /\ ~Retry /\ errors[id] # Absent => errors'[id] = errors[id]

\* No step takes back a terminal status, an output or an error.
LEMMA StepsKeepEntries == GraphInv /\ [Next]_vars => EntriesKept
  <1> SUFFICES ASSUME GraphInv, [Next]_vars PROVE EntriesKept
    OBVIOUS
  <1> USE ConstantsAssumption
      DEF State!Pending, State!Running, State!Completed, State!Failed,
          State!Skipped, State!Terminal
  <1>t. /\ states \in [Ids -> State!Status \cup {Absent}]
        /\ outputs \in [Ids -> Outputs \cup {Absent}]
        /\ errors \in [Ids -> Errors \cup {Absent}]
        /\ job \in [Workers -> Ids \cup {Absent}]
    BY DEF GraphInv, Typed, TypeOK
  <1>w. /\ \A w \in Workers : WorkerOK(w)
        /\ \A id \in Ids : NodeOK(id)
    BY DEF GraphInv, WorkInv
  <1>1. ASSUME NEW w \in Workers, NEW id \in Ids, Free(id), MarkRunning(w, id)
        PROVE  EntriesKept
    <2>1. id \notin taken \/ (Retry /\ states[id] = "failed")
      BY <1>1 DEF Free, Untouched
    <2>2. id \notin taken => states[id] = Absent
      BY <1>w DEF NodeOK
    <2>3. QED
      BY <1>1, <1>t, <2>1, <2>2 DEF MarkRunning, State!SetStatus, EntriesKept
  <1>2. ASSUME NEW w \in Workers, NEW id \in Ids, Untouched(id), MarkSkipped(w, id)
        PROVE  EntriesKept
    <2>1. states[id] = Absent
      BY <1>2, <1>w DEF Untouched, NodeOK
    <2>2. QED
      BY <1>2, <1>t, <2>1 DEF MarkSkipped, State!SetStatus, EntriesKept
  <1>3. ASSUME NEW w \in Workers, MarkCompleted(w) \/ MarkFailed(w)
        PROVE  EntriesKept
    <2>1. states[job[w]] = "running"
      BY <1>3, <1>w DEF MarkCompleted, MarkFailed, WorkerOK
    <2>2. QED
      BY <1>3, <1>t, <2>1 DEF MarkCompleted, MarkFailed, State!SetStatus, EntriesKept
  <1>4. ASSUME NEW w \in Workers, StoreOutput(w)
        PROVE  EntriesKept
    <2>1. outputs[job[w]] = Absent
      BY <1>4, <1>w DEF StoreOutput, WorkerOK
    <2>2. QED
      BY <1>4, <1>t, <2>1 DEF StoreOutput, NextJob, State!SetOutput, EntriesKept
  <1>5. ASSUME NEW w \in Workers, StoreError(w)
        PROVE  EntriesKept
    <2>1. Retry \/ errors[job[w]] = Absent
      BY <1>5, <1>w DEF StoreError, WorkerOK
    <2>2. QED
      BY <1>5, <1>t, <2>1 DEF StoreError, NextJob, State!SetError, EntriesKept
  <1>6. CASE UNCHANGED stateVars
    BY <1>6 DEF stateVars, EntriesKept
  <1>7. ASSUME \/ Build \/ (\E r \in Readers : Read(r)) \/ UNCHANGED vars
               \/ \E o \in Observers : Observe(o)
               \/ \E w \in Workers, output \in Outputs, err \in Errors \cup {Nil} :
                    HandlerReturns(w, output, err)
        PROVE  UNCHANGED stateVars
    BY <1>7 DEF Build, AddNode, AddDependency, Read, AskDependencies,
       LookUpDependency, Observe, ObserveStatus, ObserveOutput, ObserveError,
       HandlerReturns, vars, stateVars
  <1>8. QED
    BY <1>1, <1>2, <1>3, <1>4, <1>5, <1>6, <1>7 DEF Next, Work

-----------------------------------------------------------------------------
(* Observers.                                                              *)

\* An observer that has seen anything has seen it of an address.
ViewOK(o) ==
  seen[o].id = Absent =>
    seen[o].status = Unread /\ seen[o].output = Unread /\ seen[o].error = Unread

\* What one observer has seen still holds.
ViewHolds(o) ==
  LET s == seen[o] IN
    /\ s.status \in State!Terminal => states[s.id] = s.status
    /\ s.output \notin {Unread, Nil} =>
         states[s.id] = State!Completed /\ outputs[s.id] = s.output
    /\ s.error \notin {Unread, Nil} =>
         states[s.id] = State!Failed /\ errors[s.id] = s.error

ObserverInv == \A o \in Observers : ViewOK(o) /\ ViewHolds(o)

\* A view that holds goes on to hold while it is not replaced.
LEMMA ViewKept ==
  ASSUME ~Retry, GraphInv, EntriesKept, NEW o \in Observers,
         ViewOK(o), ViewHolds(o), seen'[o] = seen[o]
  PROVE  ViewOK(o)' /\ ViewHolds(o)'
  <1> DEFINE s == seen[o]
  <1> USE DEF State!Terminal, State!Completed, State!Failed, State!Skipped
  <1>1. ViewOK(o)'
    BY DEF ViewOK
  <1>2. s.id \in Ids \cup {Absent}
    BY DEF GraphInv, Typed, TypeOK, View
  <1>3. CASE s.id = Absent
    BY <1>1, <1>3 DEF ViewOK, ViewHolds, Unread
  <1>4. CASE s.id \in Ids
    <2>1. /\ states[s.id] \in State!Terminal => states'[s.id] = states[s.id]
          /\ outputs[s.id] # Absent => outputs'[s.id] = outputs[s.id]
          /\ errors[s.id] # Absent => errors'[s.id] = errors[s.id]
      BY <1>4 DEF EntriesKept
    <2>2. s.output # Absent /\ s.error # Absent
      BY ConstantsAssumption DEF GraphInv, Typed, TypeOK, View, Unread
    <2>3. ViewHolds(o)'
      BY <2>1, <2>2 DEF ViewHolds
    <2>4. QED
      BY <1>1, <2>3
  <1>5. QED
    BY <1>2, <1>3, <1>4

\* Views stay true under the observer's and everybody else's steps.
LEMMA ObserverStep ==
  ASSUME ~Retry, GraphInv, ObserverInv, [Next]_vars
  PROVE  ObserverInv'
  <1> USE ConstantsAssumption
      DEF State!Pending, State!Running, State!Completed, State!Failed,
          State!Skipped, State!Terminal
  <1>k. EntriesKept
    BY StepsKeepEntries
  <1>t. /\ seen \in [Observers -> View]
        /\ Absent \notin Outputs \cup Errors
    BY DEF GraphInv, Typed, TypeOK
  \* Whatever o sees, the others have seen what they had seen.
  <1>o. ASSUME NEW o \in Observers, ViewOK(o)', ViewHolds(o)',
               \A p \in Observers : p # o => seen'[p] = seen[p]
        PROVE  ObserverInv'
    <2>1. ASSUME NEW p \in Observers, p # o
          PROVE  ViewOK(p)' /\ ViewHolds(p)'
      BY <1>o, <2>1, <1>k, ViewKept DEF ObserverInv
    <2>2. QED
      BY <1>o, <2>1 DEF ObserverInv
  <1>1. ASSUME NEW o \in Observers, NEW id \in Ids, ObserveStatus(o, id)
        PROVE  ObserverInv'
    <2>1. /\ seen'[o] = [NoView EXCEPT !.id = id, !.status = State!GetStatus(id)]
          /\ \A p \in Observers : p # o => seen'[p] = seen[p]
          /\ UNCHANGED <<states, outputs, errors>>
      BY <1>1, <1>t DEF ObserveStatus, stateVars
    <2>2. /\ seen'[o].id = id /\ seen'[o].status = State!GetStatus(id)
          /\ seen'[o].output = Unread /\ seen'[o].error = Unread
      BY <2>1 DEF NoView
    <2>3. ViewOK(o)' /\ ViewHolds(o)'
      BY <2>1, <2>2 DEF ViewOK, ViewHolds, State!GetStatus
    <2>4. QED
      BY <2>1, <2>3, <1>o
  <1>2. ASSUME NEW o \in Observers, ObserveOutput(o)
        PROVE  ObserverInv'
    <2>1. /\ seen[o].id \in Ids
          /\ seen' = [seen EXCEPT ![o].output = State!GetOutput(seen[o].id)]
          /\ UNCHANGED <<states, outputs, errors>>
      BY <1>2, <1>t DEF ObserveOutput, stateVars, View
    <2>2. /\ \A p \in Observers : p # o => seen'[p] = seen[p]
          /\ seen'[o].id = seen[o].id
          /\ seen'[o].status = seen[o].status
          /\ seen'[o].error = seen[o].error
          /\ seen'[o].output = State!GetOutput(seen[o].id)
      BY <2>1, <1>t DEF View
    <2>3. outputs[seen[o].id] # Absent => states[seen[o].id] = "completed"
      BY <2>1 DEF GraphInv, WorkInv, NodeOK, Held, WorkerOK
    <2>4. ViewOK(o)' /\ ViewHolds(o)'
      BY <2>1, <2>2, <2>3 DEF ObserverInv, ViewOK, ViewHolds, State!GetOutput
    <2>5. QED
      BY <2>2, <2>4, <1>o
  <1>3. ASSUME NEW o \in Observers, ObserveError(o)
        PROVE  ObserverInv'
    <2>1. /\ seen[o].id \in Ids
          /\ seen' = [seen EXCEPT ![o].error = State!GetError(seen[o].id)]
          /\ UNCHANGED <<states, outputs, errors>>
      BY <1>3, <1>t DEF ObserveError, stateVars, View
    <2>2. /\ \A p \in Observers : p # o => seen'[p] = seen[p]
          /\ seen'[o].id = seen[o].id
          /\ seen'[o].status = seen[o].status
          /\ seen'[o].output = seen[o].output
          /\ seen'[o].error = State!GetError(seen[o].id)
      BY <2>1, <1>t DEF View
    <2>3. errors[seen[o].id] # Absent => states[seen[o].id] = "failed"
      BY <2>1 DEF GraphInv, WorkInv, NodeOK, Held, WorkerOK
    <2>4. ViewOK(o)' /\ ViewHolds(o)'
      BY <2>1, <2>2, <2>3 DEF ObserverInv, ViewOK, ViewHolds, State!GetError
    <2>5. QED
      BY <2>2, <2>4, <1>o
  <1>4. CASE UNCHANGED seen
    BY <1>4, <1>k, ViewKept DEF ObserverInv
  <1>5. ASSUME \/ Build \/ (\E r \in Readers : Read(r)) \/ UNCHANGED vars
               \/ \E w \in Workers : Work(w)
        PROVE  UNCHANGED seen
    BY <1>5 DEF Build, AddNode, AddDependency, Read, AskDependencies,
       LookUpDependency, Work, MarkRunning, MarkSkipped, HandlerReturns,
       MarkCompleted, MarkFailed, StoreOutput, StoreError, NextJob, vars
  <1>6. QED
    BY <1>1, <1>2, <1>3, <1>4, <1>5 DEF Next, Observe

\* Without retries, what an observer has read of a terminal status, an output
\* or an error is true for good.
THEOREM ObservationsHold ==
  ASSUME ~Retry
  PROVE  Spec => []ObservationsStayTrue
  <1>1. Init => ObserverInv
    BY DEF Init, NoView, ObserverInv, ViewOK, ViewHolds, Unread, State!Terminal,
       State!Completed, State!Failed, State!Skipped
  <1>2. GraphInv /\ ObserverInv /\ [Next]_vars => ObserverInv'
    BY ObserverStep
  <1>3. ObserverInv => ObservationsStayTrue
    BY DEF ObserverInv, ViewHolds, ObservationsStayTrue
  <1>4. QED
    BY <1>1, <1>2, <1>3, Invariance, PTL DEF Spec

-----------------------------------------------------------------------------
(* Refinement of AtomicGraph.                                              *)

\* The initial states map to the initial state of the atomic graph.
LEMMA InitRefines == Init => Atomic!Init
  <1> SUFFICES ASSUME Init PROVE Atomic!Init
    OBVIOUS
  <1> USE DEF Init, Topology!Init, State!Init
  <1>1. verdictMap = [id \in Ids |-> "pending"]
    BY DEF verdictMap, State!Pending
  <1>2. valueMap = [id \in Ids |-> Absent]
    BY DEF valueMap
  <1>3. answerMap = [r \in Readers |-> Atomic!Nothing]
    <2>1. \A r \in Readers :
            Promised(r) = {} /\ asking[r] = "none" /\ asked[r] = Absent
      BY DEF Promised, Faithful
    <2>2. QED
      BY <2>1 DEF answerMap, Atomic!Nothing
  <1>4. QED
    BY <1>1, <1>2, <1>3 DEF Atomic!Init

\* Every step is a step of the atomic graph, or changes nothing in it.
LEMMA StepRefines ==
  ASSUME ~Retry, GraphInv, GraphInv', [Next]_vars
  PROVE  [Atomic!Next]_(Atomic!vars)
  <1> USE ConstantsAssumption
      DEF topologyVars, stateVars, workerVars, readerVars, State!Pending,
          State!Running, State!Completed, State!Failed, State!Skipped
  <1>t. /\ nodes \in [Ids -> Configs \cup {Absent}]
        /\ deps \in [Ids -> SUBSET Ids]
        /\ states \in [Ids -> State!Status \cup {Absent}]
        /\ outputs \in [Ids -> Outputs \cup {Absent}]
        /\ errors \in [Ids -> Errors \cup {Absent}]
        /\ job \in [Workers -> Ids \cup {Absent}]
        /\ asking \in [Readers -> {"none", "nodes", "error"}]
        /\ asked \in [Readers -> Ids \cup {Absent}]
        /\ Reread \in [Ids -> Ids \cup {Absent}]
        /\ todo \in [Readers -> SUBSET Readable]
        /\ found \in [Readers -> SUBSET (Readable \X Configs)]
    BY DEF GraphInv, Typed, TypeOK, Topology!TypeOK
  <1>w. /\ \A w \in Workers : WorkerOK(w) /\ ResultOK(w)
        /\ \A id \in Ids : NodeOK(id)
    BY DEF GraphInv, WorkInv, Typed
  <1>s. UNCHANGED stateVars => UNCHANGED <<verdictMap, valueMap>>
    BY DEF verdictMap, valueMap
  <1>a. UNCHANGED <<nodes, asking, asked, todo, found>> => UNCHANGED answerMap
    BY DEF answerMap, Promised
  <1>1. ASSUME NEW id \in Ids, NEW cfg \in Configs, AddNode(id, cfg)
        PROVE  [Atomic!Next]_(Atomic!vars)
    <2>1. UNCHANGED <<deps, verdictMap, valueMap, asking, asked, todo, found>>
      BY <1>1, <1>s DEF AddNode, Topology!AddNode
    <2>2. \A n \in Ids : nodes[n] # Absent => nodes'[n] = nodes[n]
      BY <1>1, <1>t DEF AddNode, Topology!AddNode, Topology!Exists
    <2>3. \A r \in Readers : \A d \in Faithful(todo[r]) : nodes'[d] = nodes[d]
      BY <2>2, <1>t DEF GraphInv, TopologyInv, LookupsFindTheirNode, Faithful, Readable,
                       Topology!Exists
    <2>4. UNCHANGED answerMap
      <3>1. ASSUME NEW r \in Readers PROVE Promised(r)' = Promised(r)
        BY <2>1, <2>3 DEF Promised
      <3>2. QED
        BY <2>1, <3>1 DEF answerMap
    <2>5. CASE nodes[id] = Absent
      BY <1>1, <2>1, <2>4, <2>5
      DEF AddNode, Topology!AddNode, Topology!Exists, Atomic!AddNode,
          Atomic!Exists, Atomic!Next
    <2>6. CASE nodes[id] # Absent
      BY <1>1, <2>1, <2>4, <2>6
      DEF AddNode, Topology!AddNode, Topology!Exists, Atomic!vars
    <2>7. QED
      BY <2>5, <2>6
  <1>2. ASSUME NEW link \in Links, AddDependency(link[1], link[2])
        PROVE  [Atomic!Next]_(Atomic!vars)
    <2>1. link[1] \in Ids /\ link[2] \in Ids
      OBVIOUS
    <2>2. UNCHANGED <<nodes, verdictMap, valueMap, answerMap>>
      BY <1>2, <1>s, <1>a DEF AddDependency, Topology!AddDependency
    <2>3. CASE nodes[link[1]] # Absent /\ nodes[link[2]] # Absent
      BY <1>2, <2>1, <2>2, <2>3
      DEF AddDependency, Topology!AddDependency, Topology!Exists,
          Atomic!AddDependency, Atomic!Exists, Atomic!Next
    <2>4. CASE ~(nodes[link[1]] # Absent /\ nodes[link[2]] # Absent)
      BY <1>2, <2>2, <2>4
      DEF AddDependency, Topology!AddDependency, Topology!Exists, Atomic!vars
    <2>5. QED
      BY <2>3, <2>4
  <1>3. ASSUME NEW w \in Workers, NEW id \in Ids, Free(id), MarkRunning(w, id)
        PROVE  [Atomic!Next]_(Atomic!vars)
    <2>1. states[id] = Absent /\ outputs[id] = Absent /\ errors[id] = Absent
      BY <1>3, <1>w DEF Free, Untouched, NodeOK
    <2>2. /\ states' = [states EXCEPT ![id] = "running"]
          /\ UNCHANGED <<nodes, deps, outputs, errors, answerMap>>
      BY <1>3, <1>a DEF MarkRunning, State!SetStatus
    <2>3. UNCHANGED valueMap
      BY <2>2 DEF valueMap
    <2>4. verdictMap[id] = "pending" /\ verdictMap' = [verdictMap EXCEPT ![id] = "running"]
      BY <2>1, <2>2, <1>t DEF verdictMap
    <2>5. Atomic!Start(id)
      BY <2>2, <2>3, <2>4 DEF Atomic!Start
    <2>6. QED
      BY <2>5 DEF Atomic!Next
  <1>4. ASSUME NEW w \in Workers, NEW id \in Ids, Untouched(id), MarkSkipped(w, id)
        PROVE  [Atomic!Next]_(Atomic!vars)
    <2>1. states[id] = Absent /\ outputs[id] = Absent /\ errors[id] = Absent
      BY <1>4, <1>w DEF Untouched, NodeOK
    <2>2. /\ states' = [states EXCEPT ![id] = "skipped"]
          /\ UNCHANGED <<nodes, deps, outputs, errors, answerMap>>
      BY <1>4, <1>a DEF MarkSkipped, State!SetStatus
    <2>3. UNCHANGED valueMap
      BY <2>2 DEF valueMap
    <2>4. verdictMap[id] = "pending" /\ verdictMap' = [verdictMap EXCEPT ![id] = "skipped"]
      BY <2>1, <2>2, <1>t DEF verdictMap
    <2>5. Atomic!Skip(id)
      BY <2>2, <2>3, <2>4 DEF Atomic!Skip
    <2>6. QED
      BY <2>5 DEF Atomic!Next
  <1>5. ASSUME NEW w \in Workers, NEW output \in Outputs,
               NEW err \in Errors \cup {Nil}, HandlerReturns(w, output, err)
        PROVE  [Atomic!Next]_(Atomic!vars)
    BY <1>5, <1>s, <1>a DEF HandlerReturns, Atomic!vars
  \* A status without its value: the node is still running to AtomicGraph.
  <1>6. ASSUME NEW w \in Workers, MarkCompleted(w) \/ MarkFailed(w)
        PROVE  [Atomic!Next]_(Atomic!vars)
    <2>1. PICK id \in Ids : id = job[w]
      BY <1>6, <1>t, <1>w DEF MarkCompleted, MarkFailed, WorkerOK
    <2>2. states[id] = "running" /\ outputs[id] = Absent /\ errors[id] = Absent
      BY <1>6, <2>1, <1>w DEF MarkCompleted, MarkFailed, WorkerOK
    <2>3. /\ \/ states' = [states EXCEPT ![id] = "completed"]
             \/ states' = [states EXCEPT ![id] = "failed"]
          /\ UNCHANGED <<nodes, deps, outputs, errors, answerMap>>
      BY <1>6, <2>1, <1>a DEF MarkCompleted, MarkFailed, State!SetStatus
    <2>4. UNCHANGED <<valueMap, verdictMap>>
      BY <2>2, <2>3, <1>t DEF valueMap, verdictMap
    <2>5. QED
      BY <2>3, <2>4 DEF Atomic!vars
  <1>7. ASSUME NEW w \in Workers, StoreOutput(w)
        PROVE  [Atomic!Next]_(Atomic!vars)
    <2>1. PICK id \in Ids : id = job[w]
      BY <1>7, <1>t, <1>w DEF StoreOutput, WorkerOK
    <2>2. PICK output \in Outputs : output = result[w].output
      BY <1>7, <1>w DEF StoreOutput, ResultOK, GraphInv, Typed, TypeOK
    <2>3. states[id] = "completed" /\ outputs[id] = Absent
      BY <1>7, <2>1, <1>w DEF StoreOutput, WorkerOK
    <2>4. /\ outputs' = [outputs EXCEPT ![id] = output]
          /\ UNCHANGED <<nodes, deps, states, errors, answerMap>>
      BY <1>7, <2>1, <2>2, <1>a DEF StoreOutput, NextJob, State!SetOutput
    <2>5. verdictMap[id] = "running" /\ verdictMap' = [verdictMap EXCEPT ![id] = "completed"]
      BY <2>3, <2>4, <1>t DEF verdictMap
    <2>6. valueMap' = [valueMap EXCEPT ![id] = output]
      BY <2>4, <1>t DEF valueMap
    <2>7. Atomic!Complete(id, output)
      BY <2>4, <2>5, <2>6 DEF Atomic!Complete, Atomic!Finish
    <2>8. QED
      BY <2>7 DEF Atomic!Next
  <1>8. ASSUME NEW w \in Workers, StoreError(w)
        PROVE  [Atomic!Next]_(Atomic!vars)
    <2>1. PICK id \in Ids : id = job[w]
      BY <1>8, <1>t, <1>w DEF StoreError, WorkerOK
    <2>2. PICK err \in Errors : err = result[w].error
      BY <1>8, <1>w DEF StoreError, ResultOK, GraphInv, Typed, TypeOK
    <2>3. states[id] = "failed" /\ outputs[id] = Absent /\ errors[id] = Absent
      BY <1>8, <2>1, <1>w DEF StoreError, WorkerOK
    <2>4. /\ errors' = [errors EXCEPT ![id] = err]
          /\ UNCHANGED <<nodes, deps, states, outputs, answerMap>>
      BY <1>8, <2>1, <2>2, <1>a DEF StoreError, NextJob, State!SetError
    <2>5. verdictMap[id] = "running" /\ verdictMap' = [verdictMap EXCEPT ![id] = "failed"]
      BY <2>3, <2>4, <1>t DEF verdictMap
    <2>6. valueMap' = [valueMap EXCEPT ![id] = err]
      BY <2>3, <2>4, <1>t DEF valueMap
    <2>7. Atomic!Fail(id, err)
      BY <2>4, <2>5, <2>6 DEF Atomic!Fail, Atomic!Finish
    <2>8. QED
      BY <2>7 DEF Atomic!Next
  \* The query's first step is where AtomicGraph answers it, ...
  <1>9. ASSUME NEW r \in Readers, NEW id \in Ids, AskDependencies(r, id)
        PROVE  [Atomic!Next]_(Atomic!vars)
    <2>1. UNCHANGED <<nodes, deps, verdictMap, valueMap>>
      BY <1>9, <1>s DEF AskDependencies
    <2>2. \A q \in Readers : q # r => answerMap'[q] = answerMap[q]
      <3>1. ASSUME NEW q \in Readers, q # r
            PROVE  /\ Promised(q)' = Promised(q)
                   /\ asking'[q] = asking[q] /\ asked'[q] = asked[q]
        BY <1>9, <2>1, <3>1, <1>t DEF AskDependencies, Promised
      <3>2. QED
        BY <3>1 DEF answerMap
    <2>3. CASE Topology!DependenciesFail(id)
      <3>0. /\ asking'[r] = "error" /\ asked'[r] = id
            /\ todo'[r] = {} /\ found'[r] = {}
        BY <1>9, <2>3, <1>t DEF AskDependencies
      <3>1. answerMap'[r] = Atomic!Error(id)
        <4>1. Promised(r)' = {}
          BY <3>0 DEF Promised, Faithful
        <4>2. QED
          BY <3>0, <4>1 DEF answerMap, Atomic!Error
      <3>2. answerMap' = [answerMap EXCEPT ![r] = Atomic!Error(id)]
        BY <2>2, <3>1 DEF answerMap
      <3>3. Atomic!Query(r, id)
        BY <2>1, <2>3, <3>2
        DEF Atomic!Query, Atomic!Exists, Topology!DependenciesFail, Topology!Exists
      <3>4. QED
        BY <3>3 DEF Atomic!Next
    <2>4. CASE ~Topology!DependenciesFail(id)
      <3>0. /\ asking'[r] = "nodes" /\ asked'[r] = id
            /\ todo'[r] = deps[id] /\ found'[r] = {}
        BY <1>9, <2>4, <1>t DEF AskDependencies
      <3>1. answerMap'[r] = Atomic!Found(id, {<<d, nodes[d]>> : d \in Faithful(deps[id])})
        <4>1. Promised(r)' = {<<d, nodes[d]>> : d \in Faithful(deps[id])}
          BY <2>1, <3>0 DEF Promised
        <4>2. QED
          BY <3>0, <4>1 DEF answerMap, Atomic!Found
      <3>2. answerMap' = [answerMap EXCEPT ![r] =
                            Atomic!Found(id, {<<d, nodes[d]>> : d \in Faithful(deps[id])})]
        BY <2>2, <3>1 DEF answerMap
      <3>3. Atomic!Query(r, id)
        BY <2>1, <2>4, <3>2
        DEF Atomic!Query, Atomic!Exists, Topology!DependenciesFail, Topology!Exists,
            Faithful
      <3>4. QED
        BY <3>3 DEF Atomic!Next
    <2>5. QED
      BY <2>3, <2>4
  \* ... and a lookup adds what that answer already had, or is of a key that
  \* is misread.
  <1>10. ASSUME NEW r \in Readers, NEW key \in Ids, LookUpDependency(r, key)
         PROVE  [Atomic!Next]_(Atomic!vars)
    <2>1. UNCHANGED <<nodes, deps, verdictMap, valueMap, asking, asked>>
      BY <1>10, <1>s DEF LookUpDependency
    <2>2. key \in todo[r]
      BY <1>10 DEF LookUpDependency
    <2>3. /\ todo' = [todo EXCEPT ![r] = @ \ {key}]
          /\ \A q \in Readers : q # r => found'[q] = found[q]
      BY <1>10, <1>t DEF LookUpDependency
    <2>4. ASSUME Reread[key] = key PROVE Promised(r)' = Promised(r)
      <3>1. nodes[key] # Absent
        BY <2>2, <2>4 DEF GraphInv, TopologyInv, LookupsFindTheirNode, Faithful,
                          Topology!Exists
      <3>2. found'[r] = found[r] \cup {<<key, nodes[key]>>}
        BY <1>10, <2>4, <3>1, <1>t DEF LookUpDependency, Topology!Exists
      <3>3. {f \in found'[r] : Reread[f[1]] = f[1]}
              = {f \in found[r] : Reread[f[1]] = f[1]} \cup {<<key, nodes[key]>>}
        BY <2>4, <3>2
      <3>4. Faithful(todo[r]) = Faithful(todo'[r]) \cup {key}
        BY <2>2, <2>3, <2>4, <1>t DEF Faithful
      <3>5. QED
        BY <2>1, <3>3, <3>4 DEF Promised
    <2>5. ASSUME Reread[key] # key PROVE Promised(r)' = Promised(r)
      <3>1. {f \in found'[r] : Reread[f[1]] = f[1]}
              = {f \in found[r] : Reread[f[1]] = f[1]}
        BY <1>10, <2>5, <1>t DEF LookUpDependency
      <3>2. Faithful(todo[r]) = Faithful(todo'[r])
        BY <2>3, <2>5, <1>t DEF Faithful
      <3>3. QED
        BY <2>1, <3>1, <3>2 DEF Promised
    <2>6. Promised(r)' = Promised(r)
      BY <2>4, <2>5
    <2>7. ASSUME NEW q \in Readers, q # r PROVE Promised(q)' = Promised(q)
      BY <2>1, <2>3, <2>7, <1>t DEF Promised
    <2>8. UNCHANGED answerMap
      BY <2>1, <2>6, <2>7 DEF answerMap
    <2>9. QED
      BY <2>1, <2>8 DEF Atomic!vars
  <1>11. ASSUME UNCHANGED vars \/ \E o \in Observers : Observe(o)
         PROVE  [Atomic!Next]_(Atomic!vars)
    BY <1>11, <1>s, <1>a
    DEF vars, Observe, ObserveStatus, ObserveOutput, ObserveError, Atomic!vars
  <1>12. QED
    BY <1>1, <1>2, <1>3, <1>4, <1>5, <1>6, <1>7, <1>8, <1>9, <1>10, <1>11
    DEF Next, Build, Work, Read

\* Without retries the manager implements the atomic graph: a verdict and
\* its value appear together, and a query answers with the nodes of one
\* moment, as far as the dependencies' keys come back.
THEOREM Refinement ==
  ASSUME ~Retry
  PROVE  Spec => ImplementsAtomicGraph
  <1>1. GraphInv /\ GraphInv' /\ [Next]_vars => [Atomic!Next]_(Atomic!vars)
    BY StepRefines
  <1>2. QED
    BY <1>1, InitRefines, Invariance, PTL DEF Spec, Atomic!Spec, ImplementsAtomicGraph

=============================================================================
