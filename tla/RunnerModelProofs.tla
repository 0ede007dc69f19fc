------------------------- MODULE RunnerModelProofs --------------------------
(***************************************************************************)
(* What ParseRunnerFile promises, for every set of manifests.  The two     *)
(* properties speak of the end; RunnerInv says how far the loops have come *)
(* in between: the runners passed over so far are told of exactly when     *)
(* they are not right, and the runner at hand exactly when the part of it  *)
(* that has been read is not.                                              *)
(***************************************************************************)
EXTENDS RunnerModel, TLAPS

Count == Len(manifest.runners)

\* One input or output by itself; and the first n of them together.
PortOK(b, defaults) ==
  /\ ~b.unknown /\ b.description # "wrong"
  /\ b.type \in Primitive
  /\ b.default \in {"absent"} \cup (IF defaults THEN {b.type} ELSE {})

FirstOK(ports, n, defaults) ==
  /\ \A i, j \in 1..n : ports[i].name = ports[j].name => i = j
  /\ \A i \in 1..n : PortOK(ports[i], defaults)

First(ports, n) == {ports[i] : i \in 1..n}

\* The map that is being made holds blocks that were read, and all of them
\* if none was wrong.
Taken(taken, ports, n, defaults) ==
  /\ taken \subseteq First(ports, n)
  /\ FirstOK(ports, n, defaults) => taken = First(ports, n)

\* The description and the lifecycle.
Begun(r) == r.description # "wrong" /\ r.lifecycles \in {<<>>, <<"right">>}

\* The part of the runner at hand that has been read is right.
SoFar ==
  /\ Begun(Runner)
  /\ runnerAt = "inputs" => FirstOK(Runner.inputs, block - 1, TRUE)
  /\ runnerAt = "outputs" => /\ FirstOK(Runner.inputs, Len(Runner.inputs), TRUE)
                             /\ FirstOK(Runner.outputs, block - 1, FALSE)

\* The runners before the one at hand that are not right.
Told(n) == {i \in 1..n : ~Right(manifest.runners[i])}

Definitions == [onRun : BOOLEAN, inputs : SUBSET Ports, outputs : SUBSET Ports]

\* What a runner that is right becomes.
Made(r) == [onRun |-> r.lifecycles # <<>>, inputs |-> Contents(r.inputs),
            outputs |-> Contents(r.outputs)]

Placed ==
  /\ manifest \in Manifests
  /\ turn \in 1..Count + 1 /\ block \in Nat \ {0}
  /\ definition \in Definitions /\ made \in Seq(Definitions)

\* Between two runners.
AtRunner ==
  runnerAt = "runner" => manifest.decodes /\ faulty = Told(turn - 1)

\* Inside one.
InRunner ==
  runnerAt \in {"inputs", "outputs"} =>
    /\ manifest.decodes /\ turn <= Count /\ ~Runner.unknown
    /\ faulty = Told(turn - 1) \cup (IF SoFar THEN {} ELSE {turn})
    /\ Begun(Runner) => definition.onRun = (Runner.lifecycles # <<>>)

InInputs ==
  runnerAt = "inputs" =>
    /\ block <= Len(Runner.inputs) + 1
    /\ Taken(definition.inputs, Runner.inputs, block - 1, TRUE)
    /\ definition.outputs = {}

InOutputs ==
  runnerAt = "outputs" =>
    /\ block <= Len(Runner.outputs) + 1
    /\ Taken(definition.inputs, Runner.inputs, Len(Runner.inputs), TRUE)
    /\ Taken(definition.outputs, Runner.outputs, block - 1, FALSE)

\* The runners made are those passed over, while none was wrong.
MadeSoFar ==
  /\ runnerAt = "file" => turn = 1 /\ made = <<>> /\ faulty = {}
  /\ runnerAt \in {"file", "runner", "inputs", "outputs"} /\ Told(turn - 1) = {} =>
       /\ Len(made) = turn - 1
       /\ \A i \in 1..turn - 1 : made[i] = Made(manifest.runners[i])

AtEnd ==
  /\ ManifestIsAllOrNothing
  /\ EveryFaultyRunnerIsTold

RunnerInv ==
  /\ Placed
  /\ runnerAt \in {"file", "runner", "inputs", "outputs",
                   "accepted", "refused", "panicked"}
  /\ AtRunner /\ InRunner /\ InInputs /\ InOutputs /\ MadeSoFar /\ AtEnd

-----------------------------------------------------------------------------
(* The helpers.                                                            *)

\* A manifest is one of those assumed.
LEMMA RunnersAreRunners ==
  ASSUME NEW m \in Manifests
  PROVE  /\ m.decodes \in BOOLEAN
         /\ Len(m.runners) \in Nat /\ DOMAIN m.runners = 1..Len(m.runners)
         /\ \A i \in 1..Len(m.runners) : IsRunner(m.runners[i])
  BY ManifestsAssumption

\* RightPorts is FirstOK of all of them.
LEMMA AllPorts ==
  ASSUME NEW ports \in Seq(Ports), NEW defaults
  PROVE  /\ RightPorts(ports, defaults) <=> FirstOK(ports, Len(ports), defaults)
         /\ Contents(ports) = First(ports, Len(ports))
  <1>1. DOMAIN ports = 1..Len(ports)
    OBVIOUS
  <1>2. QED
    BY <1>1 DEF RightPorts, FirstOK, PortOK, Contents, First

\* What the loop over inputs refuses is what is wrong.
LEMMA InputRefused ==
  ASSUME NEW b \in Ports, NEW taken, ~TypePanics(b, taken)
  PROVE  NotTaken(b, taken) \/ DefaultRefused(b) \/ b.description = "wrong"
           <=> Defined(taken, b.name) \/ ~PortOK(b, TRUE)
  <1>1. b.unknown \in BOOLEAN /\ b.type \in Primitive \cup Unimplemented \cup {"absent", "other"}
    BY DEF Ports
  <1>2. \A t \in Primitive : t # "absent" /\ t # "other"
    BY DEF Primitive
  <1>3. QED
    BY <1>1, <1>2 DEF NotTaken, DefaultRefused, PortOK, TypePanics

\* The same for outputs.
LEMMA OutputRefused ==
  ASSUME NEW b \in Ports, NEW taken, ~(TypePanics(b, taken) /\ b.default = "absent")
  PROVE  NotTaken(b, taken) \/ b.default # "absent" \/ b.description = "wrong"
           <=> Defined(taken, b.name) \/ ~PortOK(b, FALSE)
  <1>1. b.unknown \in BOOLEAN /\ b.type \in Primitive \cup Unimplemented \cup {"absent", "other"}
    BY DEF Ports
  <1>2. \A t \in Primitive : t # "absent" /\ t # "other"
    BY DEF Primitive
  <1>3. QED
    BY <1>1, <1>2 DEF NotTaken, PortOK, TypePanics

\* One more block.
LEMMA OneMorePort ==
  ASSUME NEW ports, NEW n \in Nat \ {0}, NEW taken, NEW defaults,
         Taken(taken, ports, n - 1, defaults)
  PROVE  /\ FirstOK(ports, n, defaults) <=>
              /\ FirstOK(ports, n - 1, defaults)
              /\ ~(Defined(taken, ports[n].name) \/ ~PortOK(ports[n], defaults))
         /\ First(ports, n) = First(ports, n - 1) \cup {ports[n]}
         /\ FirstOK(ports, n, defaults) => FirstOK(ports, n - 1, defaults)
  <1>1. 1..n = (1..n - 1) \cup {n}
    OBVIOUS
  <1>2. First(ports, n) = First(ports, n - 1) \cup {ports[n]}
    BY <1>1 DEF First
  <1>3. FirstOK(ports, n, defaults) => FirstOK(ports, n - 1, defaults)
    BY <1>1 DEF FirstOK
  <1>4. ASSUME FirstOK(ports, n - 1, defaults)
        PROVE  Defined(taken, ports[n].name) <=>
                 \E i \in 1..n - 1 : ports[i].name = ports[n].name
    BY <1>4 DEF Taken, Defined, First
  <1>5. ASSUME FirstOK(ports, n, defaults)
        PROVE  PortOK(ports[n], defaults)
               /\ ~ \E i \in 1..n - 1 : ports[i].name = ports[n].name
    BY <1>5, <1>1 DEF FirstOK
  <1>6. ASSUME FirstOK(ports, n - 1, defaults), PortOK(ports[n], defaults),
               ~ \E i \in 1..n - 1 : ports[i].name = ports[n].name
        PROVE  FirstOK(ports, n, defaults)
    BY <1>6, <1>1 DEF FirstOK
  <1>7. QED
    BY <1>2, <1>3, <1>4, <1>5, <1>6

\* One more runner.
LEMMA OneMoreRunner ==
  ASSUME NEW n \in Nat \ {0}
  PROVE  Told(n) = Told(n - 1) \cup (IF Right(manifest.runners[n]) THEN {} ELSE {n})
  <1>1. 1..n = (1..n - 1) \cup {n}
    OBVIOUS
  <1>2. QED
    BY <1>1 DEF Told

\* parseRunnerLifecycle against what is right.
LEMMA Lifecycles ==
  ASSUME NEW r, IsRunner(r)
  PROVE  /\ LifecycleWrong(r) <=> r.lifecycles \notin {<<>>, <<"right">>}
         /\ ~LifecycleWrong(r) =>
              ((Len(r.lifecycles) = 1) <=> r.lifecycles # <<>>)
  <1> DEFINE l == r.lifecycles
  <1>1. l \in Seq({"right", "wrong"}) /\ \A i \in DOMAIN l : l[i] \in {"right", "wrong"}
    BY DEF IsRunner
  <1>0. Len(l) \in Nat
    BY <1>1
  <1>2. DOMAIN l = 1..Len(l)
    BY <1>1
  <1>3. Len(l) = 0 <=> l = <<>>
    BY <1>1
  <1>4. Len(l) = 1 => l = <<l[1]>>
    BY <1>1
  <1>5. CASE Len(l) = 0
    BY <1>2, <1>3, <1>5 DEF LifecycleWrong
  <1>6. CASE Len(l) = 1
    BY <1>1, <1>2, <1>3, <1>4, <1>6 DEF LifecycleWrong
  <1>7. CASE Len(l) > 1
    BY <1>1, <1>2, <1>3, <1>7 DEF LifecycleWrong
  <1>n. \A n \in Nat : n = 0 \/ n = 1 \/ n > 1
    OBVIOUS
  <1>8. Len(l) = 0 \/ Len(l) = 1 \/ Len(l) > 1
    BY <1>0, <1>n
  <1>9. QED
    BY <1>5, <1>6, <1>7, <1>8

-----------------------------------------------------------------------------
(* The steps.                                                              *)

\* Nothing has been read.
LEMMA InvInit == RunnerInit => RunnerInv
  <1> SUFFICES ASSUME RunnerInit PROVE RunnerInv
    OBVIOUS
  <1>1. Len(manifest.runners) \in Nat
    BY RunnersAreRunners DEF RunnerInit
  <1>2. Placed
    <2>1. definition \in Definitions
      BY DEF RunnerInit, NoDefinition, Definitions
    <2>2. made \in Seq(Definitions)
      BY DEF RunnerInit
    <2>3. QED
      BY <1>1, <2>1, <2>2 DEF RunnerInit, Placed, Count
  <1>3. AtRunner /\ InRunner /\ InInputs /\ InOutputs
    BY DEF RunnerInit, AtRunner, InRunner, InInputs, InOutputs
  <1>4. MadeSoFar
    BY DEF RunnerInit, MadeSoFar
  <1>5. AtEnd
    BY DEF RunnerInit, AtEnd, ManifestIsAllOrNothing, EveryFaultyRunnerIsTold
  <1>6. QED
    BY <1>2, <1>3, <1>4, <1>5 DEF RunnerInv, RunnerInit

\* The file decodes, or is refused.
LEMMA DecodeKeeps == RunnerInv /\ DecodeFile => RunnerInv'
  <1> SUFFICES ASSUME RunnerInv, DecodeFile PROVE RunnerInv'
    OBVIOUS
  <1>1. manifest.decodes \in BOOLEAN
    BY RunnersAreRunners DEF RunnerInv, Placed
  <1>2. turn = 1 /\ made = <<>> /\ runnerAt = "file"
    BY DEF RunnerInv, MadeSoFar, DecodeFile
  <1>3. Placed'
    BY DEF RunnerInv, Placed, DecodeFile, Count
  <1>4. Told(0)' = {}
    BY DEF Told
  <1>5. AtRunner' /\ InRunner' /\ InInputs' /\ InOutputs'
    BY <1>2, <1>4 DEF DecodeFile, AtRunner, InRunner, InInputs, InOutputs
  <1>6. MadeSoFar'
    BY <1>2 DEF DecodeFile, MadeSoFar
  <1>7. AtEnd'
    BY <1>2 DEF DecodeFile, AtEnd, ManifestIsAllOrNothing, EveryFaultyRunnerIsTold
  <1>8. QED
    BY <1>3, <1>5, <1>6, <1>7 DEF RunnerInv, DecodeFile

\* A runner the schema does not know is told of and passed over.
LEMMA SkipKeeps == RunnerInv /\ SkipRunner => RunnerInv'
  <1> SUFFICES ASSUME RunnerInv, SkipRunner PROVE RunnerInv'
    OBVIOUS
  <1>1. turn \in Nat \ {0} /\ Count \in Nat /\ turn <= Count
    BY RunnersAreRunners DEF RunnerInv, Placed, SkipRunner, Count
  <1>2. Placed'
    BY <1>1 DEF RunnerInv, Placed, SkipRunner, Count
  <1>3. Told(turn) = Told(turn - 1) \cup {turn}
    <2>1. ~Right(manifest.runners[turn])
      BY DEF SkipRunner, Right, Runner
    <2>2. QED
      BY <1>1, <2>1, OneMoreRunner
  <1>4. turn' - 1 = turn
    BY <1>1 DEF SkipRunner
  <1>5. (Told(turn - 1))' = Told(turn)
    BY <1>4 DEF SkipRunner, Told
  <1>6. AtRunner'
    BY <1>3, <1>5 DEF RunnerInv, AtRunner, SkipRunner, Fault
  <1>7. InRunner' /\ InInputs' /\ InOutputs'
    BY DEF SkipRunner, InRunner, InInputs, InOutputs
  <1>8. MadeSoFar'
    BY <1>3, <1>5 DEF MadeSoFar, SkipRunner
  <1>9. AtEnd'
    BY DEF SkipRunner, AtEnd, ManifestIsAllOrNothing, EveryFaultyRunnerIsTold
  <1>10. QED
    BY <1>2, <1>6, <1>7, <1>8, <1>9 DEF RunnerInv, SkipRunner

\* The description and the lifecycle are read; the maps are empty.
LEMMA BeginKeeps == RunnerInv /\ BeginRunner => RunnerInv'
  <1> SUFFICES ASSUME RunnerInv, BeginRunner PROVE RunnerInv'
    OBVIOUS
  <1>1. turn \in Nat \ {0} /\ Count \in Nat /\ turn <= Count /\ IsRunner(Runner)
    BY RunnersAreRunners DEF RunnerInv, Placed, BeginRunner, Count, Runner
  <1>2. Begun(Runner) <=> ~(Runner.description = "wrong" \/ LifecycleWrong(Runner))
    BY <1>1, Lifecycles DEF Begun
  <1>3. /\ Runner' = Runner /\ Told(turn - 1)' = Told(turn - 1)
        /\ Count' = Count /\ turn' = turn
    BY DEF BeginRunner, Runner, Told, Count
  <1>4. /\ definition'.inputs = {} /\ definition'.outputs = {}
        /\ definition'.onRun = (Len(Runner.lifecycles) = 1 /\ ~LifecycleWrong(Runner))
        /\ definition' \in Definitions
    BY DEF BeginRunner, NoDefinition, Definitions
  <1>5. Placed'
    BY <1>3, <1>4 DEF RunnerInv, Placed, BeginRunner
  <1>6. \A ports, d : FirstOK(ports, 1 - 1, d) /\ Taken({}, ports, 1 - 1, d)
    BY DEF FirstOK, Taken, First
  <1>7. InInputs'
    <2>1. Len(Runner.inputs) \in Nat
      BY <1>1 DEF IsRunner
    <2>2. block' = 1 /\ block' <= Len(Runner.inputs) + 1
      BY <2>1 DEF BeginRunner
    <2>3. Taken(definition'.inputs, Runner.inputs, block' - 1, TRUE)
      BY <2>2, <1>4, <1>6
    <2>4. QED
      BY <2>2, <2>3, <1>3, <1>4 DEF InInputs
  <1>8. InRunner'
    <2>1. SoFar' <=> Begun(Runner)
      BY <1>3, <1>6 DEF SoFar, BeginRunner, Begun
    <2>2. faulty' = Told(turn - 1) \cup (IF Begun(Runner) THEN {} ELSE {turn})
      BY <1>2 DEF BeginRunner, RunnerInv, AtRunner
    <2>3. Begun(Runner) => definition'.onRun = (Runner.lifecycles # <<>>)
      BY <1>1, <1>2, <1>4, Lifecycles
    <2>4. Begun(Runner)' = Begun(Runner)
      BY <1>3 DEF Begun
    <2>5. QED
      BY <1>1, <1>3, <2>1, <2>2, <2>3, <2>4
      DEF InRunner, BeginRunner, RunnerInv, AtRunner, Runner, Count
  <1>9. AtRunner' /\ InOutputs' /\ AtEnd'
    BY DEF BeginRunner, AtRunner, InOutputs, AtEnd, ManifestIsAllOrNothing,
           EveryFaultyRunnerIsTold
  <1>10. MadeSoFar'
    BY <1>3 DEF RunnerInv, MadeSoFar, BeginRunner, Made
  <1>11. QED
    BY <1>5, <1>7, <1>8, <1>9, <1>10 DEF RunnerInv, BeginRunner

\* A panic leaves nothing.
LEMMA PanicKeeps == RunnerInv /\ PanicOnType => RunnerInv'
  <1> SUFFICES ASSUME RunnerInv, PanicOnType PROVE RunnerInv'
    OBVIOUS
  <1>1. Placed'
    BY DEF RunnerInv, Placed, PanicOnType, Count
  <1>2. QED
    BY <1>1 DEF RunnerInv, PanicOnType, AtRunner, InRunner, InInputs, InOutputs,
       MadeSoFar, AtEnd, ManifestIsAllOrNothing, EveryFaultyRunnerIsTold

\* A turn of the loop over inputs.
LEMMA InputKeeps == RunnerInv /\ ParseInput => RunnerInv'
  <1> SUFFICES ASSUME RunnerInv, ParseInput PROVE RunnerInv'
    OBVIOUS
  <1> DEFINE b == Runner.inputs[block]
             taken == definition.inputs
             refused == NotTaken(b, taken) \/ DefaultRefused(b)
             wrong == refused \/ b.description = "wrong"
  <1>1. runnerAt = "inputs" /\ IsRunner(Runner) /\ turn \in Nat \ {0}
    BY RunnersAreRunners DEF RunnerInv, Placed, ParseInput, InRunner, Count, Runner
  <1>2. Runner.inputs \in Seq(Ports) /\ block \in Nat \ {0} /\ block <= Len(Runner.inputs)
    BY <1>1 DEF IsRunner, RunnerInv, Placed, ParseInput
  <1>3. b \in Ports
    BY <1>2
  <1>4. CASE TypePanics(b, taken)
    BY <1>4, PanicKeeps DEF ParseInput
  <1>5. CASE ~TypePanics(b, taken)
    <2>1. /\ faulty' = IF wrong THEN faulty \cup {turn} ELSE faulty
          /\ definition' = IF refused THEN definition
                           ELSE [definition EXCEPT !.inputs = @ \cup {b}]
          /\ block' = block + 1
          /\ UNCHANGED <<runnerAt, manifest, turn, made>>
      BY <1>5 DEF ParseInput
    <2> HIDE DEF b
    <2>2. wrong <=> Defined(taken, b.name) \/ ~PortOK(b, TRUE)
      BY <1>3, <1>5, InputRefused
    <2>3. Taken(taken, Runner.inputs, block - 1, TRUE) /\ definition.outputs = {}
      BY <1>1 DEF RunnerInv, InInputs
    <2>4. /\ FirstOK(Runner.inputs, block, TRUE)
               <=> FirstOK(Runner.inputs, block - 1, TRUE) /\ ~wrong
          /\ First(Runner.inputs, block) = First(Runner.inputs, block - 1) \cup {b}
      BY <1>2, <2>2, <2>3, OneMorePort DEF b
    <2>5. /\ definition' \in Definitions
          /\ definition'.outputs = {} /\ definition'.onRun = definition.onRun
          /\ definition'.inputs = IF refused THEN taken ELSE taken \cup {b}
      <3>1. definition \in Definitions
        BY DEF RunnerInv, Placed
      <3>2. QED
        BY <1>3, <2>1, <2>3, <3>1 DEF Definitions
    <2>6. Taken(definition'.inputs, Runner.inputs, block, TRUE)
      BY <2>3, <2>4, <2>5 DEF Taken
    <2>7. /\ Runner' = Runner /\ Told(turn - 1)' = Told(turn - 1) /\ Count' = Count
          /\ block' - 1 = block /\ Begun(Runner)' = Begun(Runner)
      BY <1>2, <2>1 DEF Runner, Told, Count, Begun
    <2>8. Placed'
      BY <2>1, <2>5, <2>7, <1>2 DEF RunnerInv, Placed
    <2>9. InInputs'
      <3>1. block' <= Len(Runner.inputs) + 1
        BY <1>2, <2>1
      <3>2. QED
        BY <3>1, <2>5, <2>6, <2>7 DEF InInputs
    <2>10. InRunner'
      <3>1. SoFar' <=> SoFar /\ ~wrong
        <4>1. SoFar <=> Begun(Runner) /\ FirstOK(Runner.inputs, block - 1, TRUE)
          BY <1>1 DEF SoFar
        <4>2. SoFar' <=> Begun(Runner) /\ FirstOK(Runner.inputs, block, TRUE)
          BY <1>1, <2>1, <2>7 DEF SoFar
        <4>3. QED
          BY <4>1, <4>2, <2>4
      <3>2. faulty = Told(turn - 1) \cup (IF SoFar THEN {} ELSE {turn})
        BY <1>1 DEF RunnerInv, InRunner
      <3>3. faulty' = Told(turn - 1) \cup (IF SoFar' THEN {} ELSE {turn})
        BY <2>1, <3>1, <3>2
      <3>4. QED
        BY <1>1, <2>1, <2>5, <2>7, <3>3 DEF RunnerInv, InRunner
    <2>11. AtRunner' /\ InOutputs' /\ AtEnd'
      BY <1>1, <2>1 DEF AtRunner, InOutputs, AtEnd, ManifestIsAllOrNothing,
             EveryFaultyRunnerIsTold
    <2>12. MadeSoFar'
      BY <1>1, <2>1, <2>7 DEF RunnerInv, MadeSoFar, Made
    <2>13. QED
      BY <1>1, <2>1, <2>8, <2>9, <2>10, <2>11, <2>12 DEF RunnerInv
  <1>6. QED
    BY <1>4, <1>5

\* The outputs follow.
LEMMA InputsDoneKeeps == RunnerInv /\ InputsDone => RunnerInv'
  <1> SUFFICES ASSUME RunnerInv, InputsDone PROVE RunnerInv'
    OBVIOUS
  <1>1. runnerAt = "inputs" /\ IsRunner(Runner)
    BY RunnersAreRunners DEF RunnerInv, Placed, InputsDone, InRunner, Count, Runner
  <1>2. /\ Len(Runner.inputs) \in Nat /\ Len(Runner.outputs) \in Nat
        /\ block - 1 = Len(Runner.inputs)
    <2>1. Len(Runner.inputs) \in Nat /\ Len(Runner.outputs) \in Nat
      BY <1>1 DEF IsRunner
    <2>2. block \in Nat /\ block <= Len(Runner.inputs) + 1 /\ block > Len(Runner.inputs)
      BY <1>1 DEF RunnerInv, Placed, InInputs, InputsDone
    <2>3. QED
      BY <2>1, <2>2
  <1>3. /\ runnerAt' = "outputs" /\ block' = 1
        /\ UNCHANGED <<manifest, turn, faulty, definition, made>>
    BY DEF InputsDone
  <1>4. Runner' = Runner /\ Told(turn - 1)' = Told(turn - 1) /\ Count' = Count
        /\ Begun(Runner)' = Begun(Runner)
    BY <1>3 DEF Runner, Told, Count, Begun
  <1>5. Placed'
    BY <1>3, <1>4 DEF RunnerInv, Placed
  <1>6. \A ports, d : FirstOK(ports, 1 - 1, d) /\ Taken({}, ports, 1 - 1, d)
    BY DEF FirstOK, Taken, First
  <1>7. InOutputs'
    <2>1. block' <= Len(Runner.outputs) + 1
      BY <1>2, <1>3
    <2>2. Taken(definition'.inputs, Runner.inputs, Len(Runner.inputs), TRUE)
      BY <1>1, <1>2, <1>3 DEF RunnerInv, InInputs
    <2>3. Taken(definition'.outputs, Runner.outputs, block' - 1, FALSE)
      BY <1>1, <1>3, <1>6 DEF RunnerInv, InInputs
    <2>4. QED
      BY <2>1, <2>2, <2>3, <1>4 DEF InOutputs
  <1>8. InRunner'
    <2>1. SoFar' <=> SoFar
      <3>1. SoFar <=> Begun(Runner)
                      /\ FirstOK(Runner.inputs, Len(Runner.inputs), TRUE)
        BY <1>1, <1>2 DEF SoFar
      <3>2. SoFar' <=> Begun(Runner)
                       /\ FirstOK(Runner.inputs, Len(Runner.inputs), TRUE)
        BY <1>3, <1>4, <1>6 DEF SoFar
      <3>3. QED
        BY <3>1, <3>2
    <2>2. QED
      BY <1>1, <1>3, <1>4, <2>1 DEF RunnerInv, InRunner
  <1>9. AtRunner' /\ InInputs' /\ AtEnd'
    BY <1>3 DEF AtRunner, InInputs, AtEnd, ManifestIsAllOrNothing,
           EveryFaultyRunnerIsTold
  <1>10. MadeSoFar'
    BY <1>1, <1>3, <1>4 DEF RunnerInv, MadeSoFar, Made
  <1>11. QED
    BY <1>3, <1>5, <1>7, <1>8, <1>9, <1>10 DEF RunnerInv

\* A turn of the loop over outputs.
LEMMA OutputKeeps == RunnerInv /\ ParseOutput => RunnerInv'
  <1> SUFFICES ASSUME RunnerInv, ParseOutput PROVE RunnerInv'
    OBVIOUS
  <1> DEFINE b == Runner.outputs[block]
             taken == definition.outputs
             refused == NotTaken(b, taken) \/ b.default # "absent"
             wrong == refused \/ b.description = "wrong"
  <1>1. runnerAt = "outputs" /\ IsRunner(Runner) /\ turn \in Nat \ {0}
    BY RunnersAreRunners DEF RunnerInv, Placed, ParseOutput, InRunner, Count, Runner
  <1>2. Runner.outputs \in Seq(Ports) /\ block \in Nat \ {0} /\ block <= Len(Runner.outputs)
    BY <1>1 DEF IsRunner, RunnerInv, Placed, ParseOutput
  <1>3. b \in Ports
    BY <1>2
  <1>4. CASE TypePanics(b, taken) /\ b.default = "absent"
    BY <1>4, PanicKeeps DEF ParseOutput
  <1>5. CASE ~(TypePanics(b, taken) /\ b.default = "absent")
    <2>1. /\ faulty' = IF wrong THEN faulty \cup {turn} ELSE faulty
          /\ definition' = IF refused THEN definition
                           ELSE [definition EXCEPT !.outputs = @ \cup {b}]
          /\ block' = block + 1
          /\ UNCHANGED <<runnerAt, manifest, turn, made>>
      BY <1>5 DEF ParseOutput
    <2> HIDE DEF b
    <2>2. wrong <=> Defined(taken, b.name) \/ ~PortOK(b, FALSE)
      BY <1>3, <1>5, OutputRefused
    <2>3. /\ Taken(taken, Runner.outputs, block - 1, FALSE)
          /\ Taken(definition.inputs, Runner.inputs, Len(Runner.inputs), TRUE)
      BY <1>1 DEF RunnerInv, InOutputs
    <2>4. /\ FirstOK(Runner.outputs, block, FALSE)
               <=> FirstOK(Runner.outputs, block - 1, FALSE) /\ ~wrong
          /\ First(Runner.outputs, block) = First(Runner.outputs, block - 1) \cup {b}
      BY <1>2, <2>2, <2>3, OneMorePort DEF b
    <2>5. /\ definition' \in Definitions
          /\ definition'.inputs = definition.inputs
          /\ definition'.onRun = definition.onRun
          /\ definition'.outputs = IF refused THEN taken ELSE taken \cup {b}
      <3>1. definition \in Definitions
        BY DEF RunnerInv, Placed
      <3>2. QED
        BY <1>3, <2>1, <3>1 DEF Definitions
    <2>6. Taken(definition'.outputs, Runner.outputs, block, FALSE)
      BY <2>3, <2>4, <2>5 DEF Taken
    <2>7. /\ Runner' = Runner /\ Told(turn - 1)' = Told(turn - 1) /\ Count' = Count
          /\ block' - 1 = block /\ Begun(Runner)' = Begun(Runner)
      BY <1>2, <2>1 DEF Runner, Told, Count, Begun
    <2>8. Placed'
      BY <2>1, <2>5, <2>7, <1>2 DEF RunnerInv, Placed
    <2>9. InOutputs'
      <3>1. block' <= Len(Runner.outputs) + 1
        BY <1>2, <2>1
      <3>2. QED
        BY <3>1, <2>3, <2>5, <2>6, <2>7 DEF InOutputs
    <2>10. InRunner'
      <3>1. SoFar' <=> SoFar /\ ~wrong
        <4> DEFINE head == Begun(Runner)
                           /\ FirstOK(Runner.inputs, Len(Runner.inputs), TRUE)
        <4>1. SoFar <=> head /\ FirstOK(Runner.outputs, block - 1, FALSE)
          BY <1>1 DEF SoFar
        <4>2. SoFar' <=> head /\ FirstOK(Runner.outputs, block, FALSE)
          BY <1>1, <2>1, <2>7 DEF SoFar
        <4>3. QED
          BY <4>1, <4>2, <2>4
      <3>2. faulty = Told(turn - 1) \cup (IF SoFar THEN {} ELSE {turn})
        BY <1>1 DEF RunnerInv, InRunner
      <3>3. faulty' = Told(turn - 1) \cup (IF SoFar' THEN {} ELSE {turn})
        BY <2>1, <3>1, <3>2
      <3>4. QED
        BY <1>1, <2>1, <2>5, <2>7, <3>3 DEF RunnerInv, InRunner
    <2>11. AtRunner' /\ InInputs' /\ AtEnd'
      BY <1>1, <2>1 DEF AtRunner, InInputs, AtEnd, ManifestIsAllOrNothing,
             EveryFaultyRunnerIsTold
    <2>12. MadeSoFar'
      BY <1>1, <2>1, <2>7 DEF RunnerInv, MadeSoFar, Made
    <2>13. QED
      BY <1>1, <2>1, <2>8, <2>9, <2>10, <2>11, <2>12 DEF RunnerInv
  <1>6. QED
    BY <1>4, <1>5

\* The runner is done: it is told of exactly when it is not right, and if it
\* is right its definition is what it declares.
LEMMA DoneKeeps == RunnerInv /\ RunnerDone => RunnerInv'
  <1> SUFFICES ASSUME RunnerInv, RunnerDone PROVE RunnerInv'
    OBVIOUS
  <1>1. /\ runnerAt = "outputs" /\ IsRunner(Runner)
        /\ turn \in Nat \ {0} /\ Count \in Nat /\ turn <= Count
    BY RunnersAreRunners DEF RunnerInv, Placed, RunnerDone, InRunner, Count, Runner
  <1>2. Runner.inputs \in Seq(Ports) /\ Runner.outputs \in Seq(Ports)
    BY <1>1 DEF IsRunner
  <1>3. block - 1 = Len(Runner.outputs)
    <2>1. block \in Nat /\ block <= Len(Runner.outputs) + 1 /\ block > Len(Runner.outputs)
      BY <1>1 DEF RunnerInv, Placed, InOutputs, RunnerDone
    <2>2. Len(Runner.outputs) \in Nat
      BY <1>2
    <2>3. QED
      BY <2>1, <2>2
  <1>4. /\ Taken(definition.inputs, Runner.inputs, Len(Runner.inputs), TRUE)
        /\ Taken(definition.outputs, Runner.outputs, Len(Runner.outputs), FALSE)
    BY <1>1, <1>3 DEF RunnerInv, InOutputs
  <1>5. SoFar <=> Right(Runner)
    <2>1. SoFar <=> /\ Begun(Runner)
                    /\ FirstOK(Runner.inputs, Len(Runner.inputs), TRUE)
                    /\ FirstOK(Runner.outputs, Len(Runner.outputs), FALSE)
      BY <1>1, <1>3 DEF SoFar
    <2>2. ~Runner.unknown
      BY <1>1 DEF RunnerInv, InRunner
    <2>3. QED
      BY <1>2, <2>1, <2>2, AllPorts DEF Right, Begun
  <1>6. faulty = Told(turn)
    <2>1. faulty = Told(turn - 1) \cup (IF SoFar THEN {} ELSE {turn})
      BY <1>1 DEF RunnerInv, InRunner
    <2>2. QED
      BY <1>1, <1>5, <2>1, OneMoreRunner DEF Runner
  <1>7. Told(turn) = {} => Told(turn - 1) = {} /\ definition = Made(Runner)
    <2> SUFFICES ASSUME Told(turn) = {}
                 PROVE  Told(turn - 1) = {} /\ definition = Made(Runner)
      OBVIOUS
    <2>1. Told(turn - 1) = {} /\ Right(Runner)
      BY <1>1, OneMoreRunner DEF Runner
    <2>2. Begun(Runner) /\ definition \in Definitions
      BY <2>1 DEF RunnerInv, Placed, Right, Begun
    <2>3. definition.inputs = Contents(Runner.inputs)
      BY <1>2, <1>4, <2>1, AllPorts DEF Right, Taken
    <2>4. definition.outputs = Contents(Runner.outputs)
      BY <1>2, <1>4, <2>1, AllPorts DEF Right, Taken
    <2>5. definition.onRun = (Runner.lifecycles # <<>>)
      BY <1>1, <2>2 DEF RunnerInv, InRunner
    <2>6. QED
      BY <2>1, <2>2, <2>3, <2>4, <2>5 DEF Definitions, Made
  <1>8. /\ runnerAt' = "runner" /\ turn' = turn + 1 /\ turn' - 1 = turn
        /\ made' = Append(made, definition)
        /\ UNCHANGED <<manifest, block, faulty, definition>>
    BY <1>1 DEF RunnerDone
  <1>9. made \in Seq(Definitions) /\ definition \in Definitions
    BY DEF RunnerInv, Placed
  <1>10. Placed'
    <2>1. made' \in Seq(Definitions)
      BY <1>8, <1>9
    <2>2. QED
      BY <1>1, <1>8, <2>1 DEF RunnerInv, Placed, Count
  <1>11. (Told(turn - 1))' = Told(turn)
    BY <1>8 DEF Told
  <1>12. AtRunner'
    BY <1>1, <1>6, <1>8, <1>11 DEF RunnerInv, AtRunner, InRunner
  <1>13. InRunner' /\ InInputs' /\ InOutputs' /\ AtEnd'
    BY <1>8 DEF InRunner, InInputs, InOutputs, AtEnd, ManifestIsAllOrNothing,
           EveryFaultyRunnerIsTold
  <1>14. MadeSoFar'
    <2> SUFFICES ASSUME Told(turn) = {}
                 PROVE  /\ Len(made') = turn
                        /\ \A i \in 1..turn : made'[i] = Made(manifest.runners[i])
      BY <1>8, <1>11 DEF MadeSoFar, Made, Contents
    <2>1. /\ Len(made) = turn - 1
          /\ \A i \in 1..turn - 1 : made[i] = Made(manifest.runners[i])
      BY <1>1, <1>7 DEF RunnerInv, MadeSoFar
    <2>2. /\ Len(made') = turn
          /\ made'[turn] = definition
          /\ \A i \in 1..turn - 1 : made'[i] = made[i]
      BY <1>1, <1>8, <1>9, <2>1
    <2>3. QED
      BY <1>1, <1>7, <2>1, <2>2 DEF Runner
  <1>15. QED
    BY <1>8, <1>10, <1>12, <1>13, <1>14 DEF RunnerInv

\* The end: the runners, or what is wrong.
LEMMA ReturnKeeps == RunnerInv /\ Return => RunnerInv'
  <1> SUFFICES ASSUME RunnerInv, Return PROVE RunnerInv'
    OBVIOUS
  <1>1. /\ manifest \in Manifests /\ Count \in Nat /\ turn - 1 = Count
        /\ DOMAIN manifest.runners = 1..Count
        /\ manifest.decodes /\ faulty = Told(Count)
    <2>1. manifest \in Manifests /\ turn \in 1..Count + 1 /\ runnerAt = "runner"
      BY DEF RunnerInv, Placed, Return
    <2>2. Count \in Nat /\ DOMAIN manifest.runners = 1..Count
      BY <2>1, RunnersAreRunners DEF Count
    <2>3. turn - 1 = Count
      BY <2>1, <2>2 DEF Return, Count
    <2>4. QED
      BY <2>1, <2>2, <2>3 DEF RunnerInv, AtRunner
  <1>2. /\ runnerAt' \in {"accepted", "refused"}
        /\ UNCHANGED <<manifest, turn, block, faulty, definition>>
        /\ runnerAt' = "accepted" => faulty = {} /\ made' = made
        /\ runnerAt' = "refused" => made' = <<>>
    BY DEF Return
  <1>3. Placed'
    <2>0. made \in Seq(Definitions) /\ made' \in {made, <<>>}
      BY <1>2 DEF RunnerInv, Placed
    <2>1. made' \in Seq(Definitions)
      <3>1. CASE made' = made
        BY <2>0, <3>1
      <3>2. CASE made' = <<>>
        BY <3>2
      <3>3. QED
        BY <2>0, <3>1, <3>2
    <2>2. QED
      BY <1>2, <2>1 DEF RunnerInv, Placed, Count
  <1>4. EveryFaultyRunnerIsTold'
    BY <1>1, <1>2 DEF EveryFaultyRunnerIsTold, Told
  <1>5. ManifestIsAllOrNothing'
    <2>1. ASSUME runnerAt' = "accepted"
          PROVE  /\ Len(made) = Count
                 /\ \A i \in 1..Count : /\ Right(manifest.runners[i])
                                        /\ made[i] = Made(manifest.runners[i])
      <3>1. Told(Count) = {} /\ runnerAt = "runner"
        BY <1>1, <1>2, <2>1 DEF Return
      <3>2. \A i \in 1..Count : Right(manifest.runners[i])
        BY <3>1 DEF Told
      <3>3. Len(made) = Count /\ \A i \in 1..Count : made[i] = Made(manifest.runners[i])
        BY <1>1, <3>1 DEF RunnerInv, MadeSoFar
      <3>4. QED
        BY <3>2, <3>3
    <2>2. ASSUME runnerAt' = "accepted"
          PROVE  made \in Seq(Definitions) /\ DOMAIN made = 1..Count
      BY <2>1, <2>2 DEF RunnerInv, Placed
    <2>3. QED
      BY <1>2, <2>1, <2>2 DEF ManifestIsAllOrNothing, Made, Count
  <1>6. AtRunner' /\ InRunner' /\ InInputs' /\ InOutputs' /\ MadeSoFar'
    BY <1>2 DEF AtRunner, InRunner, InInputs, InOutputs, MadeSoFar
  <1>7. QED
    BY <1>2, <1>3, <1>4, <1>5, <1>6 DEF RunnerInv, AtEnd

\* Once it has ended, nothing changes.
LEMMA RestKeeps == RunnerInv /\ UNCHANGED runnerVars => RunnerInv'
  BY DEF runnerVars, RunnerInv, Placed, AtRunner, InRunner, InInputs, InOutputs,
     MadeSoFar, AtEnd, ManifestIsAllOrNothing, EveryFaultyRunnerIsTold, SoFar,
     Told, Runner, Count, Begun, Made

-----------------------------------------------------------------------------
(* The theorems.                                                           *)

\* RunnerInv is an invariant.
LEMMA RunnerInvariance == RunnerSpec => []RunnerInv
  <1>1. RunnerInit => RunnerInv
    BY InvInit
  <1>2. RunnerInv /\ [RunnerNext]_runnerVars => RunnerInv'
    BY DecodeKeeps, SkipKeeps, BeginKeeps, InputKeeps, InputsDoneKeeps, OutputKeeps,
       DoneKeeps, ReturnKeeps, RestKeeps DEF RunnerNext
  <1>3. QED
    BY <1>1, <1>2, PTL DEF RunnerSpec

\* A manifest of any number of runners, inputs and outputs becomes all of its
\* runners, each of them right and complete, or nothing.
THEOREM WholeManifests == RunnerSpec => []ManifestIsAllOrNothing
  <1>1. RunnerInv => ManifestIsAllOrNothing
    BY DEF RunnerInv, AtEnd
  <1>2. QED
    BY <1>1, RunnerInvariance, PTL

\* A refused manifest is told of every runner that is not right.
THEOREM FaultyRunnersTold == RunnerSpec => []EveryFaultyRunnerIsTold
  <1>1. RunnerInv => EveryFaultyRunnerIsTold
    BY DEF RunnerInv, AtEnd
  <1>2. QED
    BY <1>1, RunnerInvariance, PTL

\* The numbers of the faulty runners are numbers of runners, or 0: where the
\* parser has not panicked because of what they are, and afterwards because a
\* panic leaves them alone.
LEMMA FaultyAreRunners ==
  RunnerInv /\ runnerAt # "panicked" => faulty \subseteq 0..Count
  <1> SUFFICES ASSUME RunnerInv, runnerAt # "panicked"
               PROVE  faulty \subseteq 0..Count
    OBVIOUS
  <1>1. Count \in Nat /\ DOMAIN manifest.runners = 1..Count /\ turn \in 1..Count + 1
    BY RunnersAreRunners DEF RunnerInv, Placed, Count
  <1>2. CASE runnerAt \in {"runner", "inputs", "outputs"}
    <2>1. faulty \subseteq Told(turn - 1) \cup {turn}
      BY <1>2 DEF RunnerInv, AtRunner, InRunner
    <2>2. runnerAt = "runner" => faulty = Told(turn - 1)
      BY DEF RunnerInv, AtRunner
    <2>3. runnerAt # "runner" => turn <= Count
      BY <1>2 DEF RunnerInv, InRunner
    <2> QED
      BY <1>1, <2>1, <2>2, <2>3 DEF Told
  <1>3. CASE runnerAt \in {"accepted", "refused"}
    BY <1>1, <1>3 DEF RunnerInv, AtEnd, EveryFaultyRunnerIsTold
  <1>4. CASE runnerAt = "file"
    BY <1>1, <1>4 DEF RunnerInv, MadeSoFar
  <1> QED
    BY <1>2, <1>3, <1>4 DEF RunnerInv

\* The parser of manifests keeps its locals within their types.
THEOREM RunnerTypes == RunnerSpec => []RunnerTypeOK
  <1>1. RunnerInv /\ (runnerAt # "panicked" \/ faulty \subseteq 0..Count)
          => RunnerTypeOK
    BY FaultyAreRunners DEF RunnerInv, Placed, Definitions, RunnerTypeOK, Count
  <1>2. RunnerInit => runnerAt # "panicked"
    BY DEF RunnerInit
  <1>3. ASSUME RunnerInv, RunnerInv', RunnerTypeOK, [RunnerNext]_runnerVars
        PROVE  RunnerTypeOK'
    <2>1. CASE runnerAt = "panicked"
      <3>1. UNCHANGED runnerVars
        BY <1>3, <2>1 DEF RunnerNext, DecodeFile, SkipRunner, BeginRunner, ParseInput,
           InputsDone, ParseOutput, RunnerDone, Return
      <3> QED
        BY <1>3, <3>1 DEF runnerVars, RunnerTypeOK
    <2>2. CASE runnerAt # "panicked" /\ runnerAt' # "panicked"
      <3>1. (runnerAt # "panicked")'
        BY <2>2
      <3> QED
        BY <1>1, <1>3, <3>1, PTL
    <2>3. CASE runnerAt # "panicked" /\ runnerAt' = "panicked"
      <3>1. faulty' = faulty /\ manifest' = manifest
        BY <1>3, <2>3 DEF RunnerNext, DecodeFile, SkipRunner, BeginRunner, ParseInput,
           InputsDone, ParseOutput, RunnerDone, Return, PanicOnType, runnerVars
      <3>2. (faulty \subseteq 0..Count)'
        BY <1>3, <2>3, <3>1, FaultyAreRunners DEF Count
      <3> QED
        BY <1>1, <1>3, <3>2, PTL
    <2> QED
      BY <2>1, <2>2, <2>3
  <1>4. QED
    BY <1>1, <1>2, <1>3, RunnerInvariance, PTL DEF RunnerSpec

=============================================================================
