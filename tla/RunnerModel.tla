----------------------------- MODULE RunnerModel -----------------------------
(***************************************************************************)
(* internal/model: from a manifest to its runners (NewRunner and           *)
(* ParseRunnerFile), with bggohcl's HCLTypeToCtyType.                      *)
(*                                                                         *)
(* A manifest is what the HCL parser hands over: does it decode, and its   *)
(* runner blocks.  A runner that is not right is passed over in a way of   *)
(* its own at each place, and the loop goes on to find what is wrong with  *)
(* the others; a diagnostic is kept by the runner it is about.             *)
(***************************************************************************)
EXTENDS Integers, Sequences

CONSTANTS Manifests,
          PrintManifest    \* modules/print/manifest.hcl

Primitive == {"string", "number", "bool"}
Unimplemented == {"any", "list", "map", "set", "object", "tuple"}

\* A text that is decoded into a string; a value of another type may fail to.
Descriptions == {"absent", "right", "wrong"}

\* An input or output block.  "absent" is no type or default, "other" a type
\* that is no keyword, or a value of none of the primitive types.
Ports == [name : STRING, unknown : BOOLEAN,
           type : Primitive \cup Unimplemented \cup {"absent", "other"},
           description : Descriptions,
           default : Primitive \cup {"absent", "failing", "other"}]

IsRunner(r) ==
  /\ r.unknown \in BOOLEAN
  /\ r.description \in Descriptions
  /\ \A i \in DOMAIN r.lifecycles : r.lifecycles[i] \in {"right", "wrong"}
  /\ r.lifecycles \in Seq({"right", "wrong"})
  /\ r.inputs \in Seq(Ports) /\ r.outputs \in Seq(Ports)

ASSUME ManifestsAssumption ==
  \A m \in Manifests :
    /\ m.decodes \in BOOLEAN
    /\ Len(m.runners) \in Nat /\ DOMAIN m.runners = 1..Len(m.runners)
    /\ \A i \in DOMAIN m.runners : IsRunner(m.runners[i])

VARIABLES
  runnerAt,    \* "file", "runner", "inputs", "outputs", then "accepted",
               \* "refused" or "panicked"
  manifest,    \* the file
  turn,        \* parsedRunner: the runner it is at
  block,       \* the input or output block it is at
  faulty,      \* allDiags: the runners that have errors, 0 for the file
  definition,  \* the Runner being made
  made         \* the runners NewRunner returns

runnerVars == <<runnerAt, manifest, turn, block, faulty, definition, made>>

NoDefinition == [onRun |-> FALSE, inputs |-> {}, outputs |-> {}]

RunnerInit ==
  /\ runnerAt = "file"
  /\ manifest \in Manifests
  /\ turn = 1 /\ block = 1 /\ faulty = {}
  /\ definition = NoDefinition /\ made = <<>>

Runner == manifest.runners[turn]

-----------------------------------------------------------------------------

\* gohcl.DecodeBody on the file.
DecodeFile ==
  /\ runnerAt = "file"
  /\ runnerAt' = IF manifest.decodes THEN "runner" ELSE "refused"
  /\ faulty' = IF manifest.decodes THEN {} ELSE {0}
  /\ UNCHANGED <<manifest, turn, block, definition, made>>

Fault == faulty' = faulty \cup {turn}

\* Something the schema does not list: on to the next runner.
SkipRunner ==
  /\ runnerAt = "runner" /\ turn <= Len(manifest.runners) /\ Runner.unknown
  /\ Fault
  /\ turn' = turn + 1
  /\ UNCHANGED <<runnerAt, manifest, block, definition, made>>

\* Faulty variant: two lifecycle blocks are not noticed.
LifecycleLast(r) == Len(r.lifecycles) > 0 /\ r.lifecycles[Len(r.lifecycles)] = "wrong"

\* parseRunnerLifecycle: one block at most, with its on_run.
LifecycleWrong(r) ==
  Len(r.lifecycles) > 1 \/ \E i \in DOMAIN r.lifecycles : r.lifecycles[i] = "wrong"

\* The description and the lifecycle, and the runner's empty maps.
BeginRunner ==
  /\ runnerAt = "runner" /\ turn <= Len(manifest.runners) /\ ~Runner.unknown
  /\ faulty' = IF Runner.description = "wrong" \/ LifecycleWrong(Runner)
               THEN faulty \cup {turn} ELSE faulty
  /\ definition' = [NoDefinition EXCEPT
       !.onRun = Len(Runner.lifecycles) = 1 /\ ~LifecycleWrong(Runner)]
  /\ runnerAt' = "inputs" /\ block' = 1
  /\ UNCHANGED <<manifest, turn, made>>

Defined(blocks, name) == \E b \in blocks : b.name = name

\* What keeps a block out of the map: its name is taken, it does not match
\* the schema, its type is none.
NotTaken(b, taken) ==
  \/ Defined(taken, b.name)
  \/ b.unknown
  \/ b.type \in {"absent", "other"}

\* Faulty variant: the default's type is not compared.
DefaultUnchecked(b) == b.default = "failing"

\* A default must have a value without a context, of the type that is given;
\* no conversion, and null has another type.
DefaultRefused(b) == b.default # "absent" /\ b.default # b.type

\* HCLTypeToCtyType on a type that is not implemented.
TypePanics(b, taken) ==
  ~Defined(taken, b.name) /\ ~b.unknown /\ b.type \in Unimplemented

PanicOnType ==
  /\ runnerAt' = "panicked"
  /\ made' = <<>>
  /\ UNCHANGED <<manifest, turn, block, faulty, definition>>

\* One turn of parseRunnerInputs.
ParseInput ==
  /\ runnerAt = "inputs" /\ block <= Len(Runner.inputs)
  /\ LET b == Runner.inputs[block]
         refused == NotTaken(b, definition.inputs) \/ DefaultRefused(b)
     IN IF TypePanics(b, definition.inputs) THEN PanicOnType
        ELSE /\ faulty' = IF refused \/ b.description = "wrong"
                          THEN faulty \cup {turn} ELSE faulty
             /\ definition' = IF refused THEN definition
                              ELSE [definition EXCEPT !.inputs = @ \cup {b}]
             /\ block' = block + 1
             /\ UNCHANGED <<runnerAt, manifest, turn, made>>

InputsDone ==
  /\ runnerAt = "inputs" /\ block > Len(Runner.inputs)
  /\ runnerAt' = "outputs" /\ block' = 1
  /\ UNCHANGED <<manifest, turn, faulty, definition, made>>

\* One turn of parseRunnerOutputs, where the schema knows no default.
ParseOutput ==
  /\ runnerAt = "outputs" /\ block <= Len(Runner.outputs)
  /\ LET b == Runner.outputs[block]
         refused == NotTaken(b, definition.outputs) \/ b.default # "absent"
     IN IF TypePanics(b, definition.outputs) /\ b.default = "absent" THEN PanicOnType
        ELSE /\ faulty' = IF refused \/ b.description = "wrong"
                          THEN faulty \cup {turn} ELSE faulty
             /\ definition' = IF refused THEN definition
                              ELSE [definition EXCEPT !.outputs = @ \cup {b}]
             /\ block' = block + 1
             /\ UNCHANGED <<runnerAt, manifest, turn, made>>

\* The runner joins the others, with errors or without.
RunnerDone ==
  /\ runnerAt = "outputs" /\ block > Len(Runner.outputs)
  /\ made' = Append(made, definition)
  /\ runnerAt' = "runner" /\ turn' = turn + 1
  /\ UNCHANGED <<manifest, block, faulty, definition>>

\* The end: errors of any runner refuse the file.
Return ==
  /\ runnerAt = "runner" /\ turn > Len(manifest.runners)
  /\ IF faulty = {} THEN runnerAt' = "accepted" /\ UNCHANGED made
     ELSE runnerAt' = "refused" /\ made' = <<>>
  /\ UNCHANGED <<manifest, turn, block, faulty, definition>>

RunnerNext ==
  \/ DecodeFile \/ SkipRunner \/ BeginRunner
  \/ ParseInput \/ InputsDone \/ ParseOutput \/ RunnerDone \/ Return

RunnerSpec == RunnerInit /\ [][RunnerNext]_runnerVars

-----------------------------------------------------------------------------
(* Properties                                                              *)

\* The state of the parser of a manifest.
RunnerTypeOK ==
  /\ runnerAt \in {"file", "runner", "inputs", "outputs",
                   "accepted", "refused", "panicked"}
  /\ turn \in 1..Len(manifest.runners) + 1
  /\ block \in Nat \ {0}
  /\ faulty \subseteq 0..Len(manifest.runners)
  /\ definition.inputs \subseteq Ports /\ definition.outputs \subseteq Ports
  /\ definition.onRun \in BOOLEAN
  /\ DOMAIN made = 1..Len(made)

\* A list of inputs or outputs that makes sense.
RightPorts(ports, defaults) ==
  /\ \A i, j \in DOMAIN ports : ports[i].name = ports[j].name => i = j
  /\ \A i \in DOMAIN ports :
       /\ ~ports[i].unknown /\ ports[i].description # "wrong"
       /\ ports[i].type \in Primitive
       /\ ports[i].default \in {"absent"} \cup
            (IF defaults THEN {ports[i].type} ELSE {})

Right(r) ==
  /\ ~r.unknown /\ r.description # "wrong"
  /\ r.lifecycles \in {<<>>, <<"right">>}
  /\ RightPorts(r.inputs, TRUE) /\ RightPorts(r.outputs, FALSE)

Contents(ports) == {ports[i] : i \in DOMAIN ports}

\* A manifest becomes its runners, in their order, each with every input and
\* output it declares and no two of one name, a default of the type declared;
\* or nothing: one runner that is not right keeps the others out.
ManifestIsAllOrNothing ==
  /\ runnerAt = "accepted" =>
       /\ Len(made) = Len(manifest.runners)
       /\ \A i \in DOMAIN made : LET r == manifest.runners[i] IN
            /\ Right(r)
            /\ made[i] = [onRun |-> r.lifecycles # <<>>, inputs |-> Contents(r.inputs),
                          outputs |-> Contents(r.outputs)]
  /\ runnerAt \in {"refused", "panicked"} => made = <<>>

\* "Skip this runner but continue parsing others": when the file is refused,
\* every runner that is not right is told of, and no other.
EveryFaultyRunnerIsTold ==
  runnerAt \in {"accepted", "refused"} =>
    faulty = IF manifest.decodes
             THEN {i \in DOMAIN manifest.runners : ~Right(manifest.runners[i])}
             ELSE {0}

\* "It accepts any single value" (modules/print/module.go 11) and "Can be of
\* any type" (its manifest.hcl 6): the manifest beside it is one that loads.
ShippedManifestLoads == manifest = PrintManifest => runnerAt # "panicked"

=============================================================================
