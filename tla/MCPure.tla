------------------------------- MODULE MCPure -------------------------------
(***************************************************************************)
(* The parts that compute something from an input and keep nothing, in one *)
(* state machine: a behaviour is the analysis of one forest, the way of    *)
(* one address, or the parse of one grid file or of one manifest, and the  *)
(* other parts rest where they have ended.                                 *)
(***************************************************************************)
EXTENDS ExprWalk, NodeId, StepModel, RunnerModel

Trio == 1..3

\* Forests of three expressions that are listed from the top down; names
\* only of calls and variables.
SlotChoices(parent, kind) ==
  LET choices(n) == IF parent[n] = 0 THEN {"none"} ELSE Slots[kind[parent[n]]]
  IN {<<a, b, c>> : a \in choices(1), b \in choices(2), c \in choices(3)}

NameChoices(kind) ==
  LET choices(n) == IF kind[n] = "FunctionCallExpr" THEN {"f", "g"} ELSE {"f"}
  IN {<<a, b, c>> : a \in choices(1), b \in choices(2), c \in choices(3)}

Parents == {p \in [Trio -> 0..2] : \A n \in Trio : p[n] < n}

Shapes == {s \in [parent : Parents, kind : [Trio -> Kinds]] :
             \A n \in Trio : s.parent[n] # 0 => Slots[s.kind[s.parent[n]]] # {}}

Forests ==
  {t \in UNION {[parent : {s.parent}, kind : {s.kind},
                 slot : SlotChoices(s.parent, s.kind),
                 name : NameChoices(s.kind)] : s \in Shapes} : IsParsed(t)}

-----------------------------------------------------------------------------
(* Grid files.                                                             *)

Val(brackets, open, type, null, whole, strings) ==
  [brackets |-> brackets, open |-> open, type |-> type, null |-> null,
   whole |-> whole, strings |-> strings]

Reference == Val(FALSE, TRUE, "dynamic", FALSE, FALSE, FALSE)
References == Val(TRUE, TRUE, "dynamic", FALSE, FALSE, FALSE)
Whole == Val(FALSE, FALSE, "number", FALSE, TRUE, FALSE)
Text == Val(FALSE, FALSE, "string", FALSE, FALSE, FALSE)
TextTuple == Val(TRUE, FALSE, "tuple", FALSE, FALSE, TRUE)

\* A number, whole or not, or a null one; a text; null; [] and [ "a" ],
\* [ 1 ]; a list or a map, which conditions make; a call; an object.
Attempts ==
  {Reference, References, Whole, Text, TextTuple,
   Val(FALSE, FALSE, "number", FALSE, FALSE, FALSE),
   Val(FALSE, FALSE, "number", TRUE, FALSE, FALSE),
   Val(FALSE, FALSE, "dynamic", TRUE, FALSE, FALSE),
   Val(TRUE, FALSE, "tuple", FALSE, FALSE, FALSE),
   Val(FALSE, FALSE, "tuple", TRUE, FALSE, TRUE),
   Val(FALSE, FALSE, "list", FALSE, FALSE, TRUE),
   Val(FALSE, FALSE, "map", FALSE, FALSE, FALSE),
   Val(FALSE, FALSE, "failing", FALSE, FALSE, FALSE),
   Val(FALSE, FALSE, "object", FALSE, FALSE, FALSE)}

StepBody(attrs, blocks, unknown) ==
  [attrs |-> attrs, blocks |-> blocks, unknown |-> unknown]

LoopBodies ==
  {StepBody([n \in {m \in DOMAIN b : b[m] # {}} |->
               CHOOSE v \in b[n] : TRUE], <<>>, FALSE) :
     b \in [{"count", "for_each"} -> {{v} : v \in Attempts} \cup {{}}]
            \cup {[count |-> c, for_each |-> {}, depends_on |-> {d}] :
                    c \in {{}, {Text}}, d \in {Reference, References, TextTuple}}}

BlockOf(type, attrs, extra, backoff) ==
  [type |-> type, attrs |-> attrs, extra |-> extra, backoff |-> backoff]

BackoffOf(extra) == [attrs |-> {"initial"}, extra |-> extra]

Backoffs == {<<BackoffOf(FALSE)>>, <<BackoffOf(TRUE)>>,
             <<BackoffOf(FALSE), BackoffOf(FALSE)>>}

PlainBlocks(types) ==
  {BlockOf(t, {}, FALSE, <<>>) : t \in types}
    \cup {BlockOf(t, BlockFields[t], extra, <<>>) :
            t \in types \cap BlockTypes, extra \in BOOLEAN}

SomeBlocks(types) ==
  PlainBlocks(types)
    \cup {BlockOf("arguments", {"input"}, extra, <<>>) : extra \in BOOLEAN}
    \cup {BlockOf("retry", {"attempts"}, FALSE, b) : b \in Backoffs}

Described == [description |-> Reference]

BlockBodies ==
  {StepBody(Described, blocks, FALSE) :
     blocks \in SeqOf(SomeBlocks(BlockTypes), 1)
                \cup [1..2 -> SomeBlocks({"cache", "placement", "timeouts"})]
                \cup [1..3 -> SomeBlocks({"metrics"})]}
    \cup {StepBody(Described, <<>>, TRUE)}

\* Steps one after the other: a right one, one that is refused, a panic.
Ends == {StepBody([count |-> v], <<>>, FALSE) :
           v \in {Whole, Text, Val(FALSE, FALSE, "number", TRUE, FALSE, FALSE)}}

GridFiles ==
  {<<body>> : body \in LoopBodies \cup BlockBodies} \cup SeqOf(Ends, 3)

-----------------------------------------------------------------------------
(* Manifests.                                                              *)

Port(name, type, default) ==
  [name |-> name, unknown |-> FALSE, type |-> type, description |-> "right",
   default |-> default]

SomePorts ==
  {Port("a", t, d) : t \in {"string", "any", "absent", "other"},
                     d \in {"absent", "string"}}
    \cup {Port("a", "number", d) : d \in {"string", "failing", "other"}}
    \cup {[Port("a", "bool", "absent") EXCEPT !.unknown = TRUE],
          [Port("a", "bool", "absent") EXCEPT !.description = "wrong"],
          Port("b", "bool", "bool"), Port("b", "bool", "absent")}

RunnerOf(lifecycles, inputs, outputs) ==
  [unknown |-> FALSE, description |-> "right", lifecycles |-> lifecycles,
   inputs |-> inputs, outputs |-> outputs]

RightRunner == RunnerOf(<<"right">>, <<Port("b", "bool", "bool")>>, <<>>)

SomeRunners ==
  {RunnerOf(<<>>, inputs, <<>>) : inputs \in SeqOf(SomePorts, 2)}
    \cup {RunnerOf(<<>>, <<>>, outputs) : outputs \in SeqOf(SomePorts, 2)}
    \cup {[RunnerOf(l, <<>>, <<>>) EXCEPT !.unknown = u, !.description = d] :
            l \in SeqOf({"right", "wrong"}, 2), u \in BOOLEAN, d \in Descriptions}

PrintDeclared == [decodes |-> TRUE,
          runners |-> <<RunnerOf(<<"right">>, <<Port("input", "any", "absent")>>, <<>>)>>]

SomeManifests ==
  {[decodes |-> TRUE, runners |-> runners] :
     runners \in {<<>>} \cup {<<r>> : r \in SomeRunners}
                 \cup UNION {{<<r, q>>, <<q, r>>} : r \in SomeRunners,
                             q \in {RightRunner, [RightRunner EXCEPT !.unknown = TRUE]}}}
    \cup {PrintDeclared, [decodes |-> FALSE, runners |-> <<>>]}

-----------------------------------------------------------------------------

\* The part that rests.
NoForest ==
  [parent |-> <<0, 0, 0>>, kind |-> [n \in Trio |-> "StaticExpr"],
   slot |-> [n \in Trio |-> "none"], name |-> [n \in Trio |-> "f"]]

NoWalk ==
  /\ tree = NoForest
  /\ pending = {} /\ walking = {} /\ walked = {}
  /\ traversals = {} /\ functions = {}
NoId == idAt = "none" /\ raw = <<>> /\ address = <<>> /\ key = <<>> /\ back = <<>>
NoFile ==
  /\ stepAt = "accepted" /\ file = <<>> /\ pos = 1 /\ todo = {} /\ diags = {}
  /\ fields = NoFields /\ expressions = {} /\ steps = <<>>
NoManifest ==
  /\ runnerAt = "accepted" /\ manifest = [decodes |-> TRUE, runners |-> <<>>]
  /\ turn = 1 /\ block = 1 /\ faulty = {} /\ definition = NoDefinition /\ made = <<>>

Init ==
  \/ WalkInit /\ NoId /\ NoFile /\ NoManifest
  \/ IdInit /\ NoWalk /\ NoFile /\ NoManifest
  \/ StepInit /\ NoWalk /\ NoId /\ NoManifest
  \/ RunnerInit /\ NoWalk /\ NoId /\ NoFile

Next ==
  \/ WalkNext /\ UNCHANGED <<idVars, stepVars, runnerVars>>
  \/ IdNext /\ UNCHANGED <<walkVars, stepVars, runnerVars>>
  \/ StepNext /\ UNCHANGED <<walkVars, idVars, runnerVars>>
  \/ RunnerNext /\ UNCHANGED <<walkVars, idVars, stepVars>>

Spec == Init /\ [][Next]_<<walkVars, idVars, stepVars, runnerVars>>

=============================================================================
