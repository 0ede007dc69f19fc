------------------------------ MODULE StepModel ------------------------------
(***************************************************************************)
(* internal/model: from the step blocks of one grid file to Steps          *)
(* (newGridFromHCL and NewStepFromHCL).                                     *)
(*                                                                         *)
(* A step body is what the HCL parser hands over: its attributes with what *)
(* is known of their values, its blocks in order, and whether it holds     *)
(* anything that stepBodySchema does not list.  An expression is named by  *)
(* its place, <<block, backoff, attribute>>, with 0 for "not in one".      *)
(*                                                                         *)
(* The parsers of blocks run in the order of a Go map, a different one     *)
(* each time.  Diagnostics are kept by the part of the step they are       *)
(* about.  gohcl requires no attribute of type hcl.Expression: an absent   *)
(* one gets a constant null, which holds no reference and is left out.     *)
(***************************************************************************)
EXTENDS Integers, Sequences

CONSTANTS Files,         \* grid files: sequences of step bodies
          ArgumentNames  \* what an arguments block may assign to

SimpleAttributes ==
  {"enabled", "description", "tags", "scope", "uses", "priority",
   "delay_before", "delay_after", "continue_on_failure", "idempotency_key",
   "sensitive", "env"}

StepAttributes == SimpleAttributes \cup {"count", "for_each", "depends_on"}

\* The structs the blocks are decoded into, by their attributes; the
\* Expressions method of each returns them all.
Timeouts == {"execution", "start", "queue", "deadline"}
Concurrency == {"limit", "per_key", "order"}
RateLimit == {"limit", "per", "burst", "key"}
Retry == {"attempts", "retry_on", "abort_on", "max_duration"}
Backoff == {"strategy", "initial", "factor", "max", "jitter"}
OnError == {"action", "fallback"}
Cache == {"enabled", "key", "ttl", "scope", "restore"}
Dedupe == {"key", "action", "scope"}
Tracing == {"attributes", "sample_rate"}
Metrics == {"emit"}
Placement == {"labels", "constraints", "shard_by"}

BlockFields ==
  [timeouts    |-> Timeouts,    retry    |-> Retry,    tracing   |-> Tracing,
   concurrency |-> Concurrency, on_error |-> OnError,  metrics   |-> Metrics,
   rate_limit  |-> RateLimit,   cache    |-> Cache,    placement |-> Placement,
   dedupe      |-> Dedupe]

BlockTypes == DOMAIN BlockFields

Parts == {"attributes", "count", "for_each", "depends_on", "arguments"} \cup BlockTypes

Fields == SimpleAttributes \cup {"count", "for_each", "arguments"} \cup BlockTypes

AttributeNames ==
  StepAttributes \cup Backoff \cup ArgumentNames
    \cup UNION {BlockFields[type] : type \in BlockTypes}

Places == Nat \X Nat \X AttributeNames

\* An expression: is it written as [...]; does it refer to anything (open);
\* and else its type and value without a context, "failing" when there is
\* none, as for every call of a function.
Types == {"failing", "number", "string", "dynamic",
          "tuple", "list", "set", "map", "object"}
Values == [brackets : BOOLEAN, open : BOOLEAN, type : Types, null : BOOLEAN,
           whole : BOOLEAN, strings : BOOLEAN]

\* A block: its attributes, whether there is something in it that its
\* struct does not list, and the backoff blocks inside a retry.
IsBlock(block) ==
  /\ block.type \in BlockTypes \cup {"arguments"}
  /\ block.extra \in BOOLEAN
  /\ block.attrs \subseteq
       (IF block.type = "arguments" THEN ArgumentNames ELSE BlockFields[block.type])
  /\ DOMAIN block.backoff = 1..Len(block.backoff)
  /\ \A k \in DOMAIN block.backoff :
       /\ block.backoff[k].attrs \subseteq Backoff
       /\ block.backoff[k].extra \in BOOLEAN
  /\ block.type # "retry" => block.backoff = <<>>

IsBody(body) ==
  /\ body.unknown \in BOOLEAN
  /\ DOMAIN body.attrs \subseteq StepAttributes
  /\ \A n \in DOMAIN body.attrs : body.attrs[n] \in Values
  /\ DOMAIN body.blocks \subseteq Nat
  /\ \A i \in DOMAIN body.blocks : IsBlock(body.blocks[i])

ASSUME FilesAssumption ==
  \A f \in Files :
    /\ Len(f) \in Nat /\ DOMAIN f = 1..Len(f)
    /\ \A i \in DOMAIN f : IsBody(f[i])

VARIABLES
  stepAt,       \* "next", "parse", then "accepted", "refused" or "panicked"
  file,         \* the file being parsed
  pos,          \* parsedStep: the step it is at
  todo,         \* the parts of that step still to be parsed
  diags,        \* allDiags: the parts that have errors
  fields,       \* step: the expressions that each of its fields holds
  expressions,  \* step.Expressions
  steps         \* the steps newGridFromHCL returns

stepVars == <<stepAt, file, pos, todo, diags, fields, expressions, steps>>

NoFields == [name \in Fields |-> {}]

StepInit ==
  /\ stepAt = "next"
  /\ file \in Files
  /\ pos = 1 /\ todo = {} /\ diags = {}
  /\ fields = NoFields /\ expressions = {} /\ steps = <<>>

Body == file[pos]

-----------------------------------------------------------------------------
(* What the code computes from a body.                                     *)

Attributes(body, names) ==
  {<<0, 0, n>> : n \in names \cap DOMAIN body.attrs}

Has(body, name) == name \in DOMAIN body.attrs

\* parseCount, where Expr has no Variables.
CountRefused(v) == ~v.open /\ (v.type # "number" \/ ~v.whole)
CountPanics(v) == ~v.open /\ v.type = "number" /\ v.null

\* parseForEach; an object that is written { a = 1 } is none of these types.
ForEachRefused(v) ==
  /\ ~v.open
  /\ \/ v.type \notin {"tuple", "list", "set", "map"}
     \/ v.type \in {"tuple", "list"} /\ ~v.strings
ForEachPanics(v) == ~v.open /\ v.type \in {"tuple", "list"} /\ v.null

\* FindUniqueBlock: the blocks of that name; and more than one of them.
Blocks(body, type) == {i \in DOMAIN body.blocks : body.blocks[i].type = type}

Duplicate(body, type) ==
  \E i, j \in Blocks(body, type) : i # j

\* DecodeBody's errors, and those of JustAttributes.
Malformed(block) ==
  \/ block.extra
  \/ Len(block.backoff) > 1
  \/ \E k \in DOMAIN block.backoff : block.backoff[k].extra

BackoffExpressions(i, block) ==
  UNION {{<<i, k, n>> : n \in block.backoff[k].attrs} : k \in DOMAIN block.backoff}

\* Faulty variant: Retry.Expressions without those of Backoff.
OwnExpressions(i, block) == {<<i, 0, n>> : n \in block.attrs}

\* The Expressions methods.
BlockExpressions(i, block) ==
  {<<i, 0, n>> : n \in block.attrs} \cup BackoffExpressions(i, block)

-----------------------------------------------------------------------------
(* NewStepFromHCL.                                                         *)

\* The end of both functions with errors: nothing is returned.
Refuse(with) ==
  /\ stepAt' = "refused"
  /\ diags' = with
  /\ steps' = <<>>

\* The schema is checked first, and alone.  The turns for blocks that are
\* not there do nothing, and are left out.
CheckContent ==
  /\ stepAt = "next" /\ pos <= Len(file)
  /\ fields' = NoFields /\ expressions' = {}
  /\ IF Body.unknown
     THEN Refuse({"content"}) /\ todo' = {}
     ELSE /\ stepAt' = "parse" /\ diags' = {} /\ UNCHANGED steps
          /\ todo' = {part \in Parts :
                        part \in BlockTypes => Blocks(Body, part) # {}}
  /\ UNCHANGED <<file, pos>>

Turn(part) == stepAt = "parse" /\ part \in todo /\ todo' = todo \ {part}

ParseAttributes ==
  /\ Turn("attributes")
  /\ fields' = [name \in Fields |->
                  IF name \in SimpleAttributes THEN Attributes(Body, {name})
                  ELSE fields[name]]
  /\ expressions' = expressions \cup Attributes(Body, SimpleAttributes)
  /\ UNCHANGED <<stepAt, file, pos, diags, steps>>

\* What an attribute with a check of its own comes to.
Checked(name, refused) ==
  /\ diags' = IF refused THEN diags \cup {name} ELSE diags
  /\ expressions' = expressions \cup Attributes(Body, {name})
  /\ UNCHANGED <<file, pos, steps>>

Panic ==
  /\ stepAt' = "panicked"
  /\ steps' = <<>>
  /\ UNCHANGED <<file, pos, diags, fields, expressions>>

ParseCount ==
  /\ Turn("count") /\ "attributes" \notin todo
  /\ IF Has(Body, "count") /\ CountPanics(Body.attrs["count"]) THEN Panic
     ELSE /\ Checked("count", Has(Body, "count") /\ CountRefused(Body.attrs["count"]))
          /\ fields' = [fields EXCEPT !["count"] = Attributes(Body, {"count"})]
          /\ UNCHANGED stepAt

ParseForEach ==
  /\ Turn("for_each") /\ "count" \notin todo
  /\ IF Has(Body, "for_each") /\ ForEachPanics(Body.attrs["for_each"]) THEN Panic
     ELSE /\ Checked("for_each",
                     Has(Body, "for_each") /\ ForEachRefused(Body.attrs["for_each"]))
          /\ fields' = [fields EXCEPT !["for_each"] = Attributes(Body, {"for_each"})]
          /\ UNCHANGED stepAt

\* No field of Step holds it.
ParseDependsOn ==
  /\ Turn("depends_on") /\ "for_each" \notin todo
  /\ Checked("depends_on",
             Has(Body, "depends_on") /\ ~Body.attrs["depends_on"].brackets)
  /\ UNCHANGED <<stepAt, fields>>

\* One block of its name at most, decoded and set, or an error.
ParseUnique(type) ==
  /\ \/ /\ Blocks(Body, type) = {}
        /\ UNCHANGED <<diags, fields, expressions>>
     \/ /\ \/ Duplicate(Body, type)
           \/ \E i \in Blocks(Body, type) : Malformed(Body.blocks[i])
        /\ diags' = diags \cup {type}
        /\ UNCHANGED <<fields, expressions>>
     \/ \E i \in Blocks(Body, type) :
          /\ ~Duplicate(Body, type) /\ ~Malformed(Body.blocks[i])
          /\ fields' = [fields EXCEPT ![type] = BlockExpressions(i, Body.blocks[i])]
          /\ expressions' = expressions \cup BlockExpressions(i, Body.blocks[i])
          /\ UNCHANGED diags
  /\ UNCHANGED <<stepAt, file, pos, steps>>

ParseArguments ==
  /\ Turn("arguments") /\ "depends_on" \notin todo
  /\ ParseUnique("arguments")

\* Faulty variant: allDiags is assigned to, not appended to.
ParseBlockForgets(type) ==
  /\ Turn(type) /\ "arguments" \notin todo
  /\ IF Duplicate(Body, type) \/ \E i \in Blocks(Body, type) : Malformed(Body.blocks[i])
     THEN diags' = {type} /\ UNCHANGED <<stepAt, file, pos, fields, expressions, steps>>
     ELSE ParseUnique(type)

\* A turn of the loop over blockParsers.
ParseBlock(type) ==
  /\ Turn(type) /\ "arguments" \notin todo
  /\ ParseUnique(type)

Conflict == IF Has(Body, "count") /\ Has(Body, "for_each") THEN {"conflict"} ELSE {}

\* Faulty variant: a faulty step is passed over, like a faulty runner.
FinishStepSkips ==
  /\ stepAt = "parse" /\ todo = {}
  /\ IF diags \cup Conflict = {}
     THEN steps' = Append(steps, [fields |-> fields, expressions |-> expressions])
     ELSE UNCHANGED steps
  /\ stepAt' = "next" /\ pos' = pos + 1
  /\ UNCHANGED <<file, todo, diags, fields, expressions>>

\* validateStepLoopingAttributes, and the end.
FinishStep ==
  /\ stepAt = "parse" /\ todo = {}
  /\ IF diags \cup Conflict = {}
     THEN /\ steps' = Append(steps, [fields |-> fields, expressions |-> expressions])
          /\ stepAt' = "next" /\ pos' = pos + 1 /\ UNCHANGED diags
     ELSE Refuse(diags \cup Conflict) /\ UNCHANGED pos
  /\ UNCHANGED <<file, todo, fields, expressions>>

\* newGridFromHCL has come to the end of the file.
AcceptFile ==
  /\ stepAt = "next" /\ pos > Len(file)
  /\ stepAt' = "accepted"
  /\ UNCHANGED <<file, pos, todo, diags, fields, expressions, steps>>

StepNext ==
  \/ CheckContent
  \/ ParseAttributes \/ ParseCount \/ ParseForEach \/ ParseDependsOn
  \/ ParseArguments \/ \E type \in BlockTypes : ParseBlock(type)
  \/ FinishStep \/ AcceptFile

StepSpec == StepInit /\ [][StepNext]_stepVars

-----------------------------------------------------------------------------
(* Properties                                                              *)

\* The state of the parser of a file.
StepTypeOK ==
  /\ stepAt \in {"next", "parse", "accepted", "refused", "panicked"}
  /\ \A i \in DOMAIN file : IsBody(file[i])
  /\ pos \in 1..Len(file) + 1
  /\ todo \in SUBSET Parts
  /\ diags \in SUBSET (Parts \cup {"content", "conflict"})
  /\ fields \in [Fields -> SUBSET Places]
  /\ expressions \in SUBSET Places
  /\ steps \in Seq([fields : [Fields -> SUBSET Places], expressions : SUBSET Places])

\* Every expression that is written in a step, wherever it is.
WrittenInBlocks(body, types) ==
  UNION {LET block == body.blocks[i]
             inside(k) == IF k = 0 THEN block.attrs ELSE block.backoff[k].attrs
         IN UNION {{<<i, k, n>> : n \in inside(k)} : k \in 0..Len(block.backoff)}
         : i \in {j \in DOMAIN body.blocks : body.blocks[j].type \in types}}

Written(body, names) ==
  {<<0, 0, n>> : n \in names \cap DOMAIN body.attrs \cap StepAttributes}
    \cup WrittenInBlocks(body, names \cap (BlockTypes \cup {"arguments"}))

\* What a step has to be, by its parts.
Sound(body, part) ==
  CASE part = "count" ->
         Has(body, part) => LET v == body.attrs[part] IN
                              v.open \/ (v.type = "number" /\ v.whole /\ ~v.null)
    [] part = "for_each" ->
         Has(body, part) => LET v == body.attrs[part] IN
                              \/ v.open \/ v.type \in {"set", "map"}
                              \/ v.type \in {"tuple", "list"} /\ v.strings /\ ~v.null
    [] part = "depends_on" -> Has(body, part) => body.attrs[part].brackets
    [] part = "attributes" -> TRUE
    [] part = "content" -> ~body.unknown
    [] part = "conflict" -> ~(Has(body, "count") /\ Has(body, "for_each"))
    [] OTHER ->
         \A i \in DOMAIN body.blocks : LET block == body.blocks[i] IN
           block.type = part =>
             /\ ~block.extra /\ Len(block.backoff) <= 1
             /\ \A k \in DOMAIN block.backoff : ~block.backoff[k].extra
             /\ \A j \in DOMAIN body.blocks : body.blocks[j].type = part => i = j

Aspects == Parts \cup {"content", "conflict"}

\* The dependency analysis looks at step.Expressions only: a step that is
\* returned has every expression of its source in it, those of nested blocks
\* and of a backoff inside them too, and each field holds its own; and a file
\* is returned with all of its steps, each of them sound, or not at all.
NoExpressionIsLost ==
  /\ \A i \in DOMAIN steps :
       /\ steps[i].expressions = Written(file[i], StepAttributes \cup Fields)
       /\ \A name \in Fields : steps[i].fields[name] = Written(file[i], {name})
       /\ \A part \in Aspects : Sound(file[i], part)
  /\ stepAt = "accepted" => Len(steps) = Len(file)
  /\ stepAt \in {"refused", "panicked"} => steps = <<>>

\* A count or for_each that is null where a number or a list is expected.
NullLoop(body) ==
  \/ Has(body, "count") /\ LET v == body.attrs["count"] IN
       ~v.open /\ v.null /\ v.type = "number"
  \/ Has(body, "for_each") /\ LET v == body.attrs["for_each"] IN
       ~v.open /\ v.null /\ v.type \in {"tuple", "list"}

\* What becomes of a file that is not accepted is decided by its first step
\* that is not sound, whatever else is wrong with that step, in whatever
\* order it is found, and whatever follows: a null loop panics, and the rest
\* is refused.
FirstFaultDecides ==
  stepAt \in {"refused", "panicked"} =>
    /\ \A i \in 1..pos - 1, part \in Aspects : Sound(file[i], part)
    /\ \E part \in Aspects : ~Sound(Body, part)
    /\ (stepAt = "panicked") = (~Body.unknown /\ NullLoop(Body))

\* A refused step is told of everything that is wrong with it, in whatever
\* order the parsers ran, and of nothing else; only an unknown attribute or
\* block is told of alone.
EveryFaultIsTold ==
  stepAt = "refused" =>
    IF Body.unknown THEN diags = {"content"}
    ELSE diags = {part \in Aspects : ~Sound(Body, part)}

=============================================================================
