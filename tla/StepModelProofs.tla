--------------------------- MODULE StepModelProofs ---------------------------
(***************************************************************************)
(* Proofs about StepModel, for grid files of any length, whose steps have  *)
(* any number of blocks, and for every order of the parsers.               *)
(*                                                                         *)
(* While a step is parsed, the diagnostics are those of the parts that are *)
(* done, and while there are none, step.Expressions is what is written in  *)
(* these parts, and each field what is written in its own.                 *)
(***************************************************************************)
EXTENDS StepModel, TLAPS

\* The attributes and blocks a part of the parser looks at.
Own(part) == IF part = "attributes" THEN SimpleAttributes ELSE {part}

PartOf(name) == IF name \in SimpleAttributes THEN "attributes" ELSE name

\* The step at hand.
Parsing ==
  stepAt = "parse" =>
    /\ pos <= Len(file) /\ ~Body.unknown
    /\ diags = {part \in Parts \ todo : ~Sound(Body, part)}
    /\ diags = {} =>
         expressions = UNION {Written(Body, Own(part)) : part \in Parts \ todo}
    /\ \A name \in Fields :
         PartOf(name) \notin todo /\ Sound(Body, PartOf(name)) =>
           fields[name] = Written(Body, {name})
    /\ \A name \in Fields : PartOf(name) \in todo => fields[name] = {}

IsRight(step, body) ==
  /\ step.expressions = Written(body, StepAttributes \cup Fields)
  /\ \A name \in Fields : step.fields[name] = Written(body, {name})
  /\ \A part \in Aspects : Sound(body, part)

\* The steps that are done.
Made ==
  /\ \A i \in DOMAIN steps : i < pos /\ IsRight(steps[i], file[i])
  /\ stepAt \in {"next", "parse", "accepted"} => Len(steps) = pos - 1
  /\ stepAt = "accepted" => pos = Len(file) + 1
  /\ stepAt \in {"refused", "panicked"} => steps = <<>>

Told ==
  stepAt = "refused" =>
    /\ pos <= Len(file)
    /\ Body.unknown => diags = {"content"}
    /\ ~Body.unknown => diags = {part \in Aspects : ~Sound(Body, part)}

IInv == file \in Files /\ StepTypeOK /\ Parsing /\ Made /\ Told

-----------------------------------------------------------------------------
(* Names.                                                                  *)

Special == {"count", "for_each", "depends_on", "arguments"}

LEMMA NamesApart ==
  /\ SimpleAttributes \cap BlockTypes = {}
  /\ SimpleAttributes \cap Special = {}
  /\ BlockTypes \cap Special = {}
  /\ "attributes" \notin SimpleAttributes \cup BlockTypes \cup Special
  /\ {"content", "conflict"} \cap (SimpleAttributes \cup BlockTypes \cup Special \cup {"attributes"}) = {}
BY DEF SimpleAttributes, BlockTypes, BlockFields, Special

LEMMA NamesSorted ==
  /\ Parts = {"attributes"} \cup Special \cup BlockTypes
  /\ Fields = SimpleAttributes \cup {"count", "for_each", "arguments"} \cup BlockTypes
  /\ StepAttributes = SimpleAttributes \cup {"count", "for_each", "depends_on"}
BY DEF Parts, Fields, StepAttributes, Special

LEMMA NamesKnown ==
  /\ StepAttributes \subseteq AttributeNames
  /\ Backoff \subseteq AttributeNames
  /\ \A type \in BlockTypes : BlockFields[type] \subseteq AttributeNames
BY DEF AttributeNames

LEMMA PartsOfNames ==
  /\ \A name \in Fields : PartOf(name) \in Parts /\ name \in Own(PartOf(name))
  /\ UNION {Own(part) : part \in Parts} = StepAttributes \cup Fields
<1>1. \A name \in Fields : PartOf(name) \in Parts /\ name \in Own(PartOf(name))
  BY NamesApart, NamesSorted DEF PartOf, Own, Special
<1>2. Special \subseteq StepAttributes \cup Fields
  <2>1. "count" \in StepAttributes /\ "for_each" \in StepAttributes
    BY NamesSorted
  <2>2. "depends_on" \in StepAttributes /\ "arguments" \in Fields
    BY NamesSorted
  <2> QED
    BY <2>1, <2>2 DEF Special
<1>3. ASSUME NEW part \in Parts
      PROVE  Own(part) \subseteq StepAttributes \cup Fields
  <2>1. CASE part = "attributes"
    BY <2>1, NamesSorted DEF Own
  <2>2. CASE part # "attributes"
    <3>1. part \in StepAttributes \cup Fields
      BY <2>2, <1>2, NamesSorted
    <3> QED
      BY <2>2, <3>1 DEF Own
  <2> QED
    BY <2>1, <2>2
<1>4. ASSUME NEW name \in StepAttributes \cup Fields
      PROVE  \E part \in Parts : name \in Own(part)
  <2>1. CASE name \in SimpleAttributes
    BY <2>1, NamesSorted DEF Own
  <2>2. CASE name \notin SimpleAttributes
    <3>1. name \in Special \cup BlockTypes
      BY <2>2, NamesSorted DEF Special
    <3>2. name \in Parts /\ name \in Own(name)
      BY <3>1, NamesApart, NamesSorted DEF Own
    <3> QED
      BY <3>2
  <2> QED
    BY <2>1, <2>2
<1> QED
  BY <1>1, <1>3, <1>4

-----------------------------------------------------------------------------
(* What is written in a step.                                              *)

LEMMA WrittenBy ==
  ASSUME NEW body, NEW names, NEW e
  PROVE  e \in Written(body, names) <=> \E n \in names : e \in Written(body, {n})
BY DEF Written, WrittenInBlocks

LEMMA WrittenAttributes ==
  ASSUME NEW body, IsBody(body), NEW name \in StepAttributes
  PROVE  Written(body, {name}) = Attributes(body, {name})
<1>1. name \notin BlockTypes \cup {"arguments"}
  BY NamesApart, NamesSorted DEF Special
<1> QED
  BY <1>1 DEF Written, WrittenInBlocks, Attributes

\* A part's attributes and blocks, and the fields it sets.
LEMMA WrittenByParts ==
  ASSUME NEW body
  PROVE  UNION {Written(body, Own(part)) : part \in Parts}
           = Written(body, StepAttributes \cup Fields)
<1>1. ASSUME NEW e
      PROVE  e \in UNION {Written(body, Own(part)) : part \in Parts}
               <=> e \in Written(body, StepAttributes \cup Fields)
  <2>1. e \in Written(body, StepAttributes \cup Fields)
          <=> \E n \in StepAttributes \cup Fields : e \in Written(body, {n})
    BY WrittenBy
  <2>2. \A part \in Parts :
          e \in Written(body, Own(part)) <=> \E n \in Own(part) : e \in Written(body, {n})
    BY WrittenBy
  <2>3. (\E n \in StepAttributes \cup Fields : e \in Written(body, {n}))
          <=> \E part \in Parts : \E n \in Own(part) : e \in Written(body, {n})
    BY PartsOfNames
  <2> QED
    BY <2>1, <2>2, <2>3
<1> QED
  BY <1>1

LEMMA WrittenSimple ==
  ASSUME NEW body, IsBody(body)
  PROVE  Written(body, SimpleAttributes) = Attributes(body, SimpleAttributes)
<1>1. SimpleAttributes \cap (BlockTypes \cup {"arguments"}) = {}
  BY NamesApart DEF Special
<1>2. SimpleAttributes \subseteq StepAttributes
  BY NamesSorted
<1> QED
  BY <1>1, <1>2 DEF Written, WrittenInBlocks, Attributes

\* A block that is the only one of its name.
LEMMA WrittenOnce ==
  ASSUME NEW body, IsBody(body), NEW type \in BlockTypes \cup {"arguments"},
         NEW i \in Blocks(body, type), ~Duplicate(body, type)
  PROVE  Written(body, {type}) = BlockExpressions(i, body.blocks[i])
<1>1. type \notin StepAttributes
  BY NamesApart, NamesSorted DEF Special
<1>2. \A j \in DOMAIN body.blocks : body.blocks[j].type \in {type} <=> j = i
  BY DEF Duplicate, Blocks
<1>3. Written(body, {type}) = WrittenInBlocks(body, {type})
  BY <1>1 DEF Written
<1> DEFINE block == body.blocks[i]
           inside(k) == IF k = 0 THEN block.attrs ELSE block.backoff[k].attrs
<1>4. WrittenInBlocks(body, {type})
        = UNION {{<<i, k, n>> : n \in inside(k)} : k \in 0..Len(block.backoff)}
  BY <1>2 DEF WrittenInBlocks, Blocks
<1>5. DOMAIN block.backoff = 1..Len(block.backoff)
  BY DEF IsBody, IsBlock, Blocks
<1>6. ASSUME NEW e
      PROVE  e \in UNION {{<<i, k, n>> : n \in inside(k)} : k \in 0..Len(block.backoff)}
               <=> e \in BlockExpressions(i, block)
  BY <1>5 DEF BlockExpressions, BackoffExpressions
<1> QED
  BY <1>3, <1>4, <1>6

LEMMA WrittenNever ==
  ASSUME NEW body, NEW type \in BlockTypes \cup {"arguments"}, Blocks(body, type) = {}
  PROVE  Written(body, {type}) = {}
<1>1. type \notin StepAttributes
  BY NamesApart, NamesSorted DEF Special
<1> QED
  BY <1>1 DEF Written, WrittenInBlocks, Blocks

-----------------------------------------------------------------------------
(* What the code refuses is what is not sound.                             *)

LEMMA SoundLoops ==
  ASSUME NEW body, IsBody(body)
  PROVE  /\ Sound(body, "attributes")
         /\ Sound(body, "content") <=> ~body.unknown
         /\ Sound(body, "conflict") <=> ~(Has(body, "count") /\ Has(body, "for_each"))
         /\ Sound(body, "depends_on")
              <=> (Has(body, "depends_on") => body.attrs["depends_on"].brackets)
         /\ ~(Has(body, "count") /\ CountPanics(body.attrs["count"])) =>
              (Sound(body, "count")
                 <=> ~(Has(body, "count") /\ CountRefused(body.attrs["count"])))
         /\ ~(Has(body, "for_each") /\ ForEachPanics(body.attrs["for_each"])) =>
              (Sound(body, "for_each")
                 <=> ~(Has(body, "for_each") /\ ForEachRefused(body.attrs["for_each"])))
<1>1. /\ Sound(body, "attributes")
      /\ Sound(body, "content") <=> ~body.unknown
      /\ Sound(body, "conflict") <=> ~(Has(body, "count") /\ Has(body, "for_each"))
      /\ Sound(body, "depends_on")
           <=> (Has(body, "depends_on") => body.attrs["depends_on"].brackets)
  BY DEF Sound
<1>2. ASSUME ~(Has(body, "count") /\ CountPanics(body.attrs["count"]))
      PROVE  Sound(body, "count")
               <=> ~(Has(body, "count") /\ CountRefused(body.attrs["count"]))
  BY <1>2 DEF Sound, CountPanics, CountRefused
<1>3. ASSUME ~(Has(body, "for_each") /\ ForEachPanics(body.attrs["for_each"]))
      PROVE  Sound(body, "for_each")
               <=> ~(Has(body, "for_each") /\ ForEachRefused(body.attrs["for_each"]))
  BY <1>3 DEF Sound, ForEachPanics, ForEachRefused, IsBody, Values, Types, Has
<1> QED
  BY <1>1, <1>2, <1>3

LEMMA SoundBlocks ==
  ASSUME NEW body, IsBody(body), NEW type \in BlockTypes \cup {"arguments"}
  PROVE  Sound(body, type)
           <=> ~(Duplicate(body, type) \/ \E i \in Blocks(body, type) : Malformed(body.blocks[i]))
<1>1. type \notin {"count", "for_each", "depends_on", "attributes", "content", "conflict"}
  BY NamesApart DEF Special
<1>2. \A i \in DOMAIN body.blocks : Len(body.blocks[i].backoff) \in Nat
  BY DEF IsBody, IsBlock
<1>3. Sound(body, type) <=>
        \A i \in DOMAIN body.blocks : LET block == body.blocks[i] IN
           block.type = type =>
             /\ ~block.extra /\ Len(block.backoff) <= 1
             /\ \A k \in DOMAIN block.backoff : ~block.backoff[k].extra
             /\ \A j \in DOMAIN body.blocks : body.blocks[j].type = type => i = j
  BY <1>1 DEF Sound
<1> QED
  BY <1>2, <1>3 DEF Duplicate, Blocks, Malformed

-----------------------------------------------------------------------------
(* One part of a step.                                                     *)

LEMMA BodyIsTyped == ASSUME IInv, pos <= Len(file) PROVE IsBody(Body)
BY FilesAssumption DEF IInv, StepTypeOK, Body

LEMMA PartDone ==
  ASSUME IInv, NEW part \in Parts, Turn(part), stepAt' = "parse",
         UNCHANGED <<file, pos, steps>>,
         diags' = IF Sound(Body, part) THEN diags ELSE diags \cup {part},
         Sound(Body, part) => expressions' = expressions \cup Written(Body, Own(part)),
         fields' \in [Fields -> SUBSET Places], expressions' \in SUBSET Places,
         \A name \in Fields :
           IF PartOf(name) # part THEN fields'[name] = fields[name]
           ELSE Sound(Body, part) => fields'[name] = Written(Body, {name})
  PROVE  IInv'
<1> USE DEF IInv, Turn
<1>1. Body' = Body
  BY DEF Body
<1>2. StepTypeOK'
  BY DEF StepTypeOK
<1>3. Parsing'
  <2>1. pos' <= Len(file') /\ ~Body'.unknown
    BY <1>1 DEF Parsing
  <2>2. diags' = {p \in Parts \ todo' : ~Sound(Body, p)}
    BY DEF Parsing
  <2>3. ASSUME diags' = {}
        PROVE  expressions' = UNION {Written(Body, Own(p)) : p \in Parts \ todo'}
    <3>1. Sound(Body, part) /\ diags = {}
      BY <2>3
    <3>2. Parts \ todo' = (Parts \ todo) \cup {part}
      OBVIOUS
    <3> QED
      BY <3>1, <3>2 DEF Parsing
  <2>4. \A name \in Fields :
          PartOf(name) \notin todo' /\ Sound(Body, PartOf(name)) =>
            fields'[name] = Written(Body, {name})
    BY DEF Parsing
  <2>5. \A name \in Fields : PartOf(name) \in todo' => fields'[name] = {}
    BY DEF Parsing
  <2> QED
    BY <1>1, <2>1, <2>2, <2>3, <2>4, <2>5 DEF Parsing
<1>4. Made' /\ Told'
  BY DEF Made, Told
<1> QED
  BY <1>2, <1>3, <1>4

LEMMA AttributesTyped ==
  ASSUME NEW body, IsBody(body), NEW names
  PROVE  Attributes(body, names) \in SUBSET Places
BY NamesKnown DEF IsBody, Attributes, Places

LEMMA BlocksTyped ==
  ASSUME NEW body, IsBody(body), NEW i \in DOMAIN body.blocks
  PROVE  BlockExpressions(i, body.blocks[i]) \in SUBSET Places
<1> DEFINE block == body.blocks[i]
<1>1. i \in Nat /\ IsBlock(block)
  BY DEF IsBody
<1>2. block.attrs \subseteq AttributeNames
  <2>1. ArgumentNames \subseteq AttributeNames
    BY DEF AttributeNames
  <2> QED
    BY <1>1, <2>1, NamesKnown DEF IsBlock
<1>3. \A k \in DOMAIN block.backoff : k \in Nat /\ block.backoff[k].attrs \subseteq AttributeNames
  BY <1>1, NamesKnown DEF IsBlock
<1> HIDE DEF block
<1>4. BackoffExpressions(i, block) \subseteq Places
  BY <1>1, <1>3 DEF BackoffExpressions, Places
<1> QED
  BY <1>1, <1>2, <1>4 DEF BlockExpressions, Places, block

\* A parser panics: nothing is returned.
LEMMA PanicPreserves ==
  ASSUME IInv, NEW part \in Parts, Turn(part), Panic
  PROVE  IInv'
<1> USE DEF IInv, Panic, Turn
<1>1. StepTypeOK'
  BY DEF StepTypeOK
<1>2. Parsing' /\ Made' /\ Told'
  BY DEF Parsing, Made, Told
<1> QED
  BY <1>1, <1>2

LEMMA AttributesPreserve == IInv /\ ParseAttributes => IInv'
<1> SUFFICES ASSUME IInv, ParseAttributes PROVE IInv'
  OBVIOUS
<1>1. stepAt = "parse" /\ stepAt' = "parse" /\ pos <= Len(file)
  BY DEF ParseAttributes, Turn, IInv, Parsing
<1>2. IsBody(Body)
  BY <1>1, BodyIsTyped
<1>3. "attributes" \in Parts /\ Own("attributes") = SimpleAttributes
  BY NamesSorted DEF Own
<1>4. Sound(Body, "attributes")
  BY <1>2, SoundLoops
<1>5. expressions' = expressions \cup Written(Body, SimpleAttributes)
  BY <1>2, WrittenSimple DEF ParseAttributes
<1>6. expressions' \in SUBSET Places
  BY <1>2, AttributesTyped DEF ParseAttributes, IInv, StepTypeOK
<1>7. fields' \in [Fields -> SUBSET Places]
  BY <1>2, AttributesTyped DEF ParseAttributes, IInv, StepTypeOK
<1>8. ASSUME NEW name \in Fields
      PROVE  IF PartOf(name) # "attributes" THEN fields'[name] = fields[name]
             ELSE fields'[name] = Written(Body, {name})
  <2>1. PartOf(name) = "attributes" <=> name \in SimpleAttributes
    BY NamesApart, NamesSorted DEF PartOf, Special
  <2>2. name \in SimpleAttributes => Written(Body, {name}) = Attributes(Body, {name})
    BY <1>2, NamesSorted, WrittenAttributes
  <2> QED
    BY <2>1, <2>2 DEF ParseAttributes
<1> QED
  BY <1>1, <1>3, <1>4, <1>5, <1>6, <1>7, <1>8, PartDone DEF ParseAttributes

\* An attribute with a check of its own, when it does not panic.
LEMMA CheckedPreserves ==
  ASSUME IInv, NEW name \in {"count", "for_each", "depends_on"}, Turn(name),
         NEW refused \in BOOLEAN, Checked(name, refused), Sound(Body, name) <=> ~refused,
         stepAt' = stepAt,
         fields' = IF name = "depends_on" THEN fields
                   ELSE [fields EXCEPT ![name] = Attributes(Body, {name})]
  PROVE  IInv'
<1>1. stepAt = "parse" /\ pos <= Len(file)
  BY DEF Turn, IInv, Parsing
<1>2. IsBody(Body)
  BY <1>1, BodyIsTyped
<1>3. name \in Special /\ name \in Parts /\ Own(name) = {name} /\ name \in StepAttributes
  BY NamesApart, NamesSorted DEF Own, Special
<1>4. Written(Body, {name}) = Attributes(Body, {name})
  BY <1>2, <1>3, WrittenAttributes
<1>5. /\ expressions' = expressions \cup Written(Body, Own(name))
      /\ diags' = IF Sound(Body, name) THEN diags ELSE diags \cup {name}
      /\ UNCHANGED <<file, pos, steps>>
  BY <1>3, <1>4 DEF Checked
<1>6. /\ expressions' \in SUBSET Places
      /\ fields' \in [Fields -> SUBSET Places]
  <2>1. /\ fields \in [Fields -> SUBSET Places] /\ expressions \in SUBSET Places
        /\ Attributes(Body, {name}) \in SUBSET Places
    BY <1>2, AttributesTyped DEF IInv, StepTypeOK
  <2> QED
    BY <1>4, <1>5, <1>3, <2>1
<1>7. ASSUME NEW n \in Fields
      PROVE  IF PartOf(n) # name THEN fields'[n] = fields[n]
             ELSE Sound(Body, name) => fields'[n] = Written(Body, {n})
  <2>1. PartOf(n) = name <=> n = name
    BY <1>3, NamesApart, NamesSorted DEF PartOf
  <2>2. n = name => name # "depends_on"
    BY NamesApart, NamesSorted DEF Special
  <2> QED
    BY <1>4, <2>1, <2>2 DEF IInv, StepTypeOK
<1> QED
  BY <1>1, <1>3, <1>5, <1>6, <1>7, PartDone

LEMMA CountPreserves == IInv /\ ParseCount => IInv'
<1> SUFFICES ASSUME IInv, ParseCount PROVE IInv'
  OBVIOUS
<1>1. "count" \in Parts /\ Turn("count")
  BY NamesSorted DEF Special, ParseCount
<1>2. CASE Has(Body, "count") /\ CountPanics(Body.attrs["count"])
  BY <1>1, <1>2, PanicPreserves DEF ParseCount
<1>3. CASE ~(Has(Body, "count") /\ CountPanics(Body.attrs["count"]))
  <2>1. IsBody(Body)
    BY <1>1, BodyIsTyped DEF Turn, IInv, Parsing
  <2> DEFINE refused == Has(Body, "count") /\ CountRefused(Body.attrs["count"])
  <2>2. refused \in BOOLEAN /\ (Sound(Body, "count") <=> ~refused)
    BY <1>3, <2>1, SoundLoops
  <2>3. /\ Checked("count", refused) /\ stepAt' = stepAt
        /\ fields' = [fields EXCEPT !["count"] = Attributes(Body, {"count"})]
    BY <1>3 DEF ParseCount
  <2> HIDE DEF refused
  <2> QED
    BY <1>1, <2>2, <2>3, CheckedPreserves
<1> QED
  BY <1>2, <1>3

LEMMA ForEachPreserves == IInv /\ ParseForEach => IInv'
<1> SUFFICES ASSUME IInv, ParseForEach PROVE IInv'
  OBVIOUS
<1>1. "for_each" \in Parts /\ Turn("for_each")
  BY NamesSorted DEF Special, ParseForEach
<1>2. CASE Has(Body, "for_each") /\ ForEachPanics(Body.attrs["for_each"])
  BY <1>1, <1>2, PanicPreserves DEF ParseForEach
<1>3. CASE ~(Has(Body, "for_each") /\ ForEachPanics(Body.attrs["for_each"]))
  <2>1. IsBody(Body)
    BY <1>1, BodyIsTyped DEF Turn, IInv, Parsing
  <2> DEFINE refused == Has(Body, "for_each") /\ ForEachRefused(Body.attrs["for_each"])
  <2>2. refused \in BOOLEAN /\ (Sound(Body, "for_each") <=> ~refused)
    BY <1>3, <2>1, SoundLoops
  <2>3. /\ Checked("for_each", refused) /\ stepAt' = stepAt
        /\ fields' = [fields EXCEPT !["for_each"] = Attributes(Body, {"for_each"})]
    BY <1>3 DEF ParseForEach
  <2> HIDE DEF refused
  <2> QED
    BY <1>1, <2>2, <2>3, CheckedPreserves
<1> QED
  BY <1>2, <1>3

LEMMA DependsOnPreserves == IInv /\ ParseDependsOn => IInv'
<1> SUFFICES ASSUME IInv, ParseDependsOn PROVE IInv'
  OBVIOUS
<1>1. IsBody(Body)
  BY BodyIsTyped DEF ParseDependsOn, Turn, IInv, Parsing
<1> DEFINE refused == Has(Body, "depends_on") /\ ~Body.attrs["depends_on"].brackets
<1>2. refused \in BOOLEAN /\ (Sound(Body, "depends_on") <=> ~refused)
  BY <1>1, SoundLoops
<1>3. /\ Turn("depends_on") /\ Checked("depends_on", refused) /\ stepAt' = stepAt
      /\ fields' = fields
  BY DEF ParseDependsOn
<1> HIDE DEF refused
<1> QED
  BY <1>2, <1>3, CheckedPreserves

\* The blocks of one name.
LEMMA UniquePreserves ==
  ASSUME IInv, NEW type \in BlockTypes \cup {"arguments"}, Turn(type), ParseUnique(type)
  PROVE  IInv'
<1>1. stepAt = "parse" /\ stepAt' = "parse" /\ pos <= Len(file)
  BY DEF Turn, IInv, Parsing, ParseUnique
<1>2. IsBody(Body)
  BY <1>1, BodyIsTyped
<1>3. /\ type \in Parts /\ type \in Fields /\ Own(type) = {type}
      /\ \A n \in Fields : PartOf(n) = type <=> n = type
  BY NamesApart, NamesSorted DEF Own, PartOf, Special
<1>4. UNCHANGED <<file, pos, steps>>
  BY DEF ParseUnique
<1>5. /\ fields \in [Fields -> SUBSET Places] /\ expressions \in SUBSET Places
      /\ fields[type] = {}
  BY <1>1, <1>3 DEF IInv, StepTypeOK, Parsing, Turn
<1>6. Sound(Body, type)
        <=> ~(Duplicate(Body, type) \/ \E i \in Blocks(Body, type) : Malformed(Body.blocks[i]))
  BY <1>2, SoundBlocks
<1>7. CASE Blocks(Body, type) = {} /\ UNCHANGED <<diags, fields, expressions>>
  <2>1. Sound(Body, type) /\ Written(Body, {type}) = {}
    BY <1>6, <1>7, WrittenNever DEF Duplicate
  <2> QED
    BY <1>1, <1>3, <1>4, <1>5, <1>7, <2>1, PartDone
<1>8. CASE /\ Duplicate(Body, type) \/ \E i \in Blocks(Body, type) : Malformed(Body.blocks[i])
           /\ diags' = diags \cup {type}
           /\ UNCHANGED <<fields, expressions>>
  <2>1. ~Sound(Body, type)
    BY <1>6, <1>8
  <2> QED
    BY <1>1, <1>3, <1>4, <1>5, <1>8, <2>1, PartDone
<1>9. ASSUME NEW i \in Blocks(Body, type), ~Duplicate(Body, type), ~Malformed(Body.blocks[i]),
             fields' = [fields EXCEPT ![type] = BlockExpressions(i, Body.blocks[i])],
             expressions' = expressions \cup BlockExpressions(i, Body.blocks[i]),
             diags' = diags
      PROVE  IInv'
  <2>1. Sound(Body, type)
    BY <1>6, <1>9 DEF Duplicate
  <2>2. /\ BlockExpressions(i, Body.blocks[i]) = Written(Body, {type})
        /\ BlockExpressions(i, Body.blocks[i]) \in SUBSET Places
    BY <1>2, <1>9, WrittenOnce, BlocksTyped DEF Blocks
  <2>3. fields' \in [Fields -> SUBSET Places] /\ expressions' \in SUBSET Places
    BY <1>5, <1>9, <2>2
  <2>4. \A n \in Fields : IF PartOf(n) # type THEN fields'[n] = fields[n]
                          ELSE fields'[n] = Written(Body, {n})
    BY <1>3, <1>5, <1>9, <2>2
  <2> QED
    BY <1>1, <1>3, <1>4, <1>9, <2>1, <2>2, <2>3, <2>4, PartDone
<1> QED
  BY <1>7, <1>8, <1>9 DEF ParseUnique

-----------------------------------------------------------------------------
(* The beginning and the end of a step.                                    *)

LEMMA ContentPreserves == IInv /\ CheckContent => IInv'
<1> SUFFICES ASSUME IInv, CheckContent PROVE IInv'
  OBVIOUS
<1> USE DEF IInv
<1>1. pos <= Len(file) /\ UNCHANGED <<file, pos>> /\ Body' = Body /\ IsBody(Body)
  BY BodyIsTyped DEF CheckContent, Body
<1>2. fields' = NoFields /\ NoFields \in [Fields -> SUBSET Places] /\ expressions' = {}
  BY DEF CheckContent, NoFields
<1>3. CASE Body.unknown
  <2>1. stepAt' = "refused" /\ diags' = {"content"} /\ steps' = <<>> /\ todo' = {}
    BY <1>3 DEF CheckContent, Refuse
  <2>2. StepTypeOK'
    BY <1>1, <1>2, <2>1 DEF StepTypeOK
  <2>3. Parsing' /\ Made' /\ Told'
    BY <1>1, <1>3, <2>1 DEF Parsing, Made, Told
  <2> QED
    BY <1>1, <2>2, <2>3
<1>4. CASE ~Body.unknown
  <2>1. /\ stepAt = "next" /\ stepAt' = "parse" /\ diags' = {} /\ steps' = steps
        /\ todo' = {part \in Parts : part \in BlockTypes => Blocks(Body, part) # {}}
    BY <1>4 DEF CheckContent
  <2>2. StepTypeOK'
    BY <1>1, <1>2, <2>1 DEF StepTypeOK
  <2>3. \A part \in Parts \ todo' :
          part \in BlockTypes /\ Sound(Body, part) /\ Written(Body, Own(part)) = {}
    <3> SUFFICES ASSUME NEW part \in Parts \ todo'
                 PROVE  part \in BlockTypes /\ Sound(Body, part) /\ Written(Body, Own(part)) = {}
      OBVIOUS
    <3>1. part \in BlockTypes /\ Blocks(Body, part) = {}
      BY <2>1
    <3>2. Own(part) = {part}
      BY <3>1, NamesApart DEF Own
    <3> QED
      BY <1>1, <3>1, <3>2, SoundBlocks, WrittenNever DEF Duplicate
  <2>4. \A name \in Fields : PartOf(name) \notin todo' => Written(Body, {name}) = {}
    <3> SUFFICES ASSUME NEW name \in Fields, PartOf(name) \notin todo'
                 PROVE  Written(Body, {name}) = {}
      OBVIOUS
    <3>1. PartOf(name) \in BlockTypes /\ Written(Body, Own(PartOf(name))) = {}
      BY <2>3, PartsOfNames
    <3>2. Own(PartOf(name)) = {name}
      BY <3>1, NamesApart DEF Own, PartOf
    <3> QED
      BY <3>1, <3>2
  <2>5. Parsing'
    <3>1. diags' = {part \in Parts \ todo' : ~Sound(Body, part)}
      BY <2>1, <2>3
    <3>2. expressions' = UNION {Written(Body, Own(part)) : part \in Parts \ todo'}
      BY <1>2, <2>3
    <3>3. \A name \in Fields : fields'[name] = {}
      BY <1>2 DEF NoFields
    <3> QED
      BY <1>1, <1>4, <2>4, <3>1, <3>2, <3>3 DEF Parsing
  <2>6. Made' /\ Told'
    BY <1>1, <2>1 DEF Made, Told
  <2> QED
    BY <1>1, <2>2, <2>5, <2>6
<1> QED
  BY <1>3, <1>4

LEMMA FinishPreserves == IInv /\ FinishStep => IInv'
<1> SUFFICES ASSUME IInv, FinishStep PROVE IInv'
  OBVIOUS
<1> USE DEF IInv
<1>1. /\ stepAt = "parse" /\ todo = {} /\ pos <= Len(file) /\ ~Body.unknown
      /\ UNCHANGED <<file, todo, fields, expressions>>
      /\ diags = {part \in Parts : ~Sound(Body, part)}
  BY DEF FinishStep, Parsing
<1>2. IsBody(Body)
  BY <1>1, BodyIsTyped
<1>3. Conflict \subseteq {"conflict"} /\ (Conflict = {} <=> Sound(Body, "conflict"))
  BY <1>2, SoundLoops DEF Conflict
<1>4. diags \cup Conflict = {part \in Aspects : ~Sound(Body, part)}
  <2>1. Sound(Body, "content") /\ "conflict" \in Aspects /\ Aspects = Parts \cup {"content", "conflict"}
    BY <1>1, <1>2, SoundLoops DEF Aspects
  <2> QED
    BY <1>1, <1>3, <2>1
<1>5. CASE diags \cup Conflict = {}
  <2> DEFINE step == [fields |-> fields, expressions |-> expressions]
  <2>1. /\ steps' = Append(steps, step) /\ stepAt' = "next" /\ pos' = pos + 1
        /\ diags' = diags
    BY <1>5 DEF FinishStep
  <2>2. step \in [fields : [Fields -> SUBSET Places], expressions : SUBSET Places]
    BY DEF StepTypeOK
  <2>3. IsRight(step, Body)
    <3>1. diags = {} /\ \A part \in Aspects : Sound(Body, part)
      BY <1>4, <1>5
    <3>2. expressions = UNION {Written(Body, Own(part)) : part \in Parts}
      BY <1>1, <3>1 DEF Parsing
    <3>3. \A name \in Fields : fields[name] = Written(Body, {name})
      BY <1>1, <3>1, PartsOfNames DEF Parsing, Aspects
    <3> QED
      BY <3>1, <3>2, <3>3, WrittenByParts DEF IsRight
  <2> HIDE DEF step
  <2>4. StepTypeOK'
    BY <1>1, <2>1, <2>2 DEF StepTypeOK
  <2>5. Len(steps) = pos - 1 /\ pos \in Nat /\ Len(steps) \in Nat
    BY <1>1 DEF Made, StepTypeOK
  <2>6. \A i \in DOMAIN steps' :
          \/ i \in DOMAIN steps /\ steps'[i] = steps[i]
          \/ i = pos /\ steps'[i] = step
    BY <2>1, <2>2, <2>5 DEF StepTypeOK
  <2>7. \A i \in DOMAIN steps' : i < pos' /\ IsRight(steps'[i], file[i])
    BY <2>1, <2>3, <2>5, <2>6 DEF Made, Body
  <2>8. Len(steps') = pos' - 1
    BY <2>1, <2>2, <2>5 DEF StepTypeOK
  <2>9. Parsing' /\ Made' /\ Told'
    BY <1>1, <2>1, <2>7, <2>8 DEF Parsing, Made, Told
  <2> QED
    BY <1>1, <2>4, <2>9
<1>6. CASE diags \cup Conflict # {}
  <2>1. /\ stepAt' = "refused" /\ steps' = <<>> /\ pos' = pos /\ Body' = Body
        /\ diags' = {part \in Aspects : ~Sound(Body, part)}
    BY <1>1, <1>4, <1>6 DEF FinishStep, Refuse, Body
  <2>2. StepTypeOK'
    BY <1>1, <2>1 DEF StepTypeOK, Aspects
  <2>3. Parsing' /\ Made' /\ Told'
    BY <1>1, <2>1 DEF Parsing, Made, Told
  <2> QED
    BY <1>1, <2>2, <2>3
<1> QED
  BY <1>5, <1>6

LEMMA AcceptPreserves == IInv /\ AcceptFile => IInv'
<1> SUFFICES ASSUME IInv, AcceptFile PROVE IInv'
  OBVIOUS
<1> USE DEF IInv, AcceptFile
<1>1. StepTypeOK'
  BY DEF StepTypeOK
<1>2. pos = Len(file) + 1
  BY DEF StepTypeOK
<1>3. Parsing' /\ Made' /\ Told'
  BY <1>2 DEF Parsing, Made, Told
<1> QED
  BY <1>1, <1>3

LEMMA InitHolds == StepInit => IInv
<1> SUFFICES ASSUME StepInit PROVE IInv
  OBVIOUS
<1>1. file \in Files /\ Len(file) \in Nat /\ \A i \in DOMAIN file : IsBody(file[i])
  BY FilesAssumption DEF StepInit
<1>2. pos \in 1..Len(file) + 1
  BY <1>1 DEF StepInit
<1>3. StepTypeOK
  BY <1>1, <1>2 DEF StepInit, StepTypeOK, NoFields
<1>4. Parsing /\ Told
  BY DEF StepInit, Parsing, Told
<1>5. Made
  BY DEF StepInit, Made
<1> QED
  BY <1>1, <1>3, <1>4, <1>5 DEF IInv

LEMMA Inductive == StepSpec => []IInv
<1>1. IInv /\ [StepNext]_stepVars => IInv'
  <2> SUFFICES ASSUME IInv, [StepNext]_stepVars PROVE IInv'
    OBVIOUS
  <2>1. CASE CheckContent
    BY <2>1, ContentPreserves
  <2>2. CASE ParseAttributes
    BY <2>2, AttributesPreserve
  <2>3. CASE ParseCount
    BY <2>3, CountPreserves
  <2>4. CASE ParseForEach
    BY <2>4, ForEachPreserves
  <2>5. CASE ParseDependsOn
    BY <2>5, DependsOnPreserves
  <2>6. CASE ParseArguments
    BY <2>6, UniquePreserves DEF ParseArguments
  <2>7. CASE \E type \in BlockTypes : ParseBlock(type)
    BY <2>7, UniquePreserves DEF ParseBlock
  <2>8. CASE FinishStep
    BY <2>8, FinishPreserves
  <2>9. CASE AcceptFile
    BY <2>9, AcceptPreserves
  <2>10. CASE UNCHANGED stepVars
    <3>1. StepTypeOK'
      BY <2>10 DEF stepVars, IInv, StepTypeOK
    <3>2. Parsing' /\ Made' /\ Told'
      BY <2>10 DEF stepVars, IInv, Parsing, Made, Told, Body
    <3> QED
      BY <2>10, <3>1, <3>2 DEF stepVars, IInv
  <2> QED
    BY <2>1, <2>2, <2>3, <2>4, <2>5, <2>6, <2>7, <2>8, <2>9, <2>10 DEF StepNext
<1> QED
  BY <1>1, InitHolds, PTL DEF StepSpec

-----------------------------------------------------------------------------

\* The parser of grid files keeps the types of its locals.
THEOREM StepTypes == StepSpec => []StepTypeOK
<1>1. IInv => StepTypeOK
  BY DEF IInv
<1> QED
  BY <1>1, Inductive, PTL

\* A step that newGridFromHCL returns has every expression of its source,
\* and is sound in all of its parts; a file is returned whole or not at all.
THEOREM ExpressionsKept == StepSpec => []NoExpressionIsLost
<1>1. IInv => NoExpressionIsLost
  <2> SUFFICES ASSUME IInv PROVE NoExpressionIsLost
    OBVIOUS
  <2>1. stepAt = "accepted" => Len(steps) = Len(file)
    BY DEF IInv, Made, StepTypeOK
  <2> QED
    BY <2>1 DEF NoExpressionIsLost, IInv, Made, IsRight
<1> QED
  BY <1>1, Inductive, PTL

\* NewStepFromHCL tells of all that is wrong with a step, whatever the order
\* of its parsers.
THEOREM FaultsTold == StepSpec => []EveryFaultIsTold
<1>1. IInv => EveryFaultIsTold
  BY DEF IInv, Told, EveryFaultIsTold
<1> QED
  BY <1>1, Inductive, PTL

-----------------------------------------------------------------------------
(* What decides over a file that is not accepted.                          *)

CountIsNull(body) == Has(body, "count") /\ CountPanics(body.attrs["count"])
ForEachIsNull(body) == Has(body, "for_each") /\ ForEachPanics(body.attrs["for_each"])

EarlierAreSound == \A i \in 1..pos - 1, part \in Aspects : Sound(file[i], part)

\* A null loop that the parsers have passed does not exist.
Decided ==
  /\ stepAt = "parse" => /\ "count" \notin todo => ~CountIsNull(Body)
                         /\ "for_each" \notin todo => ~ForEachIsNull(Body)
  /\ FirstFaultDecides

LEMMA NullLoops ==
  ASSUME NEW body
  PROVE  /\ NullLoop(body) <=> CountIsNull(body) \/ ForEachIsNull(body)
         /\ CountIsNull(body) => ~Sound(body, "count")
         /\ ForEachIsNull(body) => ~Sound(body, "for_each")
<1>1. NullLoop(body) <=> CountIsNull(body) \/ ForEachIsNull(body)
  BY DEF NullLoop, CountIsNull, ForEachIsNull, CountPanics, ForEachPanics
<1>2. CountIsNull(body) => ~Sound(body, "count")
  BY DEF CountIsNull, CountPanics, Sound
<1>3. ForEachIsNull(body) => ~Sound(body, "for_each")
  BY DEF ForEachIsNull, ForEachPanics, Sound
<1> QED
  BY <1>1, <1>2, <1>3

LEMMA StepsBefore == IInv /\ stepAt \in {"next", "parse"} => EarlierAreSound
<1> SUFFICES ASSUME IInv, stepAt \in {"next", "parse"},
                    NEW i \in 1..pos - 1, NEW part \in Aspects
             PROVE  Sound(file[i], part)
  BY DEF EarlierAreSound
<1>1. i \in DOMAIN steps
  BY DEF IInv, Made, StepTypeOK
<1> QED
  BY <1>1 DEF IInv, Made, IsRight

\* The step at hand panics.
LEMMA PanicDecides ==
  ASSUME IInv, stepAt = "parse", Panic, NullLoop(Body)
  PROVE  Decided'
<1>1. /\ stepAt' = "panicked" /\ file' = file /\ pos' = pos /\ Body' = Body
      /\ ~Body.unknown
  BY DEF Panic, Body, IInv, Parsing
<1>2. \E part \in Aspects : ~Sound(Body, part)
  BY NullLoops, NamesSorted DEF Aspects, Special
<1>3. EarlierAreSound
  BY StepsBefore
<1> QED
  BY <1>1, <1>2, <1>3 DEF Decided, FirstFaultDecides, EarlierAreSound

\* The step at hand goes on, and a null loop was not passed.
LEMMA TurnDecides ==
  ASSUME Decided, NEW part \in Parts, Turn(part), stepAt' = "parse",
         UNCHANGED <<file, pos>>,
         part = "count" => ~CountIsNull(Body),
         part = "for_each" => ~ForEachIsNull(Body)
  PROVE  Decided'
<1>1. Body' = Body /\ stepAt = "parse" /\ todo' = todo \ {part}
  BY DEF Body, Turn
<1> QED
  BY <1>1 DEF Decided, FirstFaultDecides

LEMMA StepDecides ==
  ASSUME IInv, IInv', Decided, [StepNext]_stepVars
  PROVE  Decided'
<1>p. /\ {"attributes", "count", "for_each", "depends_on", "arguments"} \subseteq Parts
      /\ BlockTypes \subseteq Parts /\ {"count", "for_each"} \cap BlockTypes = {}
  BY NamesSorted, NamesApart DEF Special
<1>1. CASE CheckContent
  <2>1. /\ stepAt = "next" /\ UNCHANGED <<file, pos>> /\ Body' = Body
        /\ EarlierAreSound
    BY <1>1, StepsBefore DEF CheckContent, Body
  <2>2. CASE Body.unknown
    <3>1. stepAt' = "refused"
      BY <1>1, <2>2 DEF CheckContent, Refuse
    <3>2. "content" \in Aspects /\ ~Sound(Body, "content")
      BY <2>2 DEF Aspects, Sound
    <3> QED
      BY <2>1, <2>2, <3>1, <3>2 DEF Decided, FirstFaultDecides, EarlierAreSound
  <2>3. CASE ~Body.unknown
    <3>1. stepAt' = "parse" /\ "count" \in todo' /\ "for_each" \in todo'
      BY <1>1, <1>p, <2>3 DEF CheckContent
    <3> QED
      BY <3>1 DEF Decided, FirstFaultDecides
  <2> QED
    BY <2>2, <2>3
<1>2. CASE ParseAttributes
  <2>1. Turn("attributes") /\ stepAt' = "parse" /\ UNCHANGED <<file, pos>>
    BY <1>2 DEF ParseAttributes, Turn
  <2> QED
    BY <1>p, <2>1, TurnDecides
<1>3. CASE ParseCount
  <2>1. Turn("count") /\ stepAt = "parse"
    BY <1>3 DEF ParseCount, Turn
  <2>2. CASE CountIsNull(Body)
    BY <1>3, <2>1, <2>2, NullLoops, PanicDecides DEF ParseCount, CountIsNull
  <2>3. CASE ~CountIsNull(Body)
    <3>1. stepAt' = "parse" /\ UNCHANGED <<file, pos>>
      BY <1>3, <2>1, <2>3 DEF ParseCount, CountIsNull, Checked
    <3> QED
      BY <1>p, <2>1, <2>3, <3>1, TurnDecides
  <2> QED
    BY <2>2, <2>3
<1>4. CASE ParseForEach
  <2>1. Turn("for_each") /\ stepAt = "parse"
    BY <1>4 DEF ParseForEach, Turn
  <2>2. CASE ForEachIsNull(Body)
    BY <1>4, <2>1, <2>2, NullLoops, PanicDecides DEF ParseForEach, ForEachIsNull
  <2>3. CASE ~ForEachIsNull(Body)
    <3>1. stepAt' = "parse" /\ UNCHANGED <<file, pos>>
      BY <1>4, <2>1, <2>3 DEF ParseForEach, ForEachIsNull, Checked
    <3> QED
      BY <1>p, <2>1, <2>3, <3>1, TurnDecides
  <2> QED
    BY <2>2, <2>3
<1>5. CASE ParseDependsOn
  <2>1. Turn("depends_on") /\ stepAt' = "parse" /\ UNCHANGED <<file, pos>>
    BY <1>5 DEF ParseDependsOn, Turn, Checked
  <2> QED
    BY <1>p, <2>1, TurnDecides
<1>6. ASSUME NEW type \in {"arguments"} \cup BlockTypes, Turn(type), ParseUnique(type)
      PROVE  Decided'
  <2>1. stepAt' = "parse" /\ UNCHANGED <<file, pos>>
    BY <1>6 DEF ParseUnique, Turn
  <2>2. type \in Parts /\ type \notin {"count", "for_each"}
    BY <1>p
  <2> QED
    BY <1>6, <2>1, <2>2, TurnDecides
<1>7. CASE FinishStep
  <2>1. stepAt = "parse" /\ todo = {} /\ file' = file
    BY <1>7 DEF FinishStep
  <2>2. ~NullLoop(Body)
    BY <2>1, NullLoops DEF Decided
  <2>3. CASE diags \cup Conflict = {}
    <3>1. stepAt' = "next"
      BY <1>7, <2>3 DEF FinishStep
    <3> QED
      BY <3>1 DEF Decided, FirstFaultDecides
  <2>4. CASE diags \cup Conflict # {}
    <3>1. stepAt' = "refused" /\ pos' = pos /\ diags' # {} /\ Body' = Body
      BY <1>7, <2>1, <2>4 DEF FinishStep, Refuse, Body
    <3>2. ~Body.unknown
      BY <2>1 DEF IInv, Parsing
    <3>3. \E part \in Aspects : ~Sound(Body, part)
      BY <3>1, <3>2 DEF IInv, Told
    <3>4. EarlierAreSound
      BY <2>1, StepsBefore
    <3> QED
      BY <2>1, <2>2, <3>1, <3>3, <3>4 DEF Decided, FirstFaultDecides, EarlierAreSound
  <2> QED
    BY <2>3, <2>4
<1>8. CASE AcceptFile
  BY <1>8 DEF AcceptFile, Decided, FirstFaultDecides
<1>9. CASE UNCHANGED stepVars
  BY <1>9 DEF stepVars, Decided, FirstFaultDecides, Body
<1> QED
  BY <1>1, <1>2, <1>3, <1>4, <1>5, <1>6, <1>7, <1>8, <1>9
  DEF StepNext, ParseArguments, ParseBlock

\* A file of any length panics or is refused by what its first unsound step
\* is, in whatever order the parsers ran.
THEOREM FirstFault == StepSpec => []FirstFaultDecides
<1>1. StepInit => Decided
  BY DEF StepInit, Decided, FirstFaultDecides
<1>2. IInv /\ IInv' /\ Decided /\ [StepNext]_stepVars => Decided'
  BY StepDecides
<1>3. Decided => FirstFaultDecides
  BY DEF Decided
<1> QED
  BY <1>1, <1>2, <1>3, Inductive, PTL DEF StepSpec

=============================================================================
