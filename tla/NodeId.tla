------------------------------- MODULE NodeId -------------------------------
(***************************************************************************)
(* internal/nodeid: addresses and their texts.  Both stores keep nodes     *)
(* under Address.String(); the topology store turns keys back into         *)
(* addresses with Parse.                                                   *)
(*                                                                         *)
(* A text is the sequence of its parts between the dots, one part at       *)
(* least.  A part is a name with the digits between brackets, none when    *)
(* there are no brackets, or one of three marks: Blank for "", Dash for    *)
(* the name "-", Garbled for what the regular expression does not match.   *)
(***************************************************************************)
EXTENDS Integers, Sequences, SequencesExt

CONSTANTS IdNames,    \* names that Parse accepts
          Dash, Blank, Garbled,
          Base,       \* of the digits
          MaxDigits,  \* of a text, where they are enumerated
          MaxIndex,   \* the largest int; texts may name larger ones
          MaxParts,   \* parts of an enumerated text or address
          Failed      \* Parse's error

ASSUME IdAssumption ==
  /\ {Dash, Blank, Garbled} \cap IdNames = {}
  /\ Base \in Nat \ {0, 1} /\ MaxIndex \in Nat
  /\ MaxDigits \in Nat /\ MaxParts \in Nat

Digits == UNION {[1..k -> 0..Base - 1] : k \in 1..MaxDigits}

Part(name, digits) == [name |-> name, digits |-> digits]

\* Texts to parse; the addresses that texts can name; and addresses that are
\* built with NewPathSegment and NewPathSegmentWithIndex, which look at
\* nothing: a name may be a text with dots and brackets, an index negative.
Texts ==
  SeqOf({Part(n, d) : n \in IdNames \cup {Dash}, d \in Digits \cup {<<>>}}
          \cup {Part(Blank, <<>>), Part(Garbled, <<>>)}, MaxParts) \ {<<>>}

Plain == IdNames \cup {Dash, Blank, Garbled}

WellNamed ==
  SeqOf([name : IdNames, index : -1..MaxIndex], MaxParts) \ {<<>>}

Built ==
  SeqOf([name : Plain \cup {<<Part(n, <<>>), Part(m, <<>>)>> : n, m \in IdNames}
                      \cup {<<Part(n, d)>> : n \in IdNames, d \in Digits},
         index : -2..1], MaxParts)

-----------------------------------------------------------------------------

\* Atoi, digit by digit; and %d for numbers that are not negative.
Value(digits) ==
  LET v[k \in 0..Len(digits)] == IF k = 0 THEN 0 ELSE v[k - 1] * Base + digits[k]
  IN v[Len(digits)]

Decimal[i \in Nat] ==
  IF i < Base THEN <<i>> ELSE Append(Decimal[i \div Base], i % Base)

TextOf(name) == IF name \in Plain THEN <<Part(name, <<>>)>> ELSE name

\* A part with brackets behind it.  After nothing, after brackets or around a
\* minus they make a part that Parse does not match.
Bracketed(part, i) ==
  IF i < 0 \/ part.name \in {Blank, Garbled} \/ part.digits # <<>>
  THEN Part(Garbled, <<>>) ELSE Part(part.name, Decimal[i])

\* Faulty variant: an index of 0 counts as none.
RenderPositive(segment) ==
  LET parts == TextOf(segment.name)
  IN IF segment.index <= 0 THEN parts
     ELSE Append(Front(parts), Bracketed(Last(parts), segment.index))

\* One turn of String's loop.
Render(segment) ==
  LET parts == TextOf(segment.name)
  IN IF segment.index = -1 THEN parts
     ELSE Append(Front(parts), Bracketed(Last(parts), segment.index))

String(address) ==
  LET sb[k \in 0..Len(address)] ==
        IF k = 0 THEN <<>> ELSE sb[k - 1] \o Render(address[k])
  IN IF address = <<>> THEN <<Part(Blank, <<>>)>> ELSE sb[Len(address)]

\* Empty parts, parts that do not match, the name "-", and numbers that
\* Atoi refuses.
Refused(part) ==
  \/ part.name \in {Blank, Garbled, Dash}
  \/ part.digits # <<>> /\ Value(part.digits) > MaxIndex

\* Faulty variant: the index is the first digit.
ParseOneDigit(text) ==
  IF \E i \in DOMAIN text : Refused(text[i]) THEN Failed
  ELSE [i \in DOMAIN text |->
          [name |-> text[i].name,
           index |-> IF text[i].digits = <<>> THEN -1 ELSE text[i].digits[1]]]

Parse(text) ==
  IF \E i \in DOMAIN text : Refused(text[i]) THEN Failed
  ELSE [i \in DOMAIN text |->
          [name |-> text[i].name,
           index |-> IF text[i].digits = <<>> THEN -1 ELSE Value(text[i].digits)]]

-----------------------------------------------------------------------------
(* The way of an address through the topology store: parsed or built, its  *)
(* key as a dependency, and back.                                          *)

VARIABLES idAt,     \* how far it is
          raw,      \* the text given to Parse
          address,  \* the address
          key,      \* the store's key for it
          back      \* what DependenciesOf makes of the key

idVars == <<idAt, raw, address, key, back>>

IdInit ==
  /\ key = <<>> /\ back = <<>>
  /\ \/ idAt = "raw" /\ raw \in Texts /\ address = <<>>
     \/ idAt = "held" /\ raw = <<>> /\ address \in Built

ParseRaw ==
  /\ idAt = "raw"
  /\ address' = Parse(raw)
  /\ idAt' = IF address' = Failed THEN "failed" ELSE "held"
  /\ UNCHANGED <<raw, key, back>>

AddDependency ==
  /\ idAt = "held"
  /\ key' = String(address)
  /\ idAt' = "stored"
  /\ UNCHANGED <<raw, address, back>>

DependenciesOf ==
  /\ idAt = "stored"
  /\ back' = Parse(key)
  /\ idAt' = "read"
  /\ UNCHANGED <<raw, address, key>>

IdNext == ParseRaw \/ AddDependency \/ DependenciesOf

IdSpec == IdInit /\ [][IdNext]_idVars

-----------------------------------------------------------------------------
(* Properties                                                              *)

\* An address that was parsed comes back as it went in, whatever its text
\* looked like, and so does a built one with names and indices a text can
\* have (store.go 137: the error there is for keys nobody wrote).
ReadBackIsSame ==
  idAt = "read" /\ (raw # <<>> \/ address \in WellNamed) => back = address

\* Nodes share a key only if they have the same address.
KeyTellsAddress ==
  idAt = "stored" /\ (raw # <<>> \/ address \in WellNamed) =>
    \A other \in WellNamed : String(other) = key => other = address

\* No number has a needless zero in front.
Canonical(text) ==
  \A i \in DOMAIN text : Len(text[i].digits) > 1 => text[i].digits[1] # 0

\* Whatever was built, with dots or brackets in its names, an address read
\* back has the key it was read from: what the graph looks up next is the
\* entry it was told of.
ReadBackHasKey ==
  idAt = "read" /\ back # Failed /\ Canonical(key) => String(back) = key

=============================================================================
