------------------------------ MODULE ExprWalk ------------------------------
(***************************************************************************)
(* internal/bggoexpr/expressions.go: what one analysis of a container      *)
(* finds.  For every expression it takes the variables that HCL reports,   *)
(* and walks the syntax tree for the names of called functions.            *)
(*                                                                         *)
(* An input is a forest: every expression has a parent and a field of it   *)
(* ("slot") that it is in, or is one of the expressions handed to the      *)
(* analysis.  Children that can hold neither a call nor a variable, such   *)
(* as literals, absent fields and names bound by a for, are left out.      *)
(*                                                                         *)
(* The recursion fills a set, so its order is of no consequence: `walking` *)
(* is the set of calls of walkForFunctions that are still to be made.      *)
(***************************************************************************)
EXTENDS Naturals

CONSTANTS Nodes,    \* expressions
          NoExpr,   \* the parent of an expression that has none
          Names,    \* names of functions, and keys of traversals
          Inputs    \* the forests to analyse

\* The fields of hclsyntax's expressions that hold expressions.
Slots ==
  [FunctionCallExpr      |-> {"Args"},
   BinaryOpExpr          |-> {"LHS", "RHS"},
   ConditionalExpr       |-> {"Condition", "TrueResult", "FalseResult"},
   UnaryOpExpr           |-> {"Val"},
   TemplateExpr          |-> {"Parts"},
   TemplateWrapExpr      |-> {"Wrapped"},
   TemplateJoinExpr      |-> {"Tuple"},
   TupleConsExpr         |-> {"Exprs"},
   ObjectConsExpr        |-> {"KeyExpr", "ValueExpr"},
   ObjectConsKeyExpr     |-> {"Wrapped"},
   ForExpr               |-> {"CollExpr", "KeyExpr", "ValExpr", "CondExpr"},
   IndexExpr             |-> {"Collection", "Key"},
   SplatExpr             |-> {"Source", "Each"},
   RelativeTraversalExpr |-> {"Source"},
   ParenthesesExpr       |-> {"Expression"},
   ScopeTraversalExpr    |-> {},
   StaticExpr            |-> {}]

Kinds == DOMAIN Slots
AllSlots == UNION {Slots[k] : k \in Kinds}

\* Fields that are lists.
Lists == {"FunctionCallExpr", "TemplateExpr", "TupleConsExpr", "ObjectConsExpr"}

Roots(t) == {n \in Nodes : t.parent[n] = NoExpr}
ChildrenIn(t, n, fields) ==
  {c \in Nodes : t.parent[c] = n /\ t.slot[c] \in fields}

\* n and all below it: what every set has that holds n and the children of
\* its members.
ClosedDown(t, S) == \A c \in Nodes : t.parent[c] \in S => c \in S
Under(t, n) ==
  {m \in Nodes : \A S \in SUBSET Nodes : n \in S /\ ClosedDown(t, S) => m \in S}

\* What the HCL parser builds: everything hangs below a root, in a field its
\* parent has; the keys of an object are wrapped, and only they; a join is a
\* template's part and joins a for.  A StaticExpr is what gohcl puts where an
\* optional attribute is missing: a root that is not of hclsyntax.
IsForest(t) ==
  /\ t.parent \in [Nodes -> Nodes \cup {NoExpr}]
  /\ t.kind \in [Nodes -> Kinds]
  /\ t.name \in [Nodes -> Names]
  /\ \A S \in SUBSET Nodes : Roots(t) \subseteq S /\ ClosedDown(t, S) => S = Nodes
  /\ \A n \in Nodes \ Roots(t) : t.slot[n] \in Slots[t.kind[t.parent[n]]]

IsParsed(t) ==
  /\ \A n \in Nodes \ Roots(t) :
       LET above == t.kind[t.parent[n]] IN
       /\ (t.kind[n] = "ObjectConsKeyExpr") =
            (above = "ObjectConsExpr" /\ t.slot[n] = "KeyExpr")
       /\ t.kind[n] = "TemplateJoinExpr" => above = "TemplateExpr"
       /\ above = "TemplateJoinExpr" => t.kind[n] = "ForExpr"
       /\ t.kind[n] # "StaticExpr"
       /\ \A m \in Nodes \ {n} :
            t.parent[m] = t.parent[n] /\ t.slot[m] = t.slot[n] => above \in Lists
  /\ \A n \in Roots(t) : t.kind[n] \notin {"ObjectConsKeyExpr", "TemplateJoinExpr"}

ASSUME WalkAssumption ==
  /\ NoExpr \notin Nodes
  /\ \A t \in Inputs : IsForest(t)

VARIABLES
  tree,        \* the forest under analysis
  pending,     \* the expressions the loop has not come to
  walking,     \* those walkForFunctions is still to be called with
  walked,      \* those it has been called with (for the properties)
  traversals,  \* keys of the map of traversals
  functions    \* the map of function names

walkVars == <<tree, pending, walking, walked, traversals, functions>>

\* Values of the locals.
WalkTypeOK ==
  /\ IsForest(tree)
  /\ pending \in SUBSET Roots(tree)
  /\ walking \in SUBSET Nodes
  /\ walked \in SUBSET Nodes
  /\ traversals \in SUBSET Names
  /\ functions \in SUBSET Names

WalkInit ==
  /\ tree \in Inputs
  /\ pending = Roots(tree)
  /\ walking = {} /\ walked = {}
  /\ traversals = {} /\ functions = {}

-----------------------------------------------------------------------------

NamesOf(t, S, kind) == {t.name[n] : n \in {m \in S : t.kind[m] = kind}}

\* hcl.Expression.Variables.
Variables(t, n) == NamesOf(t, Under(t, n), "ScopeTraversalExpr")

\* Faulty variant: the map is made anew for every expression.
ExtractAnew(n) ==
  /\ n \in pending /\ walking = {}
  /\ pending' = pending \ {n}
  /\ traversals' = Variables(tree, n)
  /\ walking' = IF tree.kind[n] = "StaticExpr" THEN {} ELSE {n}
  /\ UNCHANGED <<tree, walked, functions>>

\* One turn of the loop, up to the call of walkForFunctions, which is made
\* with expressions of hclsyntax only.  (Add lets no nil in.)
ExtractReferences(n) ==
  /\ n \in pending /\ walking = {}
  /\ pending' = pending \ {n}
  /\ traversals' = traversals \cup Variables(tree, n)
  /\ walking' = IF tree.kind[n] = "StaticExpr" THEN {} ELSE {n}
  /\ UNCHANGED <<tree, walked, functions>>

\* Kinds that walkForFunctions has no case for.
NoCase == {"RelativeTraversalExpr", "ObjectConsKeyExpr", "TemplateJoinExpr",
           "ScopeTraversalExpr", "StaticExpr"}

\* Faulty variant: the condition of a for is forgotten.
VisitedNoCondition(kind) == IF kind \in NoCase THEN {} ELSE Slots[kind] \ {"CondExpr"}

\* The fields its cases go into: all that the kind has.
Visited(kind) == IF kind \in NoCase THEN {} ELSE Slots[kind]

\* One call of walkForFunctions.
WalkForFunctions(n) ==
  /\ n \in walking
  /\ walking' = (walking \ {n}) \cup ChildrenIn(tree, n, Visited(tree.kind[n]))
  /\ walked' = walked \cup {n}
  /\ functions' = functions \cup NamesOf(tree, {n}, "FunctionCallExpr")
  /\ UNCHANGED <<tree, pending, traversals>>

WalkNext ==
  \/ \E n \in Nodes : ExtractReferences(n)
  \/ \E n \in Nodes : WalkForFunctions(n)

WalkSpec == WalkInit /\ [][WalkNext]_walkVars

Analysed == pending = {} /\ walking = {}

-----------------------------------------------------------------------------
(* Properties                                                              *)

\* Expressions below one that the walk ends at.
Hidden(t) ==
  UNION {Under(t, h) \ {h} : h \in {n \in Nodes : t.kind[n] \in NoCase}}

\* The analysis finds the functions that are called outside of those, and no
\* others: no field of any kind with a case is forgotten (lines 80-123).
OpenCallsAreFound ==
  Analysed =>
    functions = NamesOf(tree, Nodes \ Hidden(tree), "FunctionCallExpr")

\* The references are those of all expressions, whatever their order.
AllReferencesFound ==
  Analysed => traversals = NamesOf(tree, Nodes, "ScopeTraversalExpr")

\* "walks through HCL expressions to find all unique variable traversals and
\* function calls" (expressions.go 28): not so for f(x).a, f(x)[0],
\* { (f(x)) = 1 } and %{ for } in a template.
AllCallsAreFound ==
  Analysed => functions = NamesOf(tree, Nodes, "FunctionCallExpr")

=============================================================================
