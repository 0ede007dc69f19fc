--------------------------- MODULE ExprWalkProofs ---------------------------
(***************************************************************************)
(* Theorems about ExprWalk: for every set of forests, the analysis finds   *)
(* exactly the calls outside of the expressions the walk ends at, and all  *)
(* variables.                                                              *)
(***************************************************************************)
EXTENDS ExprWalk, TLAPS

-----------------------------------------------------------------------------
(* Forests.                                                                *)

\* An expression is among those under it, and so are their children.
LEMMA UnderCloses ==
  ASSUME NEW t, NEW n \in Nodes
  PROVE  n \in Under(t, n) /\ ClosedDown(t, Under(t, n)) /\ Under(t, n) \subseteq Nodes
BY DEF Under, ClosedDown

\* What is under n, and is not n, has its parent under n.
LEMMA UnderHasParent ==
  ASSUME NEW t, NEW n \in Nodes, NEW c \in Under(t, n), c # n
  PROVE  t.parent[c] \in Under(t, n)
<1> SUFFICES ASSUME t.parent[c] \notin Under(t, n) PROVE FALSE
  OBVIOUS
<1> DEFINE S == Under(t, n) \ {c}
<1>1. n \in S /\ S \in SUBSET Nodes
  BY UnderCloses
<1>2. ClosedDown(t, S)
  BY UnderCloses DEF ClosedDown
<1> QED
  BY <1>1, <1>2 DEF Under

\* No expression has its parent under it: else all but those under it would
\* be everything there is.
LEMMA NoCycle ==
  ASSUME NEW t, IsForest(t), NoExpr \notin Nodes, NEW n \in Nodes
  PROVE  t.parent[n] \notin Under(t, n)
<1> SUFFICES ASSUME t.parent[n] \in Under(t, n) PROVE FALSE
  OBVIOUS
<1> DEFINE S == Nodes \ Under(t, n)
<1>1. \A c \in Under(t, n) : t.parent[c] \in Under(t, n)
  BY UnderHasParent
<1>2. Roots(t) \subseteq S
  BY <1>1, UnderCloses DEF Roots
<1>3. ClosedDown(t, S)
  BY <1>1 DEF ClosedDown
<1>4. S = Nodes
  BY <1>2, <1>3 DEF IsForest
<1> QED
  BY <1>4, UnderCloses

\* Children of hidden expressions, and of those the walk ends at, are hidden.
LEMMA ChildrenHidden ==
  ASSUME NEW t, IsForest(t), NoExpr \notin Nodes, NEW c \in Nodes,
         t.parent[c] \in Nodes,
         t.parent[c] \in Hidden(t) \/ t.kind[t.parent[c]] \in NoCase
  PROVE  c \in Hidden(t)
<1> DEFINE p == t.parent[c]
<1>1. PICK h \in Nodes : t.kind[h] \in NoCase /\ p \in Under(t, h)
  BY UnderCloses DEF Hidden
<1>2. c \in Under(t, h)
  BY <1>1, UnderCloses DEF ClosedDown
<1>3. c # h
  BY <1>1, NoCycle
<1> QED
  BY <1>1, <1>2, <1>3 DEF Hidden

\* A hidden expression has a parent, and is hidden by it or with it.
LEMMA HiddenByParent ==
  ASSUME NEW t, NEW c \in Hidden(t)
  PROVE  /\ t.parent[c] \in Nodes
         /\ t.parent[c] \in Hidden(t) \/ t.kind[t.parent[c]] \in NoCase
<1>1. PICK h \in Nodes : t.kind[h] \in NoCase /\ c \in Under(t, h) \ {h}
  BY DEF Hidden
<1>2. t.parent[c] \in Under(t, h)
  BY <1>1, UnderHasParent
<1> QED
  BY <1>1, <1>2, UnderCloses DEF Hidden

-----------------------------------------------------------------------------
(* The invariant.                                                          *)

\* What the walk is still to do, or has done, is not hidden; it has come to
\* every root the loop has taken and to every field of what it has done; and
\* the maps hold what that gives.
WalkInv ==
  /\ WalkTypeOK
  /\ walking \cap Hidden(tree) = {} /\ walked \cap Hidden(tree) = {}
  /\ \A n \in Roots(tree) \ pending :
       n \in walking \cup walked \/ tree.kind[n] = "StaticExpr"
  /\ \A n \in walked :
       ChildrenIn(tree, n, Visited(tree.kind[n])) \subseteq walking \cup walked
  /\ functions = NamesOf(tree, walked, "FunctionCallExpr")
  /\ traversals = UNION {Variables(tree, n) : n \in Roots(tree) \ pending}

\* Names are names.
LEMMA NamesAreNames ==
  ASSUME NEW t, IsForest(t), NEW S \in SUBSET Nodes, NEW k
  PROVE  NamesOf(t, S, k) \subseteq Names
BY DEF NamesOf, IsForest

\* It holds at the start.
LEMMA InitWalk ==
  ASSUME WalkInit PROVE WalkInv
<1>1. IsForest(tree)
  BY WalkAssumption DEF WalkInit
<1>2. Roots(tree) \ pending = {}
  BY DEF WalkInit
<1> QED
  BY <1>1, <1>2 DEF WalkInit, WalkInv, WalkTypeOK, NamesOf

\* A root is not hidden.
LEMMA RootsOpen ==
  ASSUME NEW t, NoExpr \notin Nodes, NEW n \in Roots(t)
  PROVE  n \notin Hidden(t)
BY HiddenByParent DEF Roots

\* One turn of the loop.
LEMMA ExtractKeeps ==
  ASSUME WalkInv, NEW n \in Nodes, ExtractReferences(n)
  PROVE  WalkInv'
<1> USE DEF WalkInv, WalkTypeOK
<1>1. n \in Roots(tree) /\ tree' = tree /\ walked' = walked /\ functions' = functions
  BY DEF ExtractReferences
<1>2. WalkTypeOK'
  <2>1. Under(tree, n) \in SUBSET Nodes
    BY UnderCloses
  <2>2. Variables(tree, n) \subseteq Names
    BY <2>1, NamesAreNames DEF Variables
  <2> QED
    BY <1>1, <2>2 DEF ExtractReferences
<1>3. walking' \subseteq {n} /\ walking = {}
  BY DEF ExtractReferences
<1>4. walking' \cap Hidden(tree) = {}
  BY <1>1, <1>3, RootsOpen, WalkAssumption
<1>5. Roots(tree) \ pending' = (Roots(tree) \ pending) \cup {n}
  BY <1>1 DEF ExtractReferences
<1>6. traversals' = UNION {Variables(tree, m) : m \in Roots(tree) \ pending'}
  BY <1>5 DEF ExtractReferences
<1>7. \A m \in Roots(tree) \ pending' :
        m \in walking' \cup walked \/ tree.kind[m] = "StaticExpr"
  BY <1>5, <1>3 DEF ExtractReferences
<1> QED
  BY <1>1, <1>2, <1>3, <1>4, <1>6, <1>7

\* One call of walkForFunctions.
LEMMA WalkKeeps ==
  ASSUME WalkInv, NEW n \in Nodes, WalkForFunctions(n)
  PROVE  WalkInv'
<1> USE DEF WalkInv, WalkTypeOK
<1> DEFINE children == ChildrenIn(tree, n, Visited(tree.kind[n]))
<1>1. /\ n \in walking /\ tree' = tree /\ pending' = pending
      /\ traversals' = traversals /\ walked' = walked \cup {n}
      /\ walking' = (walking \ {n}) \cup children
  BY DEF WalkForFunctions
<1>2. functions' = NamesOf(tree, walked', "FunctionCallExpr")
  BY <1>1 DEF WalkForFunctions, NamesOf
<1>3. WalkTypeOK'
  BY <1>1, <1>2, NamesAreNames DEF ChildrenIn
<1>4. children \cap Hidden(tree) = {}
  <2> SUFFICES ASSUME NEW c \in children, c \in Hidden(tree) PROVE FALSE
    OBVIOUS
  <2>1. tree.parent[c] = n /\ tree.kind[n] \notin NoCase
    BY DEF ChildrenIn, Visited
  <2> QED
    BY <1>1, <2>1, HiddenByParent
<1>5. /\ walking' \cap Hidden(tree) = {}
      /\ walked' \cap Hidden(tree) = {}
  BY <1>1, <1>4
<1>6. walking \cup walked \subseteq walking' \cup walked'
  BY <1>1
<1>7. \A m \in walked' :
        ChildrenIn(tree, m, Visited(tree.kind[m])) \subseteq walking' \cup walked'
  BY <1>1, <1>6
<1>8. \A m \in Roots(tree) \ pending' :
        m \in walking' \cup walked' \/ tree.kind[m] = "StaticExpr"
  BY <1>1, <1>6
<1> QED
  BY <1>1, <1>2, <1>3, <1>5, <1>7, <1>8

\* The invariant holds always.
THEOREM WalkInvariant == WalkSpec => []WalkInv
<1>1. WalkInit => WalkInv
  BY InitWalk
<1>2. WalkInv /\ [WalkNext]_walkVars => WalkInv'
  <2> SUFFICES ASSUME WalkInv, [WalkNext]_walkVars PROVE WalkInv'
    OBVIOUS
  <2>1. CASE WalkNext
    BY <2>1, ExtractKeeps, WalkKeeps DEF WalkNext
  <2>2. CASE UNCHANGED walkVars
    BY <2>2 DEF walkVars, WalkInv, WalkTypeOK
  <2> QED
    BY <2>1, <2>2
<1> QED
  BY <1>1, <1>2, PTL DEF WalkSpec

-----------------------------------------------------------------------------
(* The results.                                                            *)

\* When the walk is over, it has come to every expression but the hidden
\* ones and the roots it was not called with.
LEMMA WalkedAll ==
  ASSUME WalkInv, Analysed
  PROVE  \A n \in Nodes : n \in walked \/ n \in Hidden(tree)
                            \/ tree.kind[n] = "StaticExpr"
<1> USE DEF WalkInv, WalkTypeOK, Analysed
<1> DEFINE S == {n \in Nodes : n \in walked \/ n \in Hidden(tree)
                                 \/ tree.kind[n] = "StaticExpr"}
<1>1. Roots(tree) \subseteq S
  BY DEF Roots
<1>2. ClosedDown(tree, S)
  <2> SUFFICES ASSUME NEW c \in Nodes, tree.parent[c] \in S PROVE c \in S
    BY DEF ClosedDown
  <2>1. c \notin Roots(tree)
    BY WalkAssumption DEF Roots
  <2>2. tree.slot[c] \in Slots[tree.kind[tree.parent[c]]]
    BY <2>1 DEF IsForest
  <2>3. CASE tree.parent[c] \in Hidden(tree) \/ tree.kind[tree.parent[c]] \in NoCase
    BY <2>3, ChildrenHidden, WalkAssumption
  <2>4. CASE tree.parent[c] \in walked /\ tree.kind[tree.parent[c]] \notin NoCase
    BY <2>2, <2>4 DEF ChildrenIn, Visited
  <2> QED
    BY <2>3, <2>4 DEF NoCase
<1> QED
  BY <1>1, <1>2 DEF IsForest

\* Every root's variables are everybody's.
LEMMA VariablesOfAll ==
  ASSUME NEW t, IsForest(t)
  PROVE  UNION {Variables(t, n) : n \in Roots(t)}
           = NamesOf(t, Nodes, "ScopeTraversalExpr")
<1> DEFINE S == UNION {Under(t, n) : n \in Roots(t)}
<1>1. Roots(t) \subseteq S /\ S \in SUBSET Nodes
  BY UnderCloses DEF Roots
<1>2. ClosedDown(t, S)
  BY UnderCloses DEF ClosedDown, Roots
<1>3. S = Nodes
  BY <1>1, <1>2 DEF IsForest
<1> QED
  BY <1>3 DEF Variables, NamesOf

\* The locals have the right values.
THEOREM WalkTypes == WalkSpec => []WalkTypeOK
<1>1. WalkInv => WalkTypeOK
  BY DEF WalkInv
<1> QED
  BY <1>1, WalkInvariant, PTL

\* The analysis finds the calls outside of the expressions the walk ends at,
\* and no others.
THEOREM OpenCalls == WalkSpec => []OpenCallsAreFound
<1>1. WalkInv => OpenCallsAreFound
  <2> SUFFICES ASSUME WalkInv, Analysed
               PROVE functions = NamesOf(tree, Nodes \ Hidden(tree), "FunctionCallExpr")
    BY DEF OpenCallsAreFound
  <2>1. functions = NamesOf(tree, walked, "FunctionCallExpr")
    BY DEF WalkInv
  <2>2. walked \subseteq Nodes \ Hidden(tree)
    BY DEF WalkInv, WalkTypeOK
  <2> QED
    BY <2>1, <2>2, WalkedAll DEF NamesOf
<1> QED
  BY <1>1, WalkInvariant, PTL

\* The analysis finds the variables of all expressions.
THEOREM AllReferences == WalkSpec => []AllReferencesFound
<1>1. WalkInv => AllReferencesFound
  <2> SUFFICES ASSUME WalkInv, Analysed
               PROVE traversals = NamesOf(tree, Nodes, "ScopeTraversalExpr")
    BY DEF AllReferencesFound
  <2>1. traversals = UNION {Variables(tree, n) : n \in Roots(tree)}
    <3>1. Roots(tree) \ pending = Roots(tree)
      BY DEF Analysed
    <3> QED
      BY <3>1 DEF WalkInv
  <2> QED
    BY <2>1, VariablesOfAll DEF WalkInv, WalkTypeOK
<1> QED
  BY <1>1, WalkInvariant, PTL

=============================================================================
