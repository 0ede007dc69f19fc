-------------------------- MODULE AtomicContainer --------------------------
(***************************************************************************)
(* What bggoexpr.Container promises, each call a single step: it holds     *)
(* what was added, analyses it once before it is asked and not again until *)
(* something is added, and gives every getter all that it holds.           *)
(* ExprContainer implements it with a Once that Add replaces.              *)
(***************************************************************************)

CONSTANTS Exprs, Nil, Getters

VARIABLES contents,  \* the expressions that were added
          analysed,  \* the results are those of the contents
          answer     \* answer[g]: what g's last call returned

vars == <<contents, analysed, answer>>

Init ==
  /\ contents = {}
  /\ analysed = FALSE
  /\ answer = [g \in Getters |-> {}]

\* Adding nil adds nothing, and has the analysis made again.
Add(e) ==
  /\ contents' = contents \cup ({e} \ {Nil})
  /\ analysed' = FALSE
  /\ UNCHANGED answer

Analyse ==
  /\ ~analysed
  /\ analysed' = TRUE
  /\ UNCHANGED <<contents, answer>>

Answer(g) ==
  /\ analysed
  /\ answer' = [answer EXCEPT ![g] = contents]
  /\ UNCHANGED <<contents, analysed>>

Next ==
  \/ \E e \in Exprs \cup {Nil} : Add(e)
  \/ Analyse
  \/ \E g \in Getters : Answer(g)

Spec == Init /\ [][Next]_vars

=============================================================================
