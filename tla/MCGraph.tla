------------------------------ MODULE MCGraph ------------------------------
(* GraphManager on small instances.                                        *)
EXTENDS GraphManager, TLC

CONSTANTS a, b, c, d, e

\* c depends on a directly and over b; b also depends on d, whose key does
\* not parse, and c on e, whose key comes back as a.
DiamondLinks == {<<a, b>>, <<a, c>>, <<b, c>>, <<d, b>>, <<e, c>>}

AsWritten == [id \in Ids |-> id]

Misread == [id \in Ids |-> CASE id = d -> Absent [] id = e -> a [] OTHER -> id]

ChainLinks == {<<a, b>>}

NoLinks == {}

CONSTANTS cfg1, cfg2

\* Two instances in one, as nodes share nothing in the store: the diamond is
\* built under a reader while nothing runs, and a second configuration comes
\* for a; or a and b are run and watched while one link is made between them.
Quiet ==
  /\ taken = {} /\ \A o \in Observers : seen[o] = NoView
  /\ \A id \in Ids \ {a} : nodes[id] \in {cfg1, Absent}

Chain ==
  /\ taken \subseteq {a, b} /\ \A o \in Observers : seen[o].id \notin {c, d, e}
  /\ \A id \in Ids : nodes[id] \in (IF id \in {a, b} THEN {cfg1} ELSE {}) \cup {Absent}
  /\ \A r \in Readers : asked[r] \in {b, Absent}

Watched == Init /\ [][Next /\ (Quiet \/ Chain)']_vars

WorkerSymmetry == Permutations(Workers)

=============================================================================
