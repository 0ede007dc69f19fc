----------------------------- MODULE MCLoading -----------------------------
(* Names and contents for Loading: two manifests, two grid files.          *)
EXTENDS Loading, TLC

CONSTANTS m1, m2, g1, g2

TwoModules == <<m1, m2>>
OneModule == <<m1>>
TwoGrids == <<g1, g2>>

=============================================================================
