------------------------------ MODULE Loading ------------------------------
(***************************************************************************)
(* App.LoadModules and App.LoadGrids, file by file.  Each lists the .hcl   *)
(* files below its path (FindFilesByExtension), then parses them in that   *)
(* order, while an editor or a deployment may change the directory.        *)
(*                                                                         *)
(* A manifest's runners go to the registry as soon as its file is parsed;  *)
(* a grid's steps are collected and become app.grid at the end.  App.Run   *)
(* drops LoadModules' error; the tests' harness stops at it.               *)
(*                                                                         *)
(* What a file holds matters only in so far as it is accepted: the runners *)
(* or steps of a file stand for its content, all or none of them (NewRunner*)
(* and newGridFromHCL return none with an error).  A file may also make    *)
(* its parser panic: a manifest by a type that is not implemented, a grid  *)
(* by a count or for_each that is null.                                    *)
(***************************************************************************)
EXTENDS Sequences, Integers

CONSTANTS ModuleFiles, GridFiles,  \* the files' names, in WalkDir's order
          Good, Bad, Panicking,    \* contents, by what parsing comes to
          Absent, NoGrid,
          Callers,                 \* {"run"}, {"harness"} or both
          MaxEdits                 \* bound: changes of the directories

Names(order) == {order[i] : i \in DOMAIN order}
Paths == Names(ModuleFiles) \cup Names(GridFiles)
Contents == Good \cup Bad \cup Panicking

\* The walks are sequences of names; outcomes exclude each other.
ASSUME LoadingAssumption ==
  /\ ModuleFiles \in Seq(Names(ModuleFiles))
  /\ GridFiles \in Seq(Names(GridFiles))
  /\ Good \cap (Bad \cup Panicking) = {} /\ Bad \cap Panicking = {}
  /\ Absent \notin Contents
  /\ NoGrid \notin Seq(Paths \X Contents)
  /\ Callers \subseteq {"run", "harness"}
  /\ MaxEdits \in Nat

VARIABLES
  files,      \* files[p]: what is at path p
  edits,      \* how often the directories have been changed
  touched,    \* the paths that have been changed
  caller,     \* who loads: App.Run or the harness
  phase,      \* "modules", "grid", then "loaded", "failed" or "panicked"
  stage,      \* "walk" or "parse"
  pos,        \* the position in the walk, or among the files found
  found,      \* filePaths, files: the files the walk found
  runners,    \* registry.runnersRegistry, as <<path, content>>
  steps,      \* the steps of LoadGridsRecursively's own grid
  grid,       \* app.grid
  moduleErr   \* did LoadModules return an error?

vars == <<files, edits, touched, caller, phase, stage, pos, found, runners,
          steps, grid, moduleErr>>

disk == <<files, edits, touched>>

Parsed == Seq(Paths \X Contents)

\* Places and values of the loader.
TypeOK ==
  /\ files \in [Paths -> Contents \cup {Absent}]
  /\ edits \in 0..MaxEdits
  /\ touched \in SUBSET Paths
  /\ caller \in Callers
  /\ phase \in {"modules", "grid", "loaded", "failed", "panicked"}
  /\ stage \in {"walk", "parse"}
  /\ pos \in Nat \ {0}
  /\ found \in Seq(Paths)
  /\ runners \in Parsed
  /\ steps \in Parsed
  /\ grid \in {NoGrid} \cup Parsed
  /\ moduleErr \in BOOLEAN

Init ==
  /\ files \in [Paths -> Contents \cup {Absent}]
  /\ edits = 0 /\ touched = {}
  /\ caller \in Callers
  /\ phase = "modules" /\ stage = "walk" /\ pos = 1
  /\ found = <<>> /\ runners = <<>> /\ steps = <<>>
  /\ grid = NoGrid /\ moduleErr = FALSE

Loading == phase \in {"modules", "grid"}

Order == IF phase = "modules" THEN ModuleFiles ELSE GridFiles

-----------------------------------------------------------------------------
(* The directories.                                                        *)

Edit(p, content) ==
  /\ Loading /\ edits < MaxEdits /\ files[p] # content
  /\ files' = [files EXCEPT ![p] = content]
  /\ edits' = edits + 1
  /\ touched' = touched \cup {p}
  /\ UNCHANGED <<caller, phase, stage, pos, found, runners, steps, grid,
                 moduleErr>>

-----------------------------------------------------------------------------
(* The walk.                                                               *)

Visit ==
  /\ Loading /\ stage = "walk" /\ pos <= Len(Order)
  /\ found' = IF files[Order[pos]] = Absent THEN found
              ELSE Append(found, Order[pos])
  /\ pos' = pos + 1
  /\ UNCHANGED <<disk, caller, phase, stage, runners, steps, grid, moduleErr>>

\* Faulty variant: the walk ends before its last entry.
WalkedTooEarly ==
  /\ Loading /\ stage = "walk" /\ pos >= Len(Order)
  /\ stage' = "parse" /\ pos' = 1
  /\ UNCHANGED <<disk, caller, phase, found, runners, steps, grid, moduleErr>>

Walked ==
  /\ Loading /\ stage = "walk" /\ pos > Len(Order)
  /\ stage' = "parse" /\ pos' = 1
  /\ UNCHANGED <<disk, caller, phase, found, runners, steps, grid, moduleErr>>

-----------------------------------------------------------------------------
(* The end of LoadModules and of LoadGrids.                                *)

\* LoadGrids begins with an empty grid where there is none.
StartGrid ==
  /\ phase' = "grid" /\ stage' = "walk" /\ pos' = 1 /\ found' = <<>>
  /\ grid' = IF grid = NoGrid THEN <<>> ELSE grid
  /\ UNCHANGED <<disk, caller, runners, steps>>

Stop(as) ==
  /\ phase' = as
  /\ UNCHANGED <<disk, caller, stage, pos, found, runners, steps>>

\* LoadModules returns an error: the harness stops, App.Run goes on.
ModulesFail ==
  /\ moduleErr' = TRUE
  /\ IF caller = "harness" THEN Stop("failed") /\ UNCHANGED grid
     ELSE StartGrid

Fail ==
  IF phase = "modules" THEN ModulesFail
  ELSE Stop("failed") /\ UNCHANGED <<grid, moduleErr>>

\* The path does not exist, or a directory below it cannot be read.
WalkFails ==
  /\ Loading /\ stage = "walk"
  /\ Fail

AllParsed ==
  /\ Loading /\ stage = "parse" /\ pos > Len(found)
  /\ UNCHANGED moduleErr
  /\ IF phase = "modules" THEN StartGrid
     ELSE Stop("loaded") /\ grid' = steps

-----------------------------------------------------------------------------
(* The files.                                                              *)

\* Faulty variant: a manifest's runners are registered before the errors of
\* the file are looked at.
KeepAnyway(p) ==
  /\ IF phase = "modules"
     THEN runners' = Append(runners, <<p, files[p]>>) /\ UNCHANGED steps
     ELSE steps' = Append(steps, <<p, files[p]>>) /\ UNCHANGED runners
  /\ pos' = pos + 1
  /\ UNCHANGED <<disk, caller, phase, stage, found, grid, moduleErr>>

\* Faulty variant: steps go straight to app.grid.
KeepInGrid(p) ==
  /\ files[p] \in Good
  /\ IF phase = "modules"
     THEN runners' = Append(runners, <<p, files[p]>>) /\ UNCHANGED grid
     ELSE grid' = Append(grid, <<p, files[p]>>) /\ UNCHANGED runners
  /\ pos' = pos + 1
  /\ UNCHANGED <<disk, caller, phase, stage, steps, found, moduleErr>>

\* Faulty variant: the loop's index stays.
KeepForEver(p) ==
  /\ files[p] \in Good
  /\ UNCHANGED vars

\* Faulty variant: a manifest has the walk made again.
KeepAndWalk(p) ==
  /\ files[p] \in Good
  /\ IF phase = "modules"
     THEN runners' = Append(runners, <<p, files[p]>>) /\ UNCHANGED steps
     ELSE steps' = Append(steps, <<p, files[p]>>) /\ UNCHANGED runners
  /\ stage' = "walk" /\ pos' = 1 /\ found' = <<>>
  /\ UNCHANGED <<disk, caller, phase, grid, moduleErr>>

\* The file is accepted: runners to the registry, steps to the local grid.
Keep(p) ==
  /\ files[p] \in Good
  /\ IF phase = "modules"
     THEN runners' = Append(runners, <<p, files[p]>>) /\ UNCHANGED steps
     ELSE steps' = Append(steps, <<p, files[p]>>) /\ UNCHANGED runners
  /\ pos' = pos + 1
  /\ UNCHANGED <<disk, caller, phase, stage, found, grid, moduleErr>>

\* The file is gone by now, or parsing it gives errors, or panics.
Refuse(p) ==
  \/ files[p] \in Panicking /\ Stop("panicked") /\ UNCHANGED <<grid, moduleErr>>
  \/ files[p] \notin Good \cup Panicking /\ Fail

ParseFile ==
  /\ Loading /\ stage = "parse" /\ pos <= Len(found)
  /\ Keep(found[pos]) \/ Refuse(found[pos])

-----------------------------------------------------------------------------

Load == Visit \/ Walked \/ WalkFails \/ ParseFile \/ AllParsed

Next ==
  \/ \E p \in Paths, content \in Contents \cup {Absent} : Edit(p, content)
  \/ Load

Spec == Init /\ [][Next]_vars

\* The loader runs; nobody has to edit anything.
FairSpec == Spec /\ WF_vars(Load)

-----------------------------------------------------------------------------
(* Properties                                                              *)

PathOf(parsed) == parsed[1]

\* App.grid is never a part of the grid: it is nil or empty until all files
\* that were found are accepted, and then holds them all, in their order.  A
\* file that vanishes between walk and parse is an error, never a gap.
GridIsAllOrNothing ==
  grid \notin {NoGrid, <<>>} =>
    /\ phase = "loaded"
    /\ Len(grid) = Len(found)
    /\ \A i \in DOMAIN grid : PathOf(grid[i]) = found[i]

\* The registry holds whole, accepted files, and those that were found first:
\* runners[i] is of the i-th file, while LoadModules runs and after.
RegistryHoldsWholeFiles ==
  /\ \A i \in DOMAIN runners : runners[i][2] \in Good
  /\ phase = "modules" =>
       /\ Len(runners) <= Len(found)
       /\ \A i \in DOMAIN runners : PathOf(runners[i]) = found[i]

\* A grid file that is there, and that nobody touches while the program loads,
\* is in the grid when it is loaded, whatever happens to the files beside it.
NoStepIsLost ==
  phase = "loaded" =>
    \A p \in Names(GridFiles) :
      p \notin touched /\ files[p] # Absent =>
        \E i \in DOMAIN grid : grid[i] = <<p, files[p]>>

\* How often the loader can still move.  A step of the walk may find a file,
\* and so a step of the parse to come.
StepsLeft ==
  IF ~Loading THEN 0
  ELSE (IF phase = "modules" THEN 2 * Len(GridFiles) + 3 ELSE 0)
       + (IF stage = "walk" THEN 2 * (Len(Order) + 1 - pos) + Len(found) + 2
          ELSE Len(found) + 2 - pos)

\* What is done to the directories never gives the loader more to do, and
\* whatever else happens brings its end nearer: each file is looked at once
\* by the walk and once at most by the parse, and after an error too no list
\* is begun again.
LoadNearsItsEnd ==
  [][IF disk' = disk THEN 0 <= StepsLeft' /\ StepsLeft' < StepsLeft
     ELSE StepsLeft' = StepsLeft]_vars

\* "Instead of calling the full app.Run(), we call the loader methods directly
\* ... ensuring errors propagate" (testutil/harness.go 115 to 121): a manifest
\* that does not load is an error, and no grid is loaded without its modules.
NoGridWithoutModules == phase = "loaded" => ~moduleErr

\* Loading ends, whatever is done to the directories meanwhile.
LoadingEnds == <>(~Loading)

=============================================================================
