--------------------------- MODULE LoadingProofs ---------------------------
(***************************************************************************)
(* Proofs about Loading, for any names and contents of files, any order of *)
(* the walk and any number of changes of the directories.                  *)
(*                                                                         *)
(* What is parsed follows what was found, one by one (Follows), and a file *)
(* that nobody touches is found and keeps its content (Found, Follows); so *)
(* a loaded grid holds all that was found, and all that stayed.            *)
(***************************************************************************)
EXTENDS Loading, TLAPS

\* app.grid has a value of its own only at the end.
GridIsLast ==
  /\ phase = "modules" => grid = NoGrid /\ steps = <<>>
  /\ phase = "grid" => grid = <<>>
  /\ phase = "grid" /\ stage = "walk" => steps = <<>>
  /\ phase \in {"failed", "panicked"} => grid \in {NoGrid, <<>>}
  /\ phase = "loaded" => grid = steps /\ Len(steps) = Len(found) /\ stage = "parse"

\* Runners belong to the files found, in their order, and are good.
RunnersFollow ==
  /\ \A i \in DOMAIN runners : runners[i][2] \in Good
  /\ phase = "modules" /\ stage = "walk" => runners = <<>>
  /\ phase = "modules" /\ stage = "parse" =>
       /\ Len(runners) = pos - 1 /\ pos <= Len(found) + 1
       /\ \A i \in DOMAIN runners : runners[i][1] = found[i]

\* Steps too, and they hold what an untouched file holds.
StepsFollow ==
  /\ phase = "grid" /\ stage = "parse" =>
       Len(steps) = pos - 1 /\ pos <= Len(found) + 1
  /\ phase \in {"grid", "loaded"} /\ stage = "parse" =>
       \A i \in DOMAIN steps :
         /\ steps[i][1] = found[i]
         /\ found[i] \notin touched => steps[i] = <<found[i], files[found[i]]>>

IsFound(p) ==
  p \notin touched /\ files[p] # Absent => \E k \in DOMAIN found : found[k] = p

\* The walk finds what is there and stays there.
GridFound ==
  /\ phase = "grid" /\ stage = "walk" =>
       \A i \in DOMAIN GridFiles : i < pos => IsFound(GridFiles[i])
  /\ phase \in {"grid", "loaded"} /\ stage = "parse" =>
       \A i \in DOMAIN GridFiles : IsFound(GridFiles[i])

IInv == TypeOK /\ GridIsLast /\ RunnersFollow /\ StepsFollow /\ GridFound

-----------------------------------------------------------------------------

LEMMA AppendRead ==
  ASSUME NEW S, NEW s \in Seq(S), NEW x \in S, NEW i \in DOMAIN Append(s, x)
  PROVE  \/ i \in DOMAIN s /\ Append(s, x)[i] = s[i]
         \/ i = Len(s) + 1 /\ Append(s, x)[i] = x
OBVIOUS

LEMMA OrderTyped ==
  ASSUME NEW i \in DOMAIN Order
  PROVE  Order \in Seq(Paths) /\ Order[i] \in Paths
BY LoadingAssumption DEF Order, Names, Paths

LEMMA InitHolds == Init => IInv
<1> SUFFICES ASSUME Init PROVE IInv
  OBVIOUS
<1>1. TypeOK
  <2>1. edits \in 0..MaxEdits /\ pos \in Nat \ {0}
    BY LoadingAssumption DEF Init
  <2>2. runners \in Parsed /\ steps \in Parsed /\ found \in Seq(Paths)
    BY DEF Init, Parsed
  <2> QED
    BY <2>1, <2>2 DEF Init, TypeOK
<1>2. GridIsLast
  BY DEF Init, GridIsLast
<1>3. RunnersFollow
  BY DEF Init, RunnersFollow
<1>4. StepsFollow /\ GridFound
  <2>1. \A i \in DOMAIN GridFiles : ~(i < 1)
    BY LoadingAssumption
  <2> QED
    BY <2>1 DEF Init, StepsFollow, GridFound
<1> QED
  BY <1>1, <1>2, <1>3, <1>4 DEF IInv

\* Loading ends in an error or a panic, at whatever point.
LEMMA StopPreserves ==
  ASSUME IInv, Loading, NEW as \in {"failed", "panicked"}, Stop(as),
         grid' = grid, moduleErr' \in BOOLEAN
  PROVE  IInv'
<1> USE DEF IInv, Stop, disk
<1>1. TypeOK'
  BY DEF TypeOK, Parsed
<1>2. GridIsLast'
  BY DEF GridIsLast, Loading
<1>3. RunnersFollow' /\ StepsFollow' /\ GridFound'
  BY DEF RunnersFollow, StepsFollow, GridFound
<1> QED
  BY <1>1, <1>2, <1>3

\* LoadGrids begins.
LEMMA GridPreserves ==
  ASSUME IInv, phase = "modules", StartGrid, moduleErr' \in BOOLEAN
  PROVE  IInv'
<1> USE DEF IInv, StartGrid, disk
<1>1. grid' = <<>> /\ steps' = <<>>
  BY DEF GridIsLast
<1>2. TypeOK'
  BY <1>1 DEF TypeOK, Parsed
<1>3. GridIsLast' /\ StepsFollow'
  BY <1>1 DEF GridIsLast, StepsFollow
<1>4. RunnersFollow'
  BY DEF RunnersFollow
<1>5. GridFound'
  <2>1. \A i \in DOMAIN GridFiles : i \in Nat /\ i >= 1
    BY LoadingAssumption
  <2> QED
    BY <2>1 DEF GridFound
<1> QED
  BY <1>2, <1>3, <1>4, <1>5

LEMMA FailPreserves == IInv /\ Loading /\ Fail => IInv'
<1> SUFFICES ASSUME IInv, Loading, Fail PROVE IInv'
  OBVIOUS
<1>1. CASE phase = "modules" /\ caller # "harness"
  BY <1>1, GridPreserves DEF Fail, ModulesFail
<1>2. CASE phase # "modules" \/ caller = "harness"
  <2>1. Stop("failed") /\ grid' = grid /\ moduleErr' \in BOOLEAN
    BY <1>2 DEF Fail, ModulesFail, IInv, TypeOK
  <2> QED
    BY <2>1, StopPreserves
<1> QED
  BY <1>1, <1>2

\* The directories change: only the file that is touched.
LEMMA EditPreserves ==
  ASSUME IInv, NEW p \in Paths, NEW content \in Contents \cup {Absent}, Edit(p, content)
  PROVE  IInv'
<1> USE DEF IInv, Edit
<1>1. TypeOK'
  BY LoadingAssumption DEF TypeOK, Parsed
<1>2. GridIsLast' /\ RunnersFollow'
  BY DEF GridIsLast, RunnersFollow
<1>3. touched' = touched \cup {p} /\ \A q : q # p => files'[q] = files[q]
  BY DEF TypeOK
<1>4. StepsFollow'
  BY <1>3 DEF StepsFollow
<1>5. \A q : IsFound(q) => IsFound(q)'
  BY <1>3 DEF IsFound
<1>6. GridFound'
  BY <1>5 DEF GridFound
<1> QED
  BY <1>1, <1>2, <1>4, <1>6

LEMMA VisitPreserves == IInv /\ Visit => IInv'
<1> SUFFICES ASSUME IInv, Visit PROVE IInv'
  OBVIOUS
<1> USE DEF IInv, Visit, disk
<1>1. pos \in DOMAIN Order /\ Order[pos] \in Paths /\ found \in Seq(Paths)
  <2>1. Order \in Seq(Names(ModuleFiles)) \cup Seq(Names(GridFiles)) /\ pos \in Nat \ {0}
    BY LoadingAssumption DEF Order, TypeOK
  <2>2. pos \in DOMAIN Order
    BY <2>1
  <2> QED
    BY <2>2, OrderTyped DEF TypeOK
<1>2. TypeOK'
  BY <1>1 DEF TypeOK, Parsed
<1>3. GridIsLast' /\ RunnersFollow' /\ StepsFollow'
  BY DEF GridIsLast, RunnersFollow, StepsFollow, Loading
<1>4. \A q : IsFound(q) => IsFound(q)'
  BY <1>1 DEF IsFound
<1>5. \A q : q = Order[pos] => IsFound(q)'
  <2> SUFFICES ASSUME files[Order[pos]] # Absent
               PROVE  \E k \in DOMAIN found' : found'[k] = Order[pos]
    BY DEF IsFound
  <2>1. /\ found' = Append(found, Order[pos]) /\ Len(found) + 1 \in DOMAIN found'
        /\ found'[Len(found) + 1] = Order[pos]
    BY <1>1
  <2> QED
    BY <2>1
<1>6. GridFound'
  <2>1. SUFFICES ASSUME phase = "grid", NEW i \in DOMAIN GridFiles, i < pos + 1
                 PROVE  IsFound(GridFiles[i])'
    BY DEF GridFound, Loading
  <2>2. i < pos \/ i = pos
    BY <2>1, LoadingAssumption DEF TypeOK
  <2>3. Order = GridFiles
    BY <2>1 DEF Order
  <2> QED
    BY <2>1, <2>2, <2>3, <1>4, <1>5 DEF GridFound, Loading
<1> QED
  BY <1>2, <1>3, <1>6

LEMMA WalkedPreserves == IInv /\ Walked => IInv'
<1> SUFFICES ASSUME IInv, Walked PROVE IInv'
  OBVIOUS
<1> USE DEF IInv, Walked, disk
<1>1. TypeOK'
  BY DEF TypeOK, Parsed
<1>2. GridIsLast'
  BY DEF GridIsLast, Loading
<1>3. Len(found) \in Nat
  BY DEF TypeOK
<1>4. RunnersFollow' /\ StepsFollow'
  BY <1>3 DEF RunnersFollow, StepsFollow, GridIsLast, Loading
<1>5. GridFound'
  <2>1. SUFFICES ASSUME phase = "grid", NEW i \in DOMAIN GridFiles
                 PROVE  IsFound(GridFiles[i])'
    BY DEF GridFound, Loading
  <2>2. Order = GridFiles /\ i < pos
    BY <2>1, LoadingAssumption DEF Order, TypeOK
  <2> QED
    BY <2>1, <2>2 DEF GridFound, IsFound
<1> QED
  BY <1>1, <1>2, <1>4, <1>5

LEMMA AllParsedPreserves == IInv /\ AllParsed => IInv'
<1> SUFFICES ASSUME IInv, AllParsed PROVE IInv'
  OBVIOUS
<1>1. CASE phase = "modules"
  BY <1>1, GridPreserves DEF AllParsed, IInv, TypeOK
<1>2. CASE phase # "modules"
  <2> USE DEF IInv, AllParsed, Stop, disk
  <2>1. phase = "grid" /\ phase' = "loaded" /\ grid' = steps
    BY <1>2 DEF Loading
  <2>2. TypeOK'
    BY <1>2, <2>1 DEF TypeOK, Parsed
  <2>3. Len(steps) = Len(found)
    BY <2>1 DEF StepsFollow, TypeOK, Parsed
  <2>4. GridIsLast' /\ RunnersFollow' /\ StepsFollow'
    BY <1>2, <2>1, <2>3 DEF GridIsLast, RunnersFollow, StepsFollow
  <2>5. GridFound'
    BY <1>2, <2>1 DEF GridFound, IsFound
  <2> QED
    BY <2>2, <2>4, <2>5
<1> QED
  BY <1>1, <1>2

\* A file is accepted.
LEMMA KeepPreserves ==
  ASSUME IInv, Loading, stage = "parse", pos <= Len(found), Keep(found[pos])
  PROVE  IInv'
<1> USE DEF IInv, disk
<1> DEFINE item == <<found[pos], files[found[pos]]>>
<1>1. /\ pos \in DOMAIN found /\ found[pos] \in Paths /\ files[found[pos]] \in Good
      /\ item \in Paths \X Contents
  BY DEF TypeOK, Keep, Contents
<1>2. CASE phase = "modules"
  <2>1. /\ phase' = "modules" /\ stage' = "parse" /\ pos' = pos + 1 /\ found' = found
        /\ runners' = Append(runners, item)
        /\ UNCHANGED <<files, edits, touched, caller, steps, grid, moduleErr>>
    BY <1>2 DEF Keep
  <2>2. TypeOK'
    BY <1>1, <1>2, <2>1 DEF TypeOK, Parsed
  <2>3. GridIsLast' /\ StepsFollow' /\ GridFound'
    BY <1>2, <2>1 DEF GridIsLast, StepsFollow, GridFound
  <2>4. Len(runners) = pos - 1 /\ runners \in Parsed
    BY <1>2 DEF RunnersFollow, TypeOK
  <2>5. \A i \in DOMAIN runners' :
          \/ i \in DOMAIN runners /\ runners'[i] = runners[i]
          \/ i = pos /\ runners'[i] = item
    <3> HIDE DEF item
    <3>1. pos = Len(runners) + 1
      BY <2>4 DEF TypeOK, Parsed
    <3> QED
      BY <1>1, <2>1, <2>4, <3>1, AppendRead DEF Parsed
  <2>6. Len(runners') = pos' - 1 /\ pos' <= Len(found') + 1
    BY <1>1, <2>1, <2>4 DEF Parsed, TypeOK
  <2>7. \A i \in DOMAIN runners' : runners'[i][2] \in Good /\ runners'[i][1] = found[i]
    BY <1>1, <1>2, <2>5 DEF RunnersFollow
  <2>8. RunnersFollow'
    BY <2>1, <2>6, <2>7 DEF RunnersFollow
  <2> QED
    BY <2>2, <2>3, <2>8
<1>3. CASE phase # "modules"
  <2>1. /\ phase = "grid" /\ phase' = "grid" /\ stage' = "parse" /\ pos' = pos + 1
        /\ found' = found /\ steps' = Append(steps, item)
        /\ UNCHANGED <<files, edits, touched, caller, runners, grid, moduleErr>>
    BY <1>3 DEF Keep, Loading
  <2>2. TypeOK'
    BY <1>1, <2>1 DEF TypeOK, Parsed
  <2>3. GridIsLast' /\ RunnersFollow'
    BY <1>3, <2>1 DEF GridIsLast, RunnersFollow
  <2>4. GridFound'
    BY <2>1 DEF GridFound, IsFound
  <2>5. Len(steps) = pos - 1 /\ steps \in Parsed
    BY <2>1 DEF StepsFollow, TypeOK
  <2>6. \A i \in DOMAIN steps' :
          \/ i \in DOMAIN steps /\ steps'[i] = steps[i]
          \/ i = pos /\ steps'[i] = item
    <3> HIDE DEF item
    <3>1. pos = Len(steps) + 1
      BY <2>5 DEF TypeOK, Parsed
    <3> QED
      BY <1>1, <2>1, <2>5, <3>1, AppendRead DEF Parsed
  <2>7. Len(steps') = pos' - 1 /\ pos' <= Len(found') + 1
    BY <1>1, <2>1, <2>5 DEF Parsed, TypeOK
  <2>8. \A i \in DOMAIN steps' :
          /\ steps'[i][1] = found[i]
          /\ found[i] \notin touched => steps'[i] = <<found[i], files[found[i]]>>
    BY <2>1, <2>6 DEF StepsFollow
  <2>9. StepsFollow'
    BY <2>1, <2>7, <2>8 DEF StepsFollow
  <2> QED
    BY <2>2, <2>3, <2>4, <2>9
<1> QED
  BY <1>2, <1>3

LEMMA ParsePreserves == IInv /\ ParseFile => IInv'
<1> SUFFICES ASSUME IInv, ParseFile PROVE IInv'
  OBVIOUS
<1>1. CASE Keep(found[pos])
  BY <1>1, KeepPreserves DEF ParseFile
<1>2. CASE files[found[pos]] \in Panicking /\ Stop("panicked") /\ UNCHANGED <<grid, moduleErr>>
  BY <1>2, StopPreserves DEF ParseFile, IInv, TypeOK
<1>3. CASE Fail
  BY <1>3, FailPreserves DEF ParseFile
<1> QED
  BY <1>1, <1>2, <1>3 DEF ParseFile, Refuse

LEMMA Inductive == Spec => []IInv
<1>1. IInv /\ [Next]_vars => IInv'
  <2> SUFFICES ASSUME IInv, [Next]_vars PROVE IInv'
    OBVIOUS
  <2>1. CASE \E p \in Paths, content \in Contents \cup {Absent} : Edit(p, content)
    BY <2>1, EditPreserves
  <2>2. CASE Visit
    BY <2>2, VisitPreserves
  <2>3. CASE Walked
    BY <2>3, WalkedPreserves
  <2>4. CASE WalkFails
    BY <2>4, FailPreserves DEF WalkFails
  <2>5. CASE ParseFile
    BY <2>5, ParsePreserves
  <2>6. CASE AllParsed
    BY <2>6, AllParsedPreserves
  <2>7. CASE UNCHANGED vars
    BY <2>7 DEF vars, IInv, TypeOK, GridIsLast, RunnersFollow, StepsFollow, GridFound,
                IsFound, Parsed
  <2> QED
    BY <2>1, <2>2, <2>3, <2>4, <2>5, <2>6, <2>7 DEF Next, Load
<1> QED
  BY <1>1, InitHolds, PTL DEF Spec

-----------------------------------------------------------------------------

\* The loader's places and the lists keep their types.
THEOREM TypeCorrect == Spec => []TypeOK
<1>1. IInv => TypeOK
  BY DEF IInv
<1> QED
  BY <1>1, Inductive, PTL

\* App.grid is whole or not there.
THEOREM WholeGrid == Spec => []GridIsAllOrNothing
<1>1. IInv => GridIsAllOrNothing
  <2> SUFFICES ASSUME IInv, grid \notin {NoGrid, <<>>} PROVE GridIsAllOrNothing
    BY DEF GridIsAllOrNothing
  <2>1. phase = "loaded" /\ grid = steps /\ Len(steps) = Len(found) /\ stage = "parse"
    BY DEF IInv, GridIsLast, TypeOK
  <2>2. \A i \in DOMAIN grid : grid[i][1] = found[i]
    BY <2>1 DEF IInv, StepsFollow
  <2> QED
    BY <2>1, <2>2 DEF GridIsAllOrNothing, PathOf
<1> QED
  BY <1>1, Inductive, PTL

\* The registry holds accepted files, in the order in which they were found.
THEOREM WholeFiles == Spec => []RegistryHoldsWholeFiles
<1>1. IInv => RegistryHoldsWholeFiles
  <2> SUFFICES ASSUME IInv, phase = "modules"
               PROVE  /\ Len(runners) <= Len(found)
                      /\ \A i \in DOMAIN runners : PathOf(runners[i]) = found[i]
    BY DEF RegistryHoldsWholeFiles, IInv, RunnersFollow
  <2>1. found \in Seq(Paths) /\ runners \in Parsed /\ pos \in Nat /\ stage \in {"walk", "parse"}
    BY DEF IInv, TypeOK
  <2>2. CASE stage = "walk"
    BY <2>1, <2>2 DEF IInv, RunnersFollow
  <2>3. CASE stage = "parse"
    BY <2>1, <2>3 DEF IInv, RunnersFollow, PathOf, Parsed
  <2> QED
    BY <2>1, <2>2, <2>3
<1> QED
  BY <1>1, Inductive, PTL

\* A grid file that stays there, untouched, is in the grid that is loaded.
THEOREM StepsKept == Spec => []NoStepIsLost
<1>1. IInv => NoStepIsLost
  <2> SUFFICES ASSUME IInv, phase = "loaded", NEW p \in Names(GridFiles),
                      p \notin touched, files[p] # Absent
               PROVE  \E i \in DOMAIN grid : grid[i] = <<p, files[p]>>
    BY DEF NoStepIsLost
  <2>1. PICK j \in DOMAIN GridFiles : GridFiles[j] = p
    BY DEF Names
  <2>2. grid = steps /\ Len(steps) = Len(found) /\ stage = "parse"
    BY DEF IInv, GridIsLast
  <2>3. PICK k \in DOMAIN found : found[k] = p
    BY <2>1, <2>2 DEF IInv, GridFound, IsFound
  <2>4. k \in DOMAIN steps
    BY <2>2 DEF IInv, TypeOK, Parsed
  <2> QED
    BY <2>2, <2>3, <2>4 DEF IInv, StepsFollow
<1> QED
  BY <1>1, Inductive, PTL

-----------------------------------------------------------------------------
(* The loader's progress.                                                  *)

\* The walk stops behind its last entry.
InWalk == Loading /\ stage = "walk" => pos <= Len(Order) + 1

LEMMA WalkStays == Spec => []InWalk
<1>1. Init => InWalk
  BY LoadingAssumption DEF Init, InWalk, Order, Loading
<1>2. IInv /\ InWalk /\ [Next]_vars => InWalk'
  <2> SUFFICES ASSUME IInv, InWalk, [Next]_vars PROVE InWalk'
    OBVIOUS
  <2> USE DEF InWalk, Loading, Order
  <2>0. /\ Len(ModuleFiles) \in Nat /\ Len(GridFiles) \in Nat
        /\ pos \in Nat /\ Len(found) \in Nat
    BY LoadingAssumption DEF IInv, TypeOK
  <2>1. CASE \E p \in Paths, content \in Contents \cup {Absent} : Edit(p, content)
    BY <2>1 DEF Edit
  <2>2. CASE Visit
    BY <2>0, <2>2 DEF Visit
  <2>3. CASE Walked
    BY <2>3 DEF Walked
  <2>4. CASE Fail
    BY <2>0, <2>4 DEF Fail, ModulesFail, Stop, StartGrid
  <2>5. CASE \E p \in Paths : Loading /\ stage = "parse" /\ Keep(p)
    BY <2>5 DEF Keep
  <2>6. CASE Stop("panicked")
    BY <2>6 DEF Stop
  <2>7. CASE AllParsed
    BY <2>0, <2>7 DEF AllParsed, Stop, StartGrid
  <2>8. CASE UNCHANGED vars
    BY <2>8 DEF vars
  <2>9. ASSUME ParseFile PROVE found[pos] \in Paths
    BY <2>9 DEF ParseFile, IInv, TypeOK
  <2> QED
    BY <2>1, <2>2, <2>3, <2>4, <2>5, <2>6, <2>7, <2>8, <2>9
    DEF Next, Load, WalkFails, ParseFile, Refuse
<1> QED
  BY <1>1, <1>2, Inductive, PTL DEF Spec

\* What comes after the list at hand.
Later == IF phase = "modules" THEN 2 * Len(GridFiles) + 3 ELSE 0

LEMMA Numbers ==
  ASSUME IInv
  PROVE  /\ Len(Order) \in Nat /\ pos \in Nat /\ Len(found) \in Nat
         /\ Len(GridFiles) \in Nat /\ 2 * Len(GridFiles) \in Nat /\ Later \in Nat
<1>1. Len(ModuleFiles) \in Nat /\ Len(GridFiles) \in Nat
  BY LoadingAssumption
<1>2. 2 * Len(GridFiles) \in Nat
  BY <1>1
<1> QED
  BY <1>1, <1>2 DEF IInv, TypeOK, Order, Later

LEMMA LeftOfWalk ==
  Loading /\ stage = "walk" =>
    StepsLeft = Later + (2 * (Len(Order) + 1 - pos) + Len(found) + 2)
BY DEF StepsLeft, Later

LEMMA LeftOfParse ==
  Loading /\ stage = "parse" => StepsLeft = Later + (Len(found) + 2 - pos)
BY DEF StepsLeft, Later

\* IInv and InWalk keep what is left above zero.
LEMMA StillToDo ==
  IInv /\ InWalk =>
    /\ StepsLeft \in Nat
    /\ Loading => StepsLeft > 0
    /\ phase = "modules" => StepsLeft > 2 * Len(GridFiles) + 3
<1> SUFFICES ASSUME IInv, InWalk
             PROVE  /\ StepsLeft \in Nat
                    /\ Loading => StepsLeft > 0
                    /\ phase = "modules" => StepsLeft > 2 * Len(GridFiles) + 3
  OBVIOUS
<1>1. CASE Loading /\ stage = "walk"
  <2>1. 2 * (Len(Order) + 1 - pos) \in Nat
    BY <1>1, Numbers DEF InWalk
  <2> QED
    BY <1>1, <2>1, LeftOfWalk, Numbers DEF Later
<1>2. CASE Loading /\ stage = "parse"
  <2>1. pos <= Len(found) + 1
    BY <1>2 DEF IInv, RunnersFollow, StepsFollow, Loading
  <2> QED
    BY <1>2, <2>1, LeftOfParse, Numbers DEF Later
<1>3. CASE ~Loading
  BY <1>3 DEF StepsLeft, Loading
<1> QED
  BY <1>1, <1>2, <1>3 DEF IInv, TypeOK

\* The end of a list and its errors lead to the next one or to the end.
LEMMA LeavingShrinks ==
  ASSUME IInv, InWalk, Loading,
         \/ phase = "modules" /\ StartGrid
         \/ \E as \in {"loaded", "failed", "panicked"} : Stop(as)
  PROVE  0 <= StepsLeft' /\ StepsLeft' < StepsLeft
<1>1. CASE phase = "modules" /\ StartGrid
  <2>1. StepsLeft' = 2 * Len(GridFiles) + 2
    <3>1. /\ phase' = "grid" /\ stage' = "walk" /\ pos' = 1 /\ found' = <<>>
      BY <1>1 DEF StartGrid
    <3>2. Len(GridFiles) \in Nat /\ Len(found') = 0
      BY <3>1, LoadingAssumption
    <3> QED
      BY <3>1, <3>2 DEF StepsLeft, Loading, Order
  <2>2. Len(GridFiles) \in Nat
    BY LoadingAssumption
  <2> QED
    BY <1>1, <2>1, <2>2, StillToDo
<1>2. CASE \E as \in {"loaded", "failed", "panicked"} : Stop(as)
  <2>1. StepsLeft' = 0
    BY <1>2 DEF Stop, StepsLeft, Loading
  <2> QED
    BY <2>1, StillToDo
<1> QED
  BY <1>1, <1>2

\* Every step of the loader brings its end nearer.
LEMMA LoadShrinks ==
  ASSUME IInv, InWalk, IInv', InWalk', Load
  PROVE  disk' = disk /\ 0 <= StepsLeft' /\ StepsLeft' < StepsLeft
<1>1. found \in Seq(Paths)
  BY DEF IInv, TypeOK
<1>8. /\ Loading' /\ stage' = "walk" =>
           StepsLeft' = Later' + (2 * (Len(Order') + 1 - pos') + Len(found') + 2)
      /\ Loading' /\ stage' = "parse" =>
           StepsLeft' = Later' + (Len(found') + 2 - pos')
  BY DEF StepsLeft, Later
<1>9. StepsLeft' \in Nat
  <2>1. (IInv /\ InWalk => StepsLeft \in Nat)'
    BY StillToDo, PTL
  <2> QED
    BY <2>1
<1>2. ASSUME Fail, Loading
      PROVE  disk' = disk /\ 0 <= StepsLeft' /\ StepsLeft' < StepsLeft
  BY <1>2, LeavingShrinks DEF Fail, ModulesFail, Stop, StartGrid
<1>3. CASE Visit
  <2>1. Len(found') \in {Len(found), Len(found) + 1}
    <3>1. ASSUME NEW p PROVE Len(Append(found, p)) = Len(found) + 1
      BY <1>1
    <3> QED
      BY <1>3, <3>1 DEF Visit
  <2>2. /\ Loading' /\ stage' = "walk" /\ pos' = pos + 1 /\ disk' = disk
        /\ Later' = Later /\ Order' = Order
    BY <1>3 DEF Visit, Loading, Later, Order
  <2>3. StepsLeft' = Later + (2 * (Len(Order) + 1 - (pos + 1)) + Len(found') + 2)
    BY <2>2, <1>8
  <2>4. StepsLeft = Later + (2 * (Len(Order) + 1 - pos) + Len(found) + 2)
    BY <1>3, LeftOfWalk DEF Visit
  <2>5. StepsLeft' < StepsLeft
    <3> DEFINE w == 2 * (Len(Order) + 1 - pos)
    <3>1. w \in Int /\ 2 * (Len(Order) + 1 - (pos + 1)) = w - 2
      BY Numbers
    <3>2. StepsLeft = Later + (w + Len(found) + 2)
      BY <2>4
    <3> HIDE DEF w
    <3>3. StepsLeft' = Later + (w - 2 + Len(found') + 2)
      BY <2>3, <3>1
    <3> QED
      BY <2>1, <3>1, <3>2, <3>3, Numbers
  <2> QED
    BY <2>2, <2>5, <1>9
<1>4. CASE Walked
  <2>1. /\ Loading' /\ stage' = "parse" /\ pos' = 1 /\ disk' = disk
        /\ Later' = Later /\ found' = found
    BY <1>4 DEF Walked, Loading, Later
  <2>2. StepsLeft' = Later + (Len(found) + 2 - 1)
    BY <2>1, <1>8
  <2>3. StepsLeft = Later + (2 * (Len(Order) + 1 - pos) + Len(found) + 2)
    BY <1>4, LeftOfWalk DEF Walked
  <2>4. Len(Order) + 1 - pos = 0
    BY <1>4, Numbers DEF Walked, InWalk
  <2>5. StepsLeft' < StepsLeft
    BY <2>2, <2>3, <2>4, Numbers
  <2> QED
    BY <2>1, <2>5, <1>9
<1>5. CASE WalkFails
  BY <1>2, <1>5 DEF WalkFails
<1>6. CASE ParseFile
  <2>1. CASE Keep(found[pos])
    <3>1. /\ Loading' /\ stage' = "parse" /\ pos' = pos + 1 /\ disk' = disk
          /\ Later' = Later /\ found' = found
      BY <1>6, <2>1 DEF ParseFile, Keep, Loading, Later
    <3>2. StepsLeft' = Later + (Len(found) + 2 - (pos + 1))
      BY <3>1, <1>8
    <3>3. StepsLeft = Later + (Len(found) + 2 - pos)
      BY <1>6, LeftOfParse DEF ParseFile
    <3>4. StepsLeft' < StepsLeft
      BY <3>2, <3>3, Numbers
    <3> QED
      BY <3>1, <3>4, <1>9
  <2>2. CASE Refuse(found[pos])
    <3>1. CASE Stop("panicked")
      BY <1>6, <3>1, LeavingShrinks DEF ParseFile, Stop
    <3> QED
      BY <1>2, <1>6, <2>2, <3>1 DEF ParseFile, Refuse
  <2> QED
    BY <1>6, <2>1, <2>2 DEF ParseFile
<1>7. CASE AllParsed
  BY <1>7, LeavingShrinks DEF AllParsed, Stop, StartGrid, Loading
<1> QED
  BY <1>3, <1>4, <1>5, <1>6, <1>7 DEF Load

\* Loading comes nearer to its end with every step but those that change the
\* directories, and these do not put it off: for any number of files there
\* is a bound on what the loader does.
THEOREM Progress == Spec => LoadNearsItsEnd
<1>1. IInv /\ InWalk /\ IInv' /\ InWalk' /\ [Next]_vars =>
        [IF disk' = disk THEN 0 <= StepsLeft' /\ StepsLeft' < StepsLeft
         ELSE StepsLeft' = StepsLeft]_vars
  <2> SUFFICES ASSUME IInv, InWalk, IInv', InWalk', Next
               PROVE  IF disk' = disk THEN 0 <= StepsLeft' /\ StepsLeft' < StepsLeft
                      ELSE StepsLeft' = StepsLeft
    OBVIOUS
  <2>1. ASSUME NEW p \in Paths, NEW content \in Contents \cup {Absent},
               Edit(p, content)
        PROVE  disk' # disk /\ StepsLeft' = StepsLeft
    <3>1. disk' # disk
      BY <2>1 DEF Edit, disk, IInv, TypeOK
    <3>2. StepsLeft' = StepsLeft
      BY <2>1 DEF Edit, StepsLeft, Loading, Order
    <3> QED
      BY <3>1, <3>2
  <2> QED
    BY <2>1, LoadShrinks DEF Next
<1> QED
  BY <1>1, Inductive, WalkStays, PTL DEF Spec, LoadNearsItsEnd

=============================================================================
