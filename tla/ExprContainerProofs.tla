------------------------ MODULE ExprContainerProofs ------------------------
(***************************************************************************)
(* The container when no Add overlaps a getter, for every set of           *)
(* expressions and any number of getters and adders.                       *)
(***************************************************************************)
EXTENDS ExprContainer, TLAPS

\* The steps a getter makes with the Once's mutex held.
Inside == {"again", "extract", "store", "finish", "unlock"}

\* Adders and getters exclude each other, adders each other, and the two
\* mutexes are held exactly by the goroutines that are past the lock.
Exclusion ==
  /\ \A a \in Adders : at[a] # "idle" =>
       \A g \in Goroutines : g # a => at[g] = "idle"
  /\ \A a \in Adders : writer = a <=> at[a] \in {"reset", "append"}
  /\ \A g, h \in Getters : at[g] \in Inside /\ at[h] \in Inside => g = h
  /\ onceLocked <=> \E g \in Getters : at[g] \in Inside
  /\ ~crashed

\* What the Once's flag and the place of a getter say of the cache.
Analysis ==
  /\ done => cached = expressions /\ runs = 1 /\ \A a \in Adders : at[a] # "append"
  /\ ~done /\ (\A g \in Getters : at[g] \notin {"store", "finish"}) => runs = 0
  /\ \A g \in Getters :
       /\ at[g] \in {"extract", "store", "finish"} => ~done
       /\ at[g] \in {"unlock", "read"} => done
       /\ at[g] = "store" => extracted[g] = expressions
       /\ at[g] = "finish" => cached = expressions
       /\ at[g] \in {"store", "finish"} => runs = 1
       /\ before[g] \subseteq expressions
       /\ at[g] = "idle" => before[g] \subseteq answer[g]

ContainerInv == TypeOK /\ Exclusion /\ Analysis

\* Every step keeps the types of the container and its goroutines.
LEMMA TypingStep == TypeOK /\ [Next]_vars => TypeOK'
  <1> SUFFICES ASSUME TypeOK, [Next]_vars PROVE TypeOK'
    OBVIOUS
  <1> USE ContainerAssumption DEF TypeOK, GetterSteps, AdderSteps, Goroutines, Goto
  <1>1. ASSUME NEW a \in Adders, NEW e \in (Exprs \ expressions) \cup {Nil}, Add(a, e)
        PROVE  TypeOK'
    BY <1>1 DEF Add
  <1>2. ASSUME NEW a \in Adders, AddLock(a)
        PROVE  TypeOK'
    BY <1>2 DEF AddLock
  <1>3. ASSUME NEW a \in Adders, ResetOnce(a)
        PROVE  TypeOK'
    BY <1>3 DEF ResetOnce
  <1>4. ASSUME NEW a \in Adders, AddAppend(a)
        PROVE  TypeOK'
    BY <1>4 DEF AddAppend
  <1>5. ASSUME NEW g \in Getters, Get(g) \/ ReadCached(g)
        PROVE  TypeOK'
    BY <1>5 DEF Get, ReadCached
  <1>6. ASSUME NEW g \in Getters, OnceFast(g) \/ OnceLock(g) \/ OnceCheck(g)
        PROVE  TypeOK'
    BY <1>6 DEF OnceFast, OnceLock, OnceCheck
  <1>7. ASSUME NEW g \in Getters, Extract(g)
        PROVE  TypeOK'
    BY <1>7 DEF Extract
  <1>8. ASSUME NEW g \in Getters, Store(g)
        PROVE  TypeOK'
    BY <1>8 DEF Store
  <1>9. ASSUME NEW g \in Getters, OnceDone(g) \/ OnceUnlock(g)
        PROVE  TypeOK'
    BY <1>9 DEF OnceDone, OnceUnlock
  <1>10. CASE UNCHANGED vars
    BY <1>10 DEF vars
  <1>11. QED
    BY <1>1, <1>2, <1>3, <1>4, <1>5, <1>6, <1>7, <1>8, <1>9, <1>10
    DEF Next, AddStep, GetStep, Analyze

\* Nothing is locked or cached, and every goroutine is idle.
LEMMA TypingInit == Init => TypeOK
  <1> SUFFICES ASSUME Init PROVE TypeOK
    OBVIOUS
  <1> USE ContainerAssumption DEF Init, Goroutines
  <1>1. QED
    BY DEF TypeOK, GetterSteps, AdderSteps

\* The fields and goroutines hold values of their types, whether or not Add
\* overlaps a getter.
THEOREM TypeCorrect == Spec => []TypeOK
  <1>1. Init => TypeOK
    BY TypingInit
  <1>2. TypeOK /\ [Next]_vars => TypeOK'
    BY TypingStep
  <1>3. QED
    BY <1>1, <1>2, PTL DEF Spec

\* One goroutine goes from one step to another and the rest stay.
LEMMA Moves ==
  ASSUME TypeOK, NEW g \in Goroutines, NEW step, Goto(g, step)
  PROVE  at'[g] = step /\ \A h \in Goroutines : h # g => at'[h] = at[h]
  BY DEF TypeOK, Goto

\* A step of Add keeps the invariant: no getter is in a call then.
LEMMA AdderKeeps ==
  ASSUME ~Overlap, ContainerInv, NEW a \in Adders, AddStep(a)
  PROVE  Exclusion' /\ Analysis'
  <1> USE ContainerAssumption DEF ContainerInv, TypeOK, Goroutines
  <1>g. \A g \in Getters : at[g] = "idle" /\ g # a
    BY DEF AddStep, Add, MayAdd, AddLock, ResetOnce, AddAppend, Exclusion
  <1>o. \A b \in Adders : b # a => at[b] = "idle"
    BY DEF AddStep, Add, MayAdd, AddLock, ResetOnce, AddAppend, Exclusion
  <1>1. ASSUME NEW e \in (Exprs \ expressions) \cup {Nil}, MayAdd, Add(a, e)
        PROVE  Exclusion' /\ Analysis'
    <2>1. at[a] = "idle" /\ at'[a] = "lock"
          /\ \A h \in Goroutines : h # a => at'[h] = at[h]
      BY <1>1, Moves DEF Add
    <2>2. Exclusion'
      BY <1>1, <1>g, <1>o, <2>1 DEF Add, Exclusion, Inside
    <2>3. Analysis'
      BY <1>1, <1>g, <2>1 DEF Add, Analysis
    <2>4. QED
      BY <2>2, <2>3
  <1>2. ASSUME AddLock(a)
        PROVE  Exclusion' /\ Analysis'
    <2>1. at[a] = "lock" /\ at'[a] = "reset"
          /\ \A h \in Goroutines : h # a => at'[h] = at[h]
      BY <1>2, Moves DEF AddLock
    <2>2. Exclusion'
      BY <1>2, <1>g, <1>o, <2>1 DEF AddLock, Exclusion, Inside
    <2>3. Analysis'
      BY <1>2, <1>g, <2>1 DEF AddLock, Analysis
    <2>4. QED
      BY <2>2, <2>3
  <1>3. ASSUME ResetOnce(a)
        PROVE  Exclusion' /\ Analysis'
    <2>1. at[a] = "reset" /\ at'[a] = "append"
          /\ \A h \in Goroutines : h # a => at'[h] = at[h]
      BY <1>3, Moves DEF ResetOnce
    <2>2. Exclusion'
      BY <1>3, <1>g, <1>o, <2>1 DEF ResetOnce, Exclusion, Inside
    <2>3. Analysis'
      BY <1>3, <1>g, <2>1 DEF ResetOnce, Analysis
    <2>4. QED
      BY <2>2, <2>3
  <1>4. ASSUME AddAppend(a)
        PROVE  Exclusion' /\ Analysis'
    <2>1. at[a] = "append" /\ at'[a] = "idle"
          /\ \A h \in Goroutines : h # a => at'[h] = at[h]
      BY <1>4, Moves DEF AddAppend
    <2>2. Exclusion'
      BY <1>4, <1>g, <1>o, <2>1 DEF AddAppend, Exclusion, Inside
    <2>3. ~done
      BY <2>1 DEF Analysis
    <2>4. Analysis'
      BY <1>4, <1>g, <2>1, <2>3 DEF AddAppend, Analysis
    <2>5. QED
      BY <2>2, <2>4
  <1>5. QED
    BY <1>1, <1>2, <1>3, <1>4 DEF AddStep

\* A step of a getter keeps the invariant: the Once's mutex orders them.
LEMMA GetterKeeps ==
  ASSUME ~Overlap, ContainerInv, NEW g \in Getters, GetStep(g)
  PROVE  Exclusion' /\ Analysis'
  <1> USE ContainerAssumption DEF ContainerInv, TypeOK, Goroutines
  <1>a. \A a \in Adders : at[a] = "idle" /\ a # g
    BY DEF GetStep, Get, MayGet, Analyze, OnceFast, OnceLock, OnceCheck, Extract,
       Store, OnceDone, OnceUnlock, ReadCached, Exclusion
  \* Others inside the Once when g is.
  <1>i. at[g] \in Inside =>
          onceLocked /\ \A h \in Getters : h # g => at[h] \notin Inside
    BY DEF Exclusion
  <1>1. ASSUME MayGet, Get(g)
        PROVE  Exclusion' /\ Analysis'
    <2>1. at[g] = "idle" /\ at'[g] = "fast"
          /\ \A h \in Goroutines : h # g => at'[h] = at[h]
      BY <1>1, Moves DEF Get
    <2>2. Exclusion'
      BY <1>1, <1>a, <2>1 DEF Get, Exclusion, Inside
    <2>3. Analysis'
      BY <1>1, <1>a, <2>1 DEF Get, Analysis
    <2>4. QED
      BY <2>2, <2>3
  <1>2. ASSUME OnceFast(g)
        PROVE  Exclusion' /\ Analysis'
    <2>1. at[g] = "fast" /\ at'[g] = (IF done THEN "read" ELSE "slow")
          /\ \A h \in Goroutines : h # g => at'[h] = at[h]
      BY <1>2, Moves DEF OnceFast
    <2>2. Exclusion'
      BY <1>2, <1>a, <2>1 DEF OnceFast, Exclusion, Inside
    <2>3. Analysis'
      BY <1>2, <1>a, <2>1 DEF OnceFast, Analysis
    <2>4. QED
      BY <2>2, <2>3
  <1>3. ASSUME OnceLock(g)
        PROVE  Exclusion' /\ Analysis'
    <2>1. at[g] = "slow" /\ at'[g] = "again"
          /\ \A h \in Goroutines : h # g => at'[h] = at[h]
      BY <1>3, Moves DEF OnceLock
    <2>2. \A h \in Getters : at[h] \notin Inside
      BY <1>3 DEF OnceLock, Exclusion
    <2>3. Exclusion'
      BY <1>3, <1>a, <2>1, <2>2 DEF OnceLock, Exclusion, Inside
    <2>4. Analysis'
      BY <1>3, <1>a, <2>1 DEF OnceLock, Analysis
    <2>5. QED
      BY <2>3, <2>4
  <1>4. ASSUME OnceCheck(g)
        PROVE  Exclusion' /\ Analysis'
    <2>1. at[g] = "again" /\ at'[g] = (IF done THEN "unlock" ELSE "extract")
          /\ \A h \in Goroutines : h # g => at'[h] = at[h]
      BY <1>4, Moves DEF OnceCheck
    <2>2. Exclusion'
      BY <1>4, <1>a, <1>i, <2>1 DEF OnceCheck, Exclusion, Inside
    <2>3. Analysis'
      BY <1>4, <1>a, <2>1 DEF OnceCheck, Analysis
    <2>4. QED
      BY <2>2, <2>3
  <1>5. ASSUME Extract(g)
        PROVE  Exclusion' /\ Analysis'
    <2>1. at[g] = "extract" /\ at'[g] = "store"
          /\ \A h \in Goroutines : h # g => at'[h] = at[h]
      BY <1>5, Moves DEF Extract
    <2>2. Exclusion'
      BY <1>5, <1>a, <1>i, <2>1 DEF Extract, Exclusion, Inside
    <2>3. /\ ~done /\ runs = 0
          /\ extracted'[g] = expressions /\ runs' = 1
          /\ \A h \in Getters : h # g => extracted'[h] = extracted[h]
      BY <1>5, <1>i, <2>1 DEF Extract, Analysis, Inside
    <2>4. Analysis'
      BY <1>5, <1>a, <1>i, <2>1, <2>3 DEF Extract, Analysis, Inside
    <2>5. QED
      BY <2>2, <2>4
  <1>6. ASSUME Store(g)
        PROVE  Exclusion' /\ Analysis'
    <2>1. at[g] = "store" /\ at'[g] = "finish"
          /\ \A h \in Goroutines : h # g => at'[h] = at[h]
      BY <1>6, Moves DEF Store
    <2>2. Exclusion'
      BY <1>6, <1>a, <1>i, <2>1 DEF Store, Exclusion, Inside
    <2>3. cached' = expressions /\ ~done /\ runs = 1
      BY <1>6, <2>1 DEF Store, Analysis
    <2>4. Analysis'
      BY <1>6, <1>a, <1>i, <2>1, <2>3 DEF Store, Analysis, Inside
    <2>5. QED
      BY <2>2, <2>4
  <1>7. ASSUME OnceDone(g)
        PROVE  Exclusion' /\ Analysis'
    <2>1. at[g] = "finish" /\ at'[g] = "unlock"
          /\ \A h \in Goroutines : h # g => at'[h] = at[h]
      BY <1>7, Moves DEF OnceDone
    <2>2. Exclusion'
      BY <1>7, <1>a, <1>i, <2>1 DEF OnceDone, Exclusion, Inside
    <2>3. Analysis'
      BY <1>7, <1>a, <1>i, <2>1 DEF OnceDone, Analysis, Inside
    <2>4. QED
      BY <2>2, <2>3
  <1>8. ASSUME OnceUnlock(g)
        PROVE  Exclusion' /\ Analysis'
    <2>1. at[g] = "unlock" /\ at'[g] = "read"
          /\ \A h \in Goroutines : h # g => at'[h] = at[h]
      BY <1>8, Moves DEF OnceUnlock
    <2>2. Exclusion'
      BY <1>8, <1>a, <1>i, <2>1 DEF OnceUnlock, Exclusion, Inside
    <2>3. Analysis'
      BY <1>8, <1>a, <2>1 DEF OnceUnlock, Analysis
    <2>4. QED
      BY <2>2, <2>3
  <1>9. ASSUME ReadCached(g)
        PROVE  Exclusion' /\ Analysis'
    <2>1. at[g] = "read" /\ at'[g] = "idle"
          /\ \A h \in Goroutines : h # g => at'[h] = at[h]
      BY <1>9, Moves DEF ReadCached
    <2>2. Exclusion'
      BY <1>9, <1>a, <2>1 DEF ReadCached, Exclusion, Inside
    <2>3. done /\ cached = expressions
      BY <2>1 DEF Analysis
    <2>4. Analysis'
      BY <1>9, <1>a, <2>1, <2>3 DEF ReadCached, Analysis
    <2>5. QED
      BY <2>2, <2>4
  <1>10. QED
    BY <1>1, <1>2, <1>3, <1>4, <1>5, <1>6, <1>7, <1>8, <1>9 DEF GetStep, Analyze

\* The invariant holds while Add and the getters do not overlap.
LEMMA ContainerInvariance ==
  ASSUME ~Overlap
  PROVE  Spec => []ContainerInv
  <1>1. Init => ContainerInv
    <2> SUFFICES ASSUME Init PROVE ContainerInv
      OBVIOUS
    <2> USE ContainerAssumption DEF Init, Goroutines
    <2>1. TypeOK
      BY TypingInit
    <2>2. Exclusion
      BY DEF Exclusion, Inside
    <2>3. Analysis
      BY DEF Analysis
    <2>4. QED
      BY <2>1, <2>2, <2>3 DEF ContainerInv
  <1>2. ContainerInv /\ [Next]_vars => ContainerInv'
    <2> SUFFICES ASSUME ContainerInv, [Next]_vars PROVE ContainerInv'
      OBVIOUS
    <2>1. TypeOK'
      BY TypingStep DEF ContainerInv
    <2>2. ASSUME NEW a \in Adders, AddStep(a) PROVE Exclusion' /\ Analysis'
      BY <2>2, AdderKeeps
    <2>3. ASSUME NEW g \in Getters, GetStep(g) PROVE Exclusion' /\ Analysis'
      BY <2>3, GetterKeeps
    <2>4. CASE UNCHANGED vars
      BY <2>1, <2>4 DEF vars, ContainerInv, Exclusion, Analysis, Goroutines, Inside
    <2>5. QED
      BY <2>1, <2>2, <2>3, <2>4 DEF Next, ContainerInv
  <1>3. QED
    BY <1>1, <1>2, PTL DEF Spec

\* A getter never returns without what was added before it was called.
THEOREM CompleteAnswers ==
  ASSUME ~Overlap
  PROVE  Spec => []AnswersAreComplete
  <1>1. ContainerInv => AnswersAreComplete
    BY DEF ContainerInv, Analysis, AnswersAreComplete
  <1>2. QED
    BY <1>1, ContainerInvariance, PTL

\* The flag of the Once vouches for the cache.
THEOREM FlagVouches ==
  ASSUME ~Overlap
  PROVE  Spec => []DoneMeansCurrent
  <1>1. ContainerInv => DoneMeansCurrent
    BY DEF ContainerInv, Analysis, DoneMeansCurrent
  <1>2. QED
    BY <1>1, ContainerInvariance, PTL

\* A set of expressions is analysed at most once.
THEOREM OneAnalysis ==
  ASSUME ~Overlap
  PROVE  Spec => []AnalysedOnce
  <1>1. ContainerInv => AnalysedOnce
    BY DEF ContainerInv, Analysis, AnalysedOnce
  <1>2. QED
    BY <1>1, ContainerInvariance, PTL

\* However many goroutines are in calls, they never all wait for each other.
THEOREM NoDeadlock ==
  ASSUME ~Overlap
  PROVE  Spec => []SomeoneMoves
  <1>1. ContainerInv => SomeoneMoves
    <2> SUFFICES ASSUME ContainerInv, NEW g \in InCall
                 PROVE  \E h \in InCall : ~Waits(h)
      BY DEF SomeoneMoves
    <2> USE DEF ContainerInv, InCall, Waits
    <2>1. g \in Goroutines /\ at[g] # "idle"
      OBVIOUS
    \* An adder is alone: what it locks is free, or its own.
    <2>2. CASE g \in Adders
      <3>1. at[g] \in AdderSteps
        BY <2>2 DEF TypeOK
      <3>2. at[g] = "lock" => writer = NoOne
        BY <2>2 DEF TypeOK, Exclusion, Goroutines
      <3>3. ~Waits(g)
        BY <2>1, <3>1, <3>2 DEF AdderSteps
      <3> QED
        BY <3>3
    \* Of getters the one inside the Once moves on, and while there is none
    \* the Once is free.
    <2>3. CASE g \in Getters
      <3>1. writer = NoOne
        BY <2>1, <2>3, ContainerAssumption DEF TypeOK, Exclusion, Goroutines
      <3>2. CASE \E h \in Getters : at[h] \in Inside
        <4>1. PICK h \in Getters : at[h] \in Inside
          BY <3>2
        <4>2. h \in InCall /\ ~Waits(h)
          BY <3>1, <4>1 DEF Inside, Goroutines
        <4> QED
          BY <4>2
      <3>3. CASE ~(\E h \in Getters : at[h] \in Inside)
        <4>1. ~onceLocked
          BY <3>3 DEF Exclusion
        <4>2. ~Waits(g)
          BY <3>1, <4>1
        <4> QED
          BY <4>2
      <3> QED
        BY <3>2, <3>3
    <2> QED
      BY <2>1, <2>2, <2>3 DEF Goroutines
  <1>2. QED
    BY <1>1, ContainerInvariance, PTL

-----------------------------------------------------------------------------
(* Refinement of AtomicContainer.                                          *)

\* The empty container is the empty atomic container.
LEMMA InitRefines == Init => Atomic!Init
  BY DEF Init, Atomic!Init

\* Every step is a step of the atomic container, or changes nothing in it.
LEMMA StepRefines ==
  ASSUME ~Overlap, ContainerInv, ContainerInv', [Next]_vars
  PROVE  [Atomic!Next]_(Atomic!vars)
  <1> USE DEF ContainerInv
  <1>1. ASSUME NEW a \in Adders,
               (\E e \in (Exprs \ expressions) \cup {Nil} : Add(a, e)) \/ AddLock(a)
        PROVE  UNCHANGED Atomic!vars
    BY <1>1 DEF Add, AddLock, Atomic!vars
  \* The new Once: nothing is added yet.
  <1>2. ASSUME NEW a \in Adders, ResetOnce(a)
        PROVE  Atomic!Add(Nil)
    BY <1>2 DEF ResetOnce, Atomic!Add, TypeOK
  <1>3. ASSUME NEW a \in Adders, AddAppend(a)
        PROVE  Atomic!Add(arg[a])
    <2>1. at[a] = "append" /\ \A g \in Getters : at[g] = "idle"
      BY <1>3, ContainerAssumption DEF AddAppend, Exclusion, Goroutines
    <2>2. runs = 0
      BY <2>1 DEF Analysis
    <2> QED
      BY <1>3, <2>2 DEF AddAppend, Atomic!Add
  \* The extraction is the analysis.
  <1>4. ASSUME NEW g \in Getters, Extract(g)
        PROVE  Atomic!Analyse
    <2>1. runs = 0
      BY <1>4 DEF Extract, Exclusion, Analysis, Inside
    <2> QED
      BY <1>4, <2>1 DEF Extract, Atomic!Analyse
  <1>5. ASSUME NEW g \in Getters,
               \/ Get(g) \/ OnceFast(g) \/ OnceLock(g) \/ OnceCheck(g)
               \/ Store(g) \/ OnceDone(g) \/ OnceUnlock(g)
        PROVE  UNCHANGED Atomic!vars
    BY <1>5 DEF Get, OnceFast, OnceLock, OnceCheck, Store, OnceDone, OnceUnlock,
       Atomic!vars
  \* What is read is current, as the flag was seen to be set.
  <1>6. ASSUME NEW g \in Getters, ReadCached(g)
        PROVE  Atomic!Answer(g)
    <2>1. cached = expressions /\ runs = 1
      BY <1>6 DEF ReadCached, Analysis
    <2> QED
      BY <1>6, <2>1 DEF ReadCached, Atomic!Answer
  <1>7. CASE UNCHANGED vars
    BY <1>7 DEF vars, Atomic!vars
  <1>8. \A a \in Adders : arg[a] \in Exprs \cup {Nil}
    BY DEF TypeOK
  <1> QED
    BY <1>1, <1>2, <1>3, <1>4, <1>5, <1>6, <1>7, <1>8
    DEF Next, AddStep, GetStep, Analyze, Atomic!Next

\* While Add and the getters are kept apart, the container is an atomic one:
\* each getter has all that was added, analysed once.
THEOREM Refinement ==
  ASSUME ~Overlap
  PROVE  Spec => ImplementsAtomicContainer
  <1>1. ContainerInv /\ ContainerInv' /\ [Next]_vars => [Atomic!Next]_(Atomic!vars)
    BY StepRefines
  <1>2. QED
    BY <1>1, InitRefines, ContainerInvariance, PTL
    DEF Spec, Atomic!Spec, ImplementsAtomicContainer

=============================================================================
