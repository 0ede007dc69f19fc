--------------------------- MODULE ExprContainer ---------------------------
(***************************************************************************)
(* internal/bggoexpr/container.go: expressions are added while a file is   *)
(* parsed, and analysed once, by the first getter.  The analysis runs      *)
(* inside a sync.Once that Add replaces, and touches the fields under an   *)
(* RWMutex; the Once is not under that mutex.                              *)
(*                                                                         *)
(* A set of expressions stands for what the analysis finds in it, so the   *)
(* cached references and called functions are the set they were found in.  *)
(* References and CalledFunctions are the same steps and differ in the     *)
(* field they return.                                                      *)
(*                                                                         *)
(* sync.Once is as Go's library has it: a flag, read without a lock on the *)
(* fast path; else its mutex, the flag again, the function, the flag set,  *)
(* the mutex unlocked.  Unlocking a mutex that is not locked is fatal.     *)
(*                                                                         *)
(* Nothing in the code keeps Add and the getters apart; the note in Add    *)
(* (lines 35-37) leaves that to the callers.  Theirs are MayAdd and        *)
(* MayGet, and Overlap lifts them.                                         *)
(***************************************************************************)
EXTENDS Naturals

CONSTANTS Exprs,       \* expressions
          Nil,         \* the nil expression, which Add ignores
          Getters,     \* goroutines that ask for references or functions
          Adders,      \* goroutines that add expressions
          NoOne,       \* the mutex is free
          Overlap      \* do callers add while others get?  (line 36: no)

\* Marks are no members of the sets they mark, and nobody adds and gets.
ASSUME ContainerAssumption ==
  /\ Nil \notin Exprs
  /\ NoOne \notin Adders /\ Getters \cap Adders = {}
  /\ Overlap \in BOOLEAN

VARIABLES
  expressions,  \* Container.expressions
  cached,       \* Container.references and .calledFunctions
  done,         \* analyzeOnce.done
  onceLocked,   \* analyzeOnce.m
  writer,       \* the goroutine that holds mu for writing, or NoOne
  at,           \* at[g]: the step goroutine g is before
  arg,          \* arg[a]: the expression adder a was called with
  extracted,    \* extracted[g]: refs, funcs, the local results of analyze
  answer,       \* answer[g]: what g's last call returned
  before,       \* before[g]: the expressions whose Add had returned when
                \*            g's call began
  runs,         \* how often the analysis ran since the last Add
  crashed       \* the run-time system has stopped the program

vars == <<expressions, cached, done, onceLocked, writer, at, arg, extracted,
          answer, before, runs, crashed>>

Goroutines == Getters \cup Adders

GetterSteps == {"idle", "fast", "slow", "again", "extract", "store",
                "finish", "unlock", "read"}
AdderSteps == {"idle", "lock", "reset", "append"}

\* Values and places of the fields and goroutines.
TypeOK ==
  /\ expressions \in SUBSET Exprs
  /\ cached \in SUBSET Exprs
  /\ done \in BOOLEAN
  /\ onceLocked \in BOOLEAN
  /\ writer \in Adders \cup {NoOne}
  /\ at \in [Goroutines -> GetterSteps \cup AdderSteps]
  /\ \A g \in Getters : at[g] \in GetterSteps
  /\ \A a \in Adders : at[a] \in AdderSteps
  /\ arg \in [Adders -> Exprs \cup {Nil}]
  /\ extracted \in [Getters -> SUBSET Exprs]
  /\ answer \in [Getters -> SUBSET Exprs]
  /\ before \in [Getters -> SUBSET Exprs]
  /\ runs \in Nat
  /\ crashed \in BOOLEAN

Init ==
  /\ expressions = {} /\ cached = {}
  /\ done = FALSE /\ onceLocked = FALSE /\ writer = NoOne
  /\ at = [g \in Goroutines |-> "idle"]
  /\ arg = [a \in Adders |-> Nil]
  /\ extracted = [g \in Getters |-> {}]
  /\ answer = [g \in Getters |-> {}]
  /\ before = [g \in Getters |-> {}]
  /\ runs = 0
  /\ crashed = FALSE

Goto(g, step) == at' = [at EXCEPT ![g] = step]

-----------------------------------------------------------------------------
(* Add.                                                                    *)

Add(a, e) ==
  /\ at[a] = "idle"
  /\ arg' = [arg EXCEPT ![a] = e]
  /\ Goto(a, "lock")
  /\ UNCHANGED <<expressions, cached, done, onceLocked, writer, extracted,
                 answer, before, runs, crashed>>

AddLock(a) ==
  /\ at[a] = "lock" /\ writer = NoOne
  /\ writer' = a
  /\ Goto(a, "reset")
  /\ UNCHANGED <<expressions, cached, done, onceLocked, arg, extracted,
                 answer, before, runs, crashed>>

\* Faulty variant: the analysis of an earlier set stays valid.
KeepOnce(a) ==
  /\ at[a] = "reset"
  /\ runs' = 0
  /\ Goto(a, "append")
  /\ UNCHANGED <<expressions, cached, done, onceLocked, writer, arg, extracted,
                 answer, before, crashed>>

\* c.analyzeOnce = sync.Once{}: a new flag and a new mutex, whoever is
\* inside the old ones.
ResetOnce(a) ==
  /\ at[a] = "reset"
  /\ done' = FALSE /\ onceLocked' = FALSE
  /\ runs' = 0
  /\ Goto(a, "append")
  /\ UNCHANGED <<expressions, cached, writer, arg, extracted, answer, before,
                 crashed>>

\* Faulty variant: Add returns with the lock held.
AppendNoUnlock(a) ==
  /\ at[a] = "append"
  /\ expressions' = expressions \cup ({arg[a]} \ {Nil})
  /\ Goto(a, "idle")
  /\ UNCHANGED <<cached, done, onceLocked, writer, arg, extracted, answer,
                 before, runs, crashed>>

\* Faulty variant: a nil expression is kept.
AppendNil(a) ==
  /\ at[a] = "append"
  /\ expressions' = expressions \cup {arg[a]}
  /\ writer' = NoOne
  /\ Goto(a, "idle")
  /\ UNCHANGED <<cached, done, onceLocked, arg, extracted, answer, before,
                 runs, crashed>>

\* Append what is not nil, and unlock.
AddAppend(a) ==
  /\ at[a] = "append"
  /\ expressions' = expressions \cup ({arg[a]} \ {Nil})
  /\ writer' = NoOne
  /\ Goto(a, "idle")
  /\ UNCHANGED <<cached, done, onceLocked, arg, extracted, answer, before,
                 runs, crashed>>

-----------------------------------------------------------------------------
(* References and CalledFunctions.                                         *)

Get(g) ==
  /\ at[g] = "idle"
  /\ before' = [before EXCEPT ![g] = expressions]
  /\ Goto(g, "fast")
  /\ UNCHANGED <<expressions, cached, done, onceLocked, writer, arg, extracted,
                 answer, runs, crashed>>

\* Once.Do: the flag without the lock.
OnceFast(g) ==
  /\ at[g] = "fast"
  /\ Goto(g, IF done THEN "read" ELSE "slow")
  /\ UNCHANGED <<expressions, cached, done, onceLocked, writer, arg, extracted,
                 answer, before, runs, crashed>>

OnceLock(g) ==
  /\ at[g] = "slow" /\ ~onceLocked
  /\ onceLocked' = TRUE
  /\ Goto(g, "again")
  /\ UNCHANGED <<expressions, cached, done, writer, arg, extracted, answer,
                 before, runs, crashed>>

\* Faulty variant: the flag is not read again under the mutex.
OnceNoCheck(g) ==
  /\ at[g] = "again"
  /\ Goto(g, "extract")
  /\ UNCHANGED <<expressions, cached, done, onceLocked, writer, arg, extracted,
                 answer, before, runs, crashed>>

\* Faulty variant: the flag is set before the function runs, as with a plain
\* compare-and-swap.
OnceSetsFirst(g) ==
  /\ at[g] = "again"
  /\ done' = TRUE
  /\ Goto(g, IF done THEN "unlock" ELSE "extract")
  /\ UNCHANGED <<expressions, cached, onceLocked, writer, arg, extracted,
                 answer, before, runs, crashed>>

\* The flag again: another getter may have finished in between.
OnceCheck(g) ==
  /\ at[g] = "again"
  /\ Goto(g, IF done THEN "unlock" ELSE "extract")
  /\ UNCHANGED <<expressions, cached, done, onceLocked, writer, arg, extracted,
                 answer, before, runs, crashed>>

\* The analysis, under the read lock.
Extract(g) ==
  /\ at[g] = "extract" /\ writer = NoOne
  /\ extracted' = [extracted EXCEPT ![g] = expressions]
  /\ runs' = runs + 1
  /\ Goto(g, "store")
  /\ UNCHANGED <<expressions, cached, done, onceLocked, writer, arg, answer,
                 before, crashed>>

\* Its results, under the write lock.
Store(g) ==
  /\ at[g] = "store" /\ writer = NoOne
  /\ cached' = extracted[g]
  /\ Goto(g, "finish")
  /\ UNCHANGED <<expressions, done, onceLocked, writer, arg, extracted, answer,
                 before, runs, crashed>>

OnceDone(g) ==
  /\ at[g] = "finish"
  /\ done' = TRUE
  /\ Goto(g, "unlock")
  /\ UNCHANGED <<expressions, cached, onceLocked, writer, arg, extracted,
                 answer, before, runs, crashed>>

\* "fatal error: sync: unlock of unlocked mutex" ends the program.
OnceUnlock(g) ==
  /\ at[g] = "unlock"
  /\ crashed' = ~onceLocked
  /\ onceLocked' = FALSE
  /\ Goto(g, "read")
  /\ UNCHANGED <<expressions, cached, done, writer, arg, extracted, answer,
                 before, runs>>

\* The field, under the read lock, and the return.
ReadCached(g) ==
  /\ at[g] = "read" /\ writer = NoOne
  /\ answer' = [answer EXCEPT ![g] = cached]
  /\ Goto(g, "idle")
  /\ UNCHANGED <<expressions, cached, done, onceLocked, writer, arg, extracted,
                 before, runs, crashed>>

-----------------------------------------------------------------------------
(* The callers, as the note in Add has them: one of them adds at a time,   *)
(* and none while another is in a getter.                                  *)

MayAdd == Overlap \/ \A g \in Goroutines : at[g] = "idle"

MayGet == Overlap \/ \A a \in Adders : at[a] = "idle"

AddStep(a) ==
  \/ \E e \in (Exprs \ expressions) \cup {Nil} : MayAdd /\ Add(a, e)
  \/ AddLock(a) \/ ResetOnce(a) \/ AddAppend(a)

Analyze(g) ==
  \/ OnceFast(g) \/ OnceLock(g) \/ OnceCheck(g)
  \/ Extract(g) \/ Store(g)
  \/ OnceDone(g) \/ OnceUnlock(g)

GetStep(g) == (MayGet /\ Get(g)) \/ Analyze(g) \/ ReadCached(g)

Next ==
  /\ ~crashed
  /\ \/ \E a \in Adders : AddStep(a)
     \/ \E g \in Getters : GetStep(g)

Spec == Init /\ [][Next]_vars

\* Every goroutine in a call that is not blocked is scheduled.
Fairness ==
  /\ \A a \in Adders : WF_vars(~crashed /\ (AddLock(a) \/ ResetOnce(a) \/ AddAppend(a)))
  /\ \A g \in Getters : WF_vars(~crashed /\ (Analyze(g) \/ ReadCached(g)))

FairSpec == Spec /\ Fairness

-----------------------------------------------------------------------------
(* Properties                                                              *)

\* A getter's answer covers every expression whose Add had returned when the
\* getter was called ("thread-safe helper", container.go 10).
AnswersAreComplete ==
  \A g \in Getters : at[g] = "idle" => before[g] \subseteq answer[g]

\* A getter that takes the fast path finds the analysis of everything added:
\* the flag of the Once vouches for the cache.
DoneMeansCurrent ==
  done /\ (\A a \in Adders : at[a] \in {"idle", "lock"}) => cached = expressions

\* "It's guaranteed to run only once for a given set of expressions"
\* (container.go 47), however many getters are called at the same time.
AnalysedOnce == runs <= 1

\* Who is in a call and does not wait for a mutex.
InCall == {g \in Goroutines : at[g] # "idle"}

Waits(g) ==
  \/ at[g] = "slow" /\ onceLocked
  \/ at[g] \in {"lock", "extract", "store", "read"} /\ writer # NoOne

\* Of those in a call, one at least does not wait: the Once's mutex and the
\* container's, taken one inside the other and twice, never have everyone
\* wait for everyone.
SomeoneMoves == InCall # {} => \E g \in InCall : ~Waits(g)

\* The container implements the atomic one.  The set is analysed from the
\* extraction on, and the Once that Add makes is an Add of nothing yet.
Atomic == INSTANCE AtomicContainer WITH
            contents <- expressions,
            analysed <- runs > 0

ImplementsAtomicContainer == Atomic!Spec

\* Every call returns.
CallsReturn ==
  \A g \in Goroutines : (at[g] # "idle") ~> (at[g] = "idle")

=============================================================================
