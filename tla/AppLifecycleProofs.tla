------------------------- MODULE AppLifecycleProofs -------------------------
(***************************************************************************)
(* Proofs about AppLifecycle, for any number of connections, any paths and *)
(* any ports.                                                              *)
(*                                                                         *)
(* One inductive invariant carries all of them.  Its parts say where main  *)
(* has to be for what the other goroutines and the fields show: Shutdown's *)
(* mark is set before main waits, and never taken back, so that a server   *)
(* that is late cannot begin to serve; and a Run that was begun can reach  *)
(* its end only through Cleanup.                                           *)
(***************************************************************************)
EXTENDS AppLifecycle, TLAPS

\* What Run may still be at.
Waiting == {"leave", "drain"}

\* From the mark on, Serve returns for good.
MarkHolds ==
  /\ main \in Waiting => shutting
  /\ main = "drain" => lp # "serving"
  /\ closing \in {"graceful", "gave up"} => shutting /\ lp # "serving"
  /\ closing = "graceful" => conns = 0

\* Who gets a configuration starts Run, and leaves it by Cleanup.
StartedByArguments ==
  /\ main \notin {"parse", "returned", "exited"} => Configured(args)
  /\ hc = "none" <=> main \in {"parse", "start"} \/ (Over /\ ~Configured(args))
  /\ closing = "open" <=> ~Over \/ ~Configured(args)
  /\ session = "open" <=> main \in {"execute", "close"}

\* An error of the arguments is told from the others.
ErrorsKeptApart ==
  /\ err = "usage" <=> main # "parse" /\ WrongArguments(args)
  /\ main = "exited" =>
       code = CASE err = "usage" -> 2 [] err = "none" -> 0 [] OTHER -> 1

IInv == TypeOK /\ MarkHolds /\ StartedByArguments /\ ErrorsKeptApart

-----------------------------------------------------------------------------

\* What Configured and WrongArguments come to, without the order in which
\* cli.Parse looks at the flags.
LEMMA ArgumentsRead ==
  ASSUME NEW a \in Arguments
  PROVE  LET asked == {a.grid, a.g, a.first} # {NoPath}
             wrong == \/ a.flags = "wrong"
                      \/ a.flags = "right" /\ asked
                         /\ "unknown" \in {a.format, a.level}
         IN /\ WrongArguments(a) <=> wrong
            /\ Configured(a) <=> ~(wrong \/ a.flags = "help" \/ ~asked)
<1>1. GridPath(a) = NoPath <=> {a.grid, a.g, a.first} = {NoPath}
  BY DEF GridPath
<1>2. /\ a.flags \in {"right", "help", "wrong"}
      /\ a.format \in {"known", "unknown"} /\ a.level \in {"known", "unknown"}
  BY DEF Arguments
<1> QED
  BY <1>1, <1>2 DEF Configured, NothingToDo, WrongArguments

LEMMA InitHolds == Init => IInv
<1> SUFFICES ASSUME Init PROVE IInv
  OBVIOUS
<1>1. main \in MainSteps /\ err \in Errors /\ closing \in Closings
  BY DEF Init, MainSteps, Errors, Closings
<1>2. conns \in 0..MaxConns /\ code \in {0, 1, 2}
  BY ConnsAssumption DEF Init
<1>3. TypeOK
  BY <1>1, <1>2 DEF Init, TypeOK
<1>4. MarkHolds
  BY DEF Init, MarkHolds, Waiting
<1>5. StartedByArguments
  BY DEF Init, StartedByArguments, Over
<1>6. ErrorsKeptApart
  BY DEF Init, ErrorsKeptApart
<1> QED
  BY <1>3, <1>4, <1>5, <1>6 DEF IInv

\* main's places, errors and the outcome of the shutdown are of those listed.
LEMMA PlacesKept ==
  IInv /\ [Next]_vars => main' \in MainSteps /\ err' \in Errors /\ closing' \in Closings
<1> SUFFICES ASSUME IInv, [Next]_vars
             PROVE  main' \in MainSteps /\ err' \in Errors /\ closing' \in Closings
  OBVIOUS
<1> USE DEF IInv, TypeOK, MainSteps, Errors, Closings
<1>1. CASE ParseArgs
  BY <1>1 DEF ParseArgs
<1>2. CASE StartRun
  BY <1>2 DEF StartRun
<1>3. CASE LoadModules
  BY <1>3 DEF LoadModules
<1>4. CASE LoadGrids
  BY <1>4 DEF LoadGrids
<1>5. CASE OpenSession
  BY <1>5 DEF OpenSession
<1>6. CASE Execute
  BY <1>6 DEF Execute
<1>7. CASE CloseSession
  BY <1>7 DEF CloseSession
<1>8. CASE Cleanup
  BY <1>8 DEF Cleanup
<1>9. CASE Shutdown
  BY <1>9 DEF Shutdown
<1>10. CASE ListenersLeft
  BY <1>10 DEF ListenersLeft
<1>11. CASE Drained
  BY <1>11 DEF Drained
<1>12. CASE GiveUp
  BY <1>12 DEF GiveUp
<1>13. CASE Exit
  BY <1>13 DEF Exit
<1>14. CASE UNCHANGED <<main, err, closing>>
  BY <1>14
<1> QED
  BY <1>1, <1>2, <1>3, <1>4, <1>5, <1>6, <1>7, <1>8, <1>9, <1>10, <1>11, <1>12,
     <1>13, <1>14
  DEF Next, MainStep, vars, Expire, Signal, ConfigureServer, LaunchServer, Listen,
      Serve, ServeReturns, Accept, Respond

\* The types are kept.
LEMMA TypeKept == IInv /\ [Next]_vars => TypeOK'
<1> SUFFICES ASSUME IInv, [Next]_vars PROVE TypeOK'
  OBVIOUS
<1>0. main' \in MainSteps /\ err' \in Errors /\ closing' \in Closings
  BY PlacesKept
<1> USE <1>0, ConnsAssumption DEF IInv, TypeOK, serverVars, given
<1>1. CASE ParseArgs
  BY <1>1 DEF ParseArgs
<1>2. CASE StartRun
  BY <1>2 DEF StartRun
<1>3. CASE LoadModules
  BY <1>3 DEF LoadModules
<1>4. CASE LoadGrids
  BY <1>4 DEF LoadGrids
<1>5. CASE OpenSession
  BY <1>5 DEF OpenSession
<1>6. CASE Execute
  BY <1>6 DEF Execute
<1>7. CASE CloseSession
  BY <1>7 DEF CloseSession
<1>8. CASE Cleanup
  BY <1>8 DEF Cleanup
<1>9. CASE Shutdown
  BY <1>9 DEF Shutdown
<1>10. CASE ListenersLeft
  BY <1>10 DEF ListenersLeft
<1>11. CASE Drained
  BY <1>11 DEF Drained
<1>12. CASE GiveUp
  BY <1>12 DEF GiveUp
<1>13. CASE Exit
  BY <1>13 DEF Exit
<1>14. CASE Expire
  BY <1>14 DEF Expire
<1>15. CASE Signal
  BY <1>15 DEF Signal
<1>16. CASE ConfigureServer
  BY <1>16 DEF ConfigureServer
<1>17. CASE LaunchServer
  BY <1>17 DEF LaunchServer
<1>18. CASE Listen
  BY <1>18 DEF Listen
<1>19. CASE Serve
  BY <1>19 DEF Serve
<1>20. CASE ServeReturns
  BY <1>20 DEF ServeReturns
<1>21. CASE Accept
  BY <1>21 DEF Accept
<1>22. CASE Respond
  BY <1>22 DEF Respond
<1>23. CASE UNCHANGED vars
  BY <1>23 DEF vars
<1> QED
    BY <1>1, <1>2, <1>3, <1>4, <1>5, <1>6, <1>7, <1>8, <1>9, <1>10, <1>11,
     <1>12, <1>13, <1>14, <1>15, <1>16, <1>17, <1>18, <1>19, <1>20, <1>21,
     <1>22, <1>23 DEF Next, MainStep

\* The mark stays, and keeps a server that is late from serving.
LEMMA MarkKept == IInv /\ [Next]_vars => MarkHolds'
<1> SUFFICES ASSUME IInv, [Next]_vars PROVE MarkHolds'
  OBVIOUS
<1> USE DEF IInv, MarkHolds, serverVars, given, Waiting
<1>1. CASE ParseArgs
  BY <1>1 DEF ParseArgs
<1>2. CASE StartRun
  BY <1>2 DEF StartRun
<1>3. CASE LoadModules
  BY <1>3 DEF LoadModules
<1>4. CASE LoadGrids
  BY <1>4 DEF LoadGrids
<1>5. CASE OpenSession
  BY <1>5 DEF OpenSession
<1>6. CASE Execute
  BY <1>6 DEF Execute
<1>7. CASE CloseSession
  BY <1>7 DEF CloseSession
<1>8. CASE Cleanup
  BY <1>8 DEF Cleanup
<1>9. CASE Shutdown
  BY <1>9 DEF Shutdown
<1>10. CASE ListenersLeft
  BY <1>10 DEF ListenersLeft
<1>11. CASE Drained
  BY <1>11 DEF Drained
<1>12. CASE GiveUp
  BY <1>12 DEF GiveUp
<1>13. CASE Exit
  BY <1>13 DEF Exit
<1>14. CASE Expire
  BY <1>14 DEF Expire
<1>15. CASE Signal
  BY <1>15 DEF Signal
<1>16. CASE ConfigureServer
  BY <1>16 DEF ConfigureServer
<1>17. CASE LaunchServer
  BY <1>17 DEF LaunchServer
<1>18. CASE Listen
  BY <1>18 DEF Listen
<1>19. CASE Serve
  BY <1>19 DEF Serve
<1>20. CASE ServeReturns
  BY <1>20 DEF ServeReturns
<1>21. CASE Accept
  BY <1>21 DEF Accept
<1>22. CASE Respond
  <2>1. conns > 0 /\ conns \in 0..MaxConns
    BY <1>22 DEF Respond, TypeOK
  <2>2. closing = "graceful" => conns = 0
    OBVIOUS
  <2>3. conns # 0
    BY ONLY <2>1
  <2>4. closing # "graceful"
    BY <2>2, <2>3
  <2>5. UNCHANGED <<main, lp, shutting, closing>>
    BY <1>22 DEF Respond
  <2> QED
    BY <2>4, <2>5
<1>23. CASE UNCHANGED vars
  BY <1>23 DEF vars
<1> QED
    BY <1>1, <1>2, <1>3, <1>4, <1>5, <1>6, <1>7, <1>8, <1>9, <1>10, <1>11,
     <1>12, <1>13, <1>14, <1>15, <1>16, <1>17, <1>18, <1>19, <1>20, <1>21,
     <1>22, <1>23 DEF Next, MainStep

\* Run begins with a configuration, and ends with Cleanup.
LEMMA StartKept == IInv /\ [Next]_vars => StartedByArguments'
<1> SUFFICES ASSUME IInv, [Next]_vars PROVE StartedByArguments'
  OBVIOUS
<1> USE DEF IInv, StartedByArguments, serverVars, given, Over
<1>1. CASE ParseArgs
  BY <1>1 DEF ParseArgs
<1>2. CASE StartRun
  BY <1>2 DEF StartRun
<1>3. CASE LoadModules
  BY <1>3 DEF LoadModules
<1>4. CASE LoadGrids
  BY <1>4 DEF LoadGrids
<1>5. CASE OpenSession
  BY <1>5 DEF OpenSession
<1>6. CASE Execute
  BY <1>6 DEF Execute
<1>7. CASE CloseSession
  BY <1>7 DEF CloseSession
<1>8. CASE Cleanup
  BY <1>8 DEF Cleanup
<1>9. CASE Shutdown
  BY <1>9 DEF Shutdown
<1>10. CASE ListenersLeft
  BY <1>10 DEF ListenersLeft
<1>11. CASE Drained
  BY <1>11 DEF Drained
<1>12. CASE GiveUp
  BY <1>12 DEF GiveUp
<1>13. CASE Exit
  BY <1>13 DEF Exit
<1>14. CASE Expire
  BY <1>14 DEF Expire
<1>15. CASE Signal
  BY <1>15 DEF Signal
<1>16. CASE ConfigureServer
  BY <1>16 DEF ConfigureServer
<1>17. CASE LaunchServer
  BY <1>17 DEF LaunchServer
<1>18. CASE Listen
  BY <1>18 DEF Listen
<1>19. CASE Serve
  BY <1>19 DEF Serve
<1>20. CASE ServeReturns
  BY <1>20 DEF ServeReturns
<1>21. CASE Accept
  BY <1>21 DEF Accept
<1>22. CASE Respond
  BY <1>22 DEF Respond
<1>23. CASE UNCHANGED vars
  BY <1>23 DEF vars
<1> QED
    BY <1>1, <1>2, <1>3, <1>4, <1>5, <1>6, <1>7, <1>8, <1>9, <1>10, <1>11,
     <1>12, <1>13, <1>14, <1>15, <1>16, <1>17, <1>18, <1>19, <1>20, <1>21,
     <1>22, <1>23 DEF Next, MainStep

\* Run's errors do not become those of the arguments.
LEMMA ErrorsApartKept == IInv /\ [Next]_vars => ErrorsKeptApart'
<1> SUFFICES ASSUME IInv, [Next]_vars PROVE ErrorsKeptApart'
  OBVIOUS
<1> USE DEF IInv, ErrorsKeptApart, serverVars, given
<1>1. CASE ParseArgs
  BY <1>1 DEF ParseArgs
<1>2. CASE StartRun
  BY <1>2 DEF StartRun
<1>3. CASE LoadModules
  BY <1>3 DEF LoadModules, StartedByArguments, Configured
<1>4. CASE LoadGrids
  BY <1>4 DEF LoadGrids, StartedByArguments, Configured
<1>5. CASE OpenSession
  BY <1>5 DEF OpenSession
<1>6. CASE Execute
  BY <1>6 DEF Execute
<1>7. CASE CloseSession
  BY <1>7 DEF CloseSession
<1>8. CASE Cleanup
  BY <1>8 DEF Cleanup
<1>9. CASE Shutdown
  BY <1>9 DEF Shutdown
<1>10. CASE ListenersLeft
  BY <1>10 DEF ListenersLeft
<1>11. CASE Drained
  BY <1>11 DEF Drained
<1>12. CASE GiveUp
  BY <1>12 DEF GiveUp
<1>13. CASE Exit
  BY <1>13 DEF Exit
<1>14. CASE Expire
  BY <1>14 DEF Expire
<1>15. CASE Signal
  BY <1>15 DEF Signal
<1>16. CASE ConfigureServer
  BY <1>16 DEF ConfigureServer
<1>17. CASE LaunchServer
  BY <1>17 DEF LaunchServer
<1>18. CASE Listen
  BY <1>18 DEF Listen
<1>19. CASE Serve
  BY <1>19 DEF Serve
<1>20. CASE ServeReturns
  BY <1>20 DEF ServeReturns
<1>21. CASE Accept
  BY <1>21 DEF Accept
<1>22. CASE Respond
  BY <1>22 DEF Respond
<1>23. CASE UNCHANGED vars
  BY <1>23 DEF vars
<1> QED
    BY <1>1, <1>2, <1>3, <1>4, <1>5, <1>6, <1>7, <1>8, <1>9, <1>10, <1>11,
     <1>12, <1>13, <1>14, <1>15, <1>16, <1>17, <1>18, <1>19, <1>20, <1>21,
     <1>22, <1>23 DEF Next, MainStep

LEMMA Inductive == Spec => []IInv
<1>1. IInv /\ [Next]_vars => IInv'
  BY TypeKept, MarkKept, StartKept, ErrorsApartKept DEF IInv
<1> QED
  BY <1>1, InitHolds, PTL DEF Spec

-----------------------------------------------------------------------------

\* The goroutines' places and the fields keep their types.
THEOREM TypeCorrect == Spec => []TypeOK
<1>1. IInv => TypeOK
  BY DEF IInv
<1> QED
  BY <1>1, Inductive, PTL

\* Once closeHealthCheckServer's Shutdown has come back, nothing is served,
\* wherever ListenAndServe was when it was called.
THEOREM ShutdownIsFinal == Spec => []ShutdownStopsServing
<1>1. IInv => ShutdownStopsServing
  BY DEF IInv, MarkHolds, ShutdownStopsServing
<1> QED
  BY <1>1, Inductive, PTL

\* A shutdown that is logged as graceful leaves no request in progress.
THEOREM GracefulIsIdle == Spec => []GracefulMeansIdle
<1>1. IInv => GracefulMeansIdle
  BY DEF IInv, MarkHolds, GracefulMeansIdle
<1> QED
  BY <1>1, Inductive, PTL

\* Run's deferred calls run on every way out of it, the session's first.
THEOREM CleanupOnEveryWay == Spec => []RunCleansUp
<1>1. IInv => RunCleansUp
  <2> SUFFICES ASSUME IInv PROVE RunCleansUp
    OBVIOUS
  <2>1. Over /\ hc # "none" => closing # "open"
    BY DEF IInv, StartedByArguments
  <2>2. closing # "open" \/ main \in {"cleanup", "shutdown", "leave", "drain"} =>
          session # "open"
    BY DEF IInv, StartedByArguments, Over
  <2> QED
    BY <2>1, <2>2 DEF RunCleansUp
<1> QED
  BY <1>1, Inductive, PTL

\* main's exit codes tell wrong arguments, other errors and success apart.
THEOREM HonestExit == Spec => []ExitCodeIsHonest
<1>1. IInv => ExitCodeIsHonest
  <2> SUFFICES ASSUME IInv, main = "exited" PROVE ExitCodeIsHonest
    BY DEF ExitCodeIsHonest
  <2>1. /\ args \in Arguments /\ err \in {"none", "usage", "grid", "panic"}
        /\ err = "usage" <=> WrongArguments(args)
        /\ code = CASE err = "usage" -> 2 [] err = "none" -> 0 [] OTHER -> 1
        /\ hc = "none" <=> ~Configured(args)
    BY DEF IInv, TypeOK, ErrorsKeptApart, StartedByArguments, Over, Errors
  <2>2. code = 2 <=> WrongArguments(args)
    BY <2>1
  <2>3. code = 1 <=> err \in {"grid", "panic"}
    BY <2>1
  <2> QED
    BY <2>1, <2>2, <2>3, ArgumentsRead DEF ExitCodeIsHonest
<1> QED
  BY <1>1, Inductive, PTL

=============================================================================
