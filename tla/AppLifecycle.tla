---------------------------- MODULE AppLifecycle ----------------------------
(***************************************************************************)
(* cmd/cli and internal/app: one run of the program, from its arguments to *)
(* its exit code, and the health check server beside it.                   *)
(*                                                                         *)
(* Three goroutines: main (main, run, App.Run and Cleanup), the one Run    *)
(* starts to configure the server (healthCheckServer), and the one that    *)
(* starts to serve (ListenAndServe).  They share app.httpServer without a  *)
(* lock; the write of the one and the read of the other may come in either *)
(* order.  Signals cancel app.ctx, which only Shutdown's context looks at: *)
(* the executor of this version does not.                                  *)
(*                                                                         *)
(* net/http is modelled by what the code relies on.  Shutdown marks the    *)
(* server, closes its listeners, waits for Serve to leave, and then for    *)
(* the connections to become idle or its context to end.  ListenAndServe   *)
(* looks at the mark before it binds and again before it serves.           *)
(***************************************************************************)
EXTENDS CommandLine

CONSTANT MaxConns    \* bound: connections open at one time

ASSUME ConnsAssumption == MaxConns \in Nat

VARIABLES
  main,       \* where main stands
  err,        \* the error run returns, by its origin
  hc,         \* where healthCheckServer stands
  httpServer, \* app.httpServer # nil
  lp,         \* where the serving goroutine stands
  shutting,   \* Server.inShutdown
  conns,      \* connections with a request in progress
  args,       \* the arguments, and so the configuration
  cancelled,  \* a signal has cancelled app.ctx
  expired,    \* the five seconds of Shutdown's context are over
  session,    \* the execution session of Run
  closing,    \* what closeHealthCheckServer has come to
  code        \* the exit code

vars == <<main, err, hc, httpServer, lp, shutting, conns, args, cancelled,
          expired, session, closing, code>>

serverVars == <<lp, shutting, conns>>
given == <<args, cancelled>>

MainSteps == {"parse", "start", "modules", "grids", "session", "execute",
              "close", "cleanup", "shutdown", "leave", "drain", "returned", "exited"}
Errors == {"none", "usage", "grid", "panic"}
Closings == {"open", "not running", "graceful", "gave up"}

Running == main # "exited"

\* The places of the goroutines and the fields they share.
TypeOK ==
  /\ main \in MainSteps
  /\ err \in Errors
  /\ hc \in {"none", "configure", "launch", "done"}
  /\ httpServer \in BOOLEAN
  /\ lp \in {"none", "start", "bound", "serving", "closed", "failed"}
  /\ shutting \in BOOLEAN
  /\ conns \in 0..MaxConns
  /\ args \in Arguments
  /\ cancelled \in BOOLEAN
  /\ expired \in BOOLEAN
  /\ session \in {"none", "open", "closed"}
  /\ closing \in Closings
  /\ code \in {0, 1, 2}

Init ==
  /\ main = "parse" /\ err = "none"
  /\ hc = "none" /\ httpServer = FALSE
  /\ lp = "none" /\ shutting = FALSE /\ conns = 0
  /\ args \in Arguments
  /\ cancelled = FALSE /\ expired = FALSE
  /\ session = "none" /\ closing = "open" /\ code = 0

-----------------------------------------------------------------------------
(* main                                                                    *)

\* cli.Parse: a configuration; -h or no grid path, and nothing is left to
\* do; or an ExitError.
ParseArgs ==
  /\ main = "parse"
  /\ main' = IF Configured(args) THEN "start" ELSE "returned"
  /\ err' = IF WrongArguments(args) THEN "usage" ELSE "none"
  /\ UNCHANGED <<hc, httpServer, serverVars, given, expired, session, closing,
                 code>>

\* App.Run defers Cleanup and starts the health check goroutine.
StartRun ==
  /\ main = "start"
  /\ hc' = "configure"
  /\ main' = "modules"
  /\ UNCHANGED <<err, httpServer, serverVars, given, expired, session,
                 closing, code>>

\* Faulty variant: a panic leaves Run without the deferred Cleanup.
PanicSkipsCleanup ==
  /\ main = "modules"
  /\ \/ main' = "grids" /\ err' = err
     \/ main' = "returned" /\ err' = "panic"
  /\ UNCHANGED <<hc, httpServer, serverVars, given, expired, session, closing,
                 code>>

\* LoadModules: its error is dropped; a manifest may make it panic
\* (HCLTypeToCtyType), and then the deferred calls run.
LoadModules ==
  /\ main = "modules"
  /\ \/ main' = "grids" /\ err' = err
     \/ main' = "cleanup" /\ err' = "panic"
  /\ UNCHANGED <<hc, httpServer, serverVars, given, expired, session, closing,
                 code>>

\* An error of the grid leaves Run, and so does a panic (parseCount,
\* parseForEach).
LoadGrids ==
  /\ main = "grids"
  /\ \/ main' = "session" /\ err' = err
     \/ main' = "cleanup" /\ err' \in {"grid", "panic"}
  /\ UNCHANGED <<hc, httpServer, serverVars, given, expired, session, closing,
                 code>>

\* SessionFactory.NewSession wires up stores, graph and executor; Run defers
\* the session's Close after it has deferred Cleanup.
OpenSession ==
  /\ main = "session"
  /\ main' = "execute" /\ session' = "open"
  /\ UNCHANGED <<err, hc, httpServer, serverVars, given, expired, closing, code>>

\* Executor.Execute of this version does nothing.
Execute ==
  /\ main = "execute"
  /\ main' = "close"
  /\ UNCHANGED <<err, hc, httpServer, serverVars, given, expired, session,
                 closing, code>>

CloseSession ==
  /\ main = "close"
  /\ main' = "cleanup" /\ session' = "closed"
  /\ UNCHANGED <<err, hc, httpServer, serverVars, given, expired, closing, code>>

\* closeHealthCheckServer looks at app.httpServer once.
Cleanup ==
  /\ main = "cleanup"
  /\ IF httpServer
     THEN main' = "shutdown" /\ closing' = closing
     ELSE main' = "returned" /\ closing' = "not running"
  /\ UNCHANGED <<err, hc, httpServer, serverVars, given, expired, code,
                 session>>

\* Server.Shutdown: the mark, and the listeners.
Shutdown ==
  /\ main = "shutdown"
  /\ shutting' = TRUE
  /\ main' = "leave"
  /\ UNCHANGED <<err, hc, httpServer, lp, conns, given, expired, session,
                 closing, code>>

\* Server.listenerGroup.Wait: Serve has returned.
ListenersLeft ==
  /\ main = "leave" /\ lp # "serving"
  /\ main' = "drain"
  /\ UNCHANGED <<err, hc, httpServer, serverVars, given, expired, session,
                 closing, code>>

\* Shutdown's loop: first the connections, then the context.
Drained ==
  /\ main = "drain" /\ conns = 0
  /\ closing' = "graceful"
  /\ main' = "returned"
  /\ UNCHANGED <<err, hc, httpServer, serverVars, given, expired, code,
                 session>>

\* Faulty variant: the context is not looked at.
NeverGiveUp == FALSE /\ UNCHANGED vars

\* Faulty variant: Shutdown's error is dropped, and success is logged.
GiveUpUnnoticed ==
  /\ main = "drain" /\ conns > 0 /\ (expired \/ cancelled)
  /\ closing' = "graceful"
  /\ main' = "returned"
  /\ UNCHANGED <<err, hc, httpServer, serverVars, given, expired, code,
                 session>>

GiveUp ==
  /\ main = "drain" /\ conns > 0 /\ (expired \/ cancelled)
  /\ closing' = "gave up"
  /\ main' = "returned"
  /\ UNCHANGED <<err, hc, httpServer, serverVars, given, expired, code,
                 session>>

\* The five seconds; the context exists from Shutdown on.
Expire ==
  /\ main \in {"shutdown", "leave", "drain"} /\ ~expired
  /\ expired' = TRUE
  /\ UNCHANGED <<main, err, hc, httpServer, serverVars, given, session,
                 closing, code>>

\* Faulty variant: a panic is recovered and forgotten.
ExitForgetsPanic ==
  /\ main = "returned"
  /\ code' = CASE err = "usage" -> 2 [] err = "grid" -> 1 [] OTHER -> 0
  /\ main' = "exited"
  /\ UNCHANGED <<err, hc, httpServer, serverVars, given, expired, session,
                 closing>>

\* run recovers a panic into an error; main turns errors into exit codes.
Exit ==
  /\ main = "returned"
  /\ code' = CASE err = "usage" -> 2 [] err = "none" -> 0 [] OTHER -> 1
  /\ main' = "exited"
  /\ UNCHANGED <<err, hc, httpServer, serverVars, given, expired, session,
                 closing>>

\* SIGINT or SIGTERM, between NotifyContext and stop.
Signal ==
  /\ main \notin {"parse", "returned", "exited"} /\ ~cancelled
  /\ cancelled' = TRUE
  /\ UNCHANGED <<main, err, hc, httpServer, serverVars, args, expired,
                 session, closing, code>>

-----------------------------------------------------------------------------
(* The health check goroutines                                             *)

\* healthCheckServer up to the assignment of app.httpServer.
ConfigureServer ==
  /\ Running /\ hc = "configure"
  /\ IF args.port > 0
     THEN httpServer' = TRUE /\ hc' = "launch"
     ELSE httpServer' = FALSE /\ hc' = "done"
  /\ UNCHANGED <<main, err, serverVars, given, expired, session, closing,
                 code>>

LaunchServer ==
  /\ Running /\ hc = "launch"
  /\ hc' = "done"
  /\ lp' = "start"
  /\ UNCHANGED <<main, err, httpServer, shutting, conns, given, expired,
                 session, closing, code>>

\* ListenAndServe: ErrServerClosed if marked; else bind, or fail to.
Listen ==
  /\ Running /\ lp = "start"
  /\ \/ shutting /\ lp' = "closed"
     \/ ~shutting /\ lp' \in {"bound", "failed"}
  /\ UNCHANGED <<main, err, hc, httpServer, shutting, conns, given, expired,
                 session, closing, code>>

\* Faulty variant: Serve does not look at the mark again.
ServeUnchecked ==
  /\ Running /\ lp = "bound"
  /\ lp' = "serving"
  /\ UNCHANGED <<main, err, hc, httpServer, shutting, conns, given, expired,
                 session, closing, code>>

\* Serve: a marked server takes no listener.
Serve ==
  /\ Running /\ lp = "bound"
  /\ lp' = IF shutting THEN "closed" ELSE "serving"
  /\ UNCHANGED <<main, err, hc, httpServer, shutting, conns, given, expired,
                 session, closing, code>>

\* Accept fails once Shutdown has closed the listener.
ServeReturns ==
  /\ Running /\ lp = "serving" /\ shutting
  /\ lp' = "closed"
  /\ UNCHANGED <<main, err, hc, httpServer, shutting, conns, given, expired,
                 session, closing, code>>

\* A client connects and sends a request.
Accept ==
  /\ Running /\ lp = "serving" /\ ~shutting /\ conns < MaxConns
  /\ conns' = conns + 1
  /\ UNCHANGED <<main, err, hc, httpServer, lp, shutting, given, expired,
                 session, closing, code>>

\* Faulty variant: a request is taken for answered twice.
RespondTwice ==
  /\ Running /\ lp = "serving"
  /\ conns' = conns - 1
  /\ UNCHANGED <<main, err, hc, httpServer, lp, shutting, given, expired,
                 session, closing, code>>

\* healthHandler answers, and the connection is idle.
Respond ==
  /\ Running /\ conns > 0
  /\ conns' = conns - 1
  /\ UNCHANGED <<main, err, hc, httpServer, lp, shutting, given, expired,
                 session, closing, code>>

-----------------------------------------------------------------------------

MainStep ==
  \/ ParseArgs \/ StartRun \/ LoadModules \/ LoadGrids
  \/ OpenSession \/ Execute \/ CloseSession
  \/ Cleanup \/ Shutdown \/ ListenersLeft \/ Drained \/ GiveUp \/ Exit

Next ==
  \/ MainStep
  \/ Expire \/ Signal
  \/ ConfigureServer \/ LaunchServer
  \/ Listen \/ Serve \/ ServeReturns \/ Accept \/ Respond

Spec == Init /\ [][Next]_vars

\* Goroutines run and time passes; clients and signals owe us nothing.
Fairness ==
  /\ WF_vars(MainStep) /\ WF_vars(Expire)
  /\ WF_vars(ConfigureServer) /\ WF_vars(LaunchServer)
  /\ WF_vars(Listen) /\ WF_vars(Serve) /\ WF_vars(ServeReturns)

FairSpec == Spec /\ Fairness

-----------------------------------------------------------------------------
(* Properties                                                              *)

Over == main \in {"returned", "exited"}

\* When Cleanup found the server and Shutdown came back, nothing is served
\* any more, at whatever point of ListenAndServe Shutdown met it.
ShutdownStopsServing == closing \in {"graceful", "gave up"} => lp # "serving"

\* "Health check server shut down gracefully" is logged only when no request
\* is in progress, and none comes later.
GracefulMeansIdle == closing = "graceful" => conns = 0

\* However Run is left, by an error, a panic or its end, Cleanup has run by
\* then, and a session that was opened was closed before Cleanup began.
RunCleansUp ==
  /\ Over /\ hc # "none" => closing # "open"
  /\ closing # "open" \/ main \in {"cleanup", "shutdown", "leave", "drain"} =>
       session # "open"

\* 2 is the exit code of arguments that are wrong, and of nothing else; they
\* start nothing.  Help, and usage for want of a path, count as success,
\* other flags unread; grids that do not load and panics do not.
ExitCodeIsHonest ==
  main = "exited" =>
    LET asked == {args.grid, args.g, args.first} # {NoPath}
        wrong == \/ args.flags = "wrong"
                 \/ args.flags = "right" /\ asked
                    /\ "unknown" \in {args.format, args.level}
    IN /\ code = 2 <=> wrong
       /\ code = 1 <=> err \in {"grid", "panic"}
       /\ hc = "none" <=> wrong \/ args.flags = "help" \/ ~asked

\* The program ends: neither a client that never lets go nor a server that
\* starts late keeps Cleanup waiting.
Terminates == <>(main = "exited")

\* "Application resources closed successfully." (app.go 89) is logged when
\* Cleanup is over: then the health check server does not serve.
NothingServedAfterCleanup == Over => lp # "serving"

\* "Create a context with a timeout for the shutdown process"
\* (healthcheck.go 61): requests in progress have the five seconds.
GivesUpOnlyAfterTimeout == closing = "gave up" => expired

=============================================================================
