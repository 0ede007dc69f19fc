---------------------------- MODULE CommandLine ----------------------------
(***************************************************************************)
(* cli.Parse and app.NewConfig: from the arguments to a configuration, to  *)
(* nothing that is left to do, or to an ExitError.                         *)
(*                                                                         *)
(* Arguments are what FlagSet.Parse leaves: how it ended, the two path     *)
(* flags and the first positional argument, what is known of the format    *)
(* and the level, and the port.  The other flags are passed on as they are.*)
(***************************************************************************)
EXTENDS Integers

CONSTANTS Paths,   \* grid paths
          NoPath,  \* the empty string
          Ports    \* values of -healthcheck-port

ASSUME ArgumentsAssumption == NoPath \notin Paths /\ Ports \subseteq Int

Arguments == [flags  : {"right", "help", "wrong"},
              grid   : Paths \cup {NoPath},
              g      : Paths \cup {NoPath},
              first  : Paths \cup {NoPath},
              format : {"known", "unknown"},
              level  : {"known", "unknown"},
              port   : Ports]

\* -grid goes before -g, and -g before the argument.
GridPath(args) ==
  IF args.grid # NoPath THEN args.grid
  ELSE IF args.g # NoPath THEN args.g
  ELSE args.first

\* -h, or usage for want of a path, whatever the other flags say.
NothingToDo(args) ==
  \/ args.flags = "help"
  \/ args.flags = "right" /\ GridPath(args) = NoPath

\* ExitError, code 2.  NewConfig's own check of the path never fails here.
WrongArguments(args) ==
  \/ args.flags = "wrong"
  \/ /\ args.flags = "right" /\ GridPath(args) # NoPath
     /\ args.format = "unknown" \/ args.level = "unknown"

Configured(args) == ~NothingToDo(args) /\ ~WrongArguments(args)

=============================================================================
