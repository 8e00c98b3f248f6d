-------------------------------- MODULE Cli --------------------------------
(***************************************************************************)
(* cli/main.gray: gray runs the command it is given.  The commands modelled*)
(* are watch (Watch) and update (Update); the files one of them works on   *)
(* are not those of the other.                                             *)
(***************************************************************************)
EXTENDS Watch, Update

VARIABLE command   \* invocation.command

cli == <<watch, update, command>>

CliInit ==
  /\ command \in {"watch", "update"}
  /\ WatchInit
  /\ UpdateInit

run_command ==
  \/ command = "watch" /\ watch_loop /\ UNCHANGED update
  \/ command = "update" /\ UpdateNext /\ UNCHANGED watch

CliNext ==
  /\ \/ run_command
     \/ command = "watch" /\ Edit /\ UNCHANGED update
  /\ UNCHANGED command

CliSpec == CliInit /\ [][CliNext]_cli /\ WF_cli(command = "watch" /\ watch_loop /\ UNCHANGED <<update, command>>)
=============================================================================
