----------------------------- MODULE MCProgram -----------------------------
(***************************************************************************)
(* The program for TLC: without a command it serves, with one it runs the  *)
(* command (main.rs: main), here next to another of its kind.              *)
(***************************************************************************)
EXTENDS Publishing

CONSTANTS
  Requests,      \* the calls of a session
  MaxMisreads    \* bound: times the probe fails to see a living parent

VARIABLES
  command,
  server, method, call, shutdown, exited, input, monitor, alive, misreads, process

session == <<server, method, call, shutdown, exited, input, monitor, alive, misreads, process>>

Session == INSTANCE Lifecycle

ProgramInit ==
  /\ command \in {"serve", "publish"}
  /\ Session!Init
  /\ Init
  /\ command = "serve" => /\ kind = [c \in Commands |-> "convert"]
                           /\ source = "first" /\ destination = Absent

Serve ==
  /\ command = "serve"
  /\ Session!Next
  /\ UNCHANGED <<command, vars>>

Publish ==
  /\ command = "publish"
  /\ Next
  /\ UNCHANGED <<command, session>>

ProgramNext == Serve \/ Publish

ProgramSpec == ProgramInit /\ [][ProgramNext]_<<command, session, vars>> /\ Session!Fairness

\* The exit status tells whether a shutdown was accepted.
ExitStatusIsRight == Session!ExitStatusIsRight

\* No process outlives the parent that its initialize named.
OrphansEnd == Session!OrphansEnd
=============================================================================
