----------------------------- MODULE Lifecycle -----------------------------
(***************************************************************************)
(* crates/bg3-ls/src/lifecycle.rs and the end of main.rs: what the process *)
(* does about initialize, shutdown, exit and the death of its parent.      *)
(*                                                                         *)
(* Requests pass through lifecycle::Service to tower_lsp_server, which is  *)
(* modelled from the states its answers depend on.  A call is its future,  *)
(* from `call' to the moment the answer is handed back.                    *)
(***************************************************************************)
EXTENDS Naturals, FiniteSets

CONSTANTS
  Requests,     \* the calls a client makes
  MaxMisreads   \* bound: times the probe fails to see a living parent

Methods == {"initialize", "anonymous", "shutdown", "exit"}

VARIABLES
  server,      \* tower_lsp_server: uninitialized, initializing, initialized, shutdown, exited
  method,      \* of each call made; "anonymous" is an initialize without a process id
  call,        \* unmade, inside the server, with its answer, or answered
  shutdown,    \* State.shutdown
  exited,      \* State.exited
  input,       \* stdin is open
  monitor,     \* the parent monitor: none, sleeping, probing, ended
  alive,       \* the parent process
  misreads,    \* times `kill -0' failed for another reason
  process      \* running, returning from serve, or its exit code

vars == <<server, method, call, shutdown, exited, input, monitor, alive, misreads, process>>

Init ==
  /\ server = "uninitialized"
  /\ method = [r \in Requests |-> "none"]
  /\ call = [r \in Requests |-> "unmade"]
  /\ shutdown = FALSE /\ exited = FALSE
  /\ input = TRUE
  /\ monitor = "none"
  /\ alive = TRUE
  /\ misreads = 0
  /\ process = "running"

-----------------------------------------------------------------------------
(* Calls.                                                                  *)

(* The inner service rejects at once what its state does not allow; an     *)
(* exit cancels the requests that are inside it.                           *)
Admit(r, m) ==
  LET Enter(state, next) ==
        IF server = state THEN /\ call' = [call EXCEPT ![r] = "inside"] /\ server' = next
        ELSE /\ call' = [call EXCEPT ![r] = "error"] /\ UNCHANGED server
  IN  \/ m \in {"initialize", "anonymous"} /\ Enter("uninitialized", "initializing")
      \/ m = "shutdown" /\ Enter("initialized", "shutdown")
      \/ /\ m = "exit"
         /\ server' = "exited"
         /\ call' = [s \in Requests |-> IF s = r THEN "none"
                                        ELSE IF call[s] = "inside" THEN "error" ELSE call[s]]

(* Service::call                                                           *)
Call(r, m) ==
  /\ process = "running" /\ input /\ server # "exited"
  /\ call[r] = "unmade"
  /\ method' = [method EXCEPT ![r] = m]
  /\ Admit(r, m)
  /\ UNCHANGED <<shutdown, exited, input, monitor, alive, misreads, process>>

(* Backend::initialize or Backend::shutdown has returned.                  *)
Answer(r, verdict) ==
  /\ process = "running"
  /\ call[r] = "inside"
  /\ call' = [call EXCEPT ![r] = verdict]
  /\ server' = IF server # "initializing" THEN server
               ELSE IF verdict = "ok" THEN "initialized" ELSE "uninitialized"
  /\ UNCHANGED <<method, shutdown, exited, input, monitor, alive, misreads, process>>

Returns(r) == Answer(r, "ok")

(* initialize rejects its options; shutdown has no error of its own.       *)
Refuses(r) == method[r] # "shutdown" /\ Answer(r, "error")

(* The rest of the future, after inner.await.                              *)
ObserveAnyAnswer(r) ==
  /\ process = "running"
  /\ call[r] \in {"ok", "error", "none"}
  /\ call' = [call EXCEPT ![r] = IF @ = "ok" THEN "accepted" ELSE "rejected"]
  /\ shutdown' = (shutdown \/ method[r] = "shutdown")
  /\ monitor' = IF method[r] = "initialize" /\ monitor = "none" THEN "sleeping" ELSE monitor
  /\ exited' = (exited \/ method[r] = "exit")
  /\ UNCHANGED <<server, method, input, alive, misreads, process>>

Observe(r) ==
  /\ process = "running"
  /\ call[r] \in {"ok", "error", "none"}
  /\ call' = [call EXCEPT ![r] = IF @ = "ok" THEN "accepted" ELSE "rejected"]
  /\ shutdown' = (shutdown \/ (call[r] = "ok" /\ method[r] = "shutdown"))
  /\ monitor' = IF call[r] = "ok" /\ method[r] = "initialize" THEN "sleeping" ELSE monitor
  /\ exited' = (exited \/ method[r] = "exit")
  /\ UNCHANGED <<server, method, input, alive, misreads, process>>

-----------------------------------------------------------------------------
(* The monitor task: sleep, test, probe.                                   *)

MonitorWakes ==
  /\ process \in {"running", "returning"} /\ monitor = "sleeping"
  /\ monitor' = IF exited THEN "ended" ELSE "probing"
  /\ UNCHANGED <<server, method, call, shutdown, exited, input, alive, misreads, process>>

MonitorProbesOnce ==
  /\ process \in {"running", "returning"} /\ monitor = "probing"
  /\ IF alive THEN monitor' = "ended" /\ UNCHANGED process
              ELSE process' = "killed" /\ UNCHANGED monitor
  /\ UNCHANGED <<server, method, call, shutdown, exited, input, alive, misreads>>

(* process_is_alive; std::process::exit(0)                                 *)
MonitorProbes ==
  /\ process \in {"running", "returning"} /\ monitor = "probing"
  /\ IF alive THEN monitor' = "sleeping" /\ UNCHANGED process
              ELSE process' = "killed" /\ UNCHANGED monitor
  /\ UNCHANGED <<server, method, call, shutdown, exited, input, alive, misreads>>

(* `kill' cannot be started, or the blocking task is cancelled: the parent *)
(* counts as dead.                                                         *)
MonitorMisreads ==
  /\ process \in {"running", "returning"} /\ monitor = "probing"
  /\ misreads < MaxMisreads
  /\ misreads' = misreads + 1
  /\ process' = "killed"
  /\ UNCHANGED <<server, method, call, shutdown, exited, input, monitor, alive>>

-----------------------------------------------------------------------------
(* The environment and the end of main.                                    *)

ParentDies ==
  /\ alive /\ alive' = FALSE
  /\ UNCHANGED <<server, method, call, shutdown, exited, input, monitor, misreads, process>>

InputEnds ==
  /\ input /\ input' = FALSE
  /\ UNCHANGED <<server, method, call, shutdown, exited, monitor, alive, misreads, process>>

(* serve returns once nothing more is read and every call has its answer.  *)
ServeReturns ==
  /\ process = "running"
  /\ ~input \/ server = "exited"
  /\ \A r \in Requests : call[r] \in {"unmade", "accepted", "rejected"}
  /\ process' = "returning"
  /\ UNCHANGED <<server, method, call, shutdown, exited, input, monitor, alive, misreads>>

(* State::exit_code                                                        *)
MainReturns ==
  /\ process = "returning"
  /\ process' = IF shutdown THEN "success" ELSE "failure"
  /\ UNCHANGED <<server, method, call, shutdown, exited, input, monitor, alive, misreads>>

Next ==
  \/ \E r \in Requests, m \in Methods : Call(r, m)
  \/ \E r \in Requests : Returns(r) \/ Refuses(r) \/ Observe(r)
  \/ MonitorWakes
  \/ MonitorProbes
  \/ MonitorMisreads
  \/ ParentDies
  \/ InputEnds
  \/ ServeReturns
  \/ MainReturns

(* The runtime polls the monitor, and the calls once they have an answer.  *)
Fairness ==
  /\ WF_vars(MonitorWakes)
  /\ WF_vars(MonitorProbes)
  /\ \A r \in Requests : WF_vars(Returns(r)) /\ WF_vars(Observe(r))
  /\ WF_vars(ServeReturns)
  /\ WF_vars(MainReturns)

Spec == Init /\ [][Next]_vars /\ Fairness

-----------------------------------------------------------------------------
(* Properties.                                                             *)

Ended == process \in {"success", "failure", "killed"}

TypeOK ==
  /\ server \in {"uninitialized", "initializing", "initialized", "shutdown", "exited"}
  /\ method \in [Requests -> Methods \cup {"none"}]
  /\ call \in [Requests -> {"unmade", "inside", "ok", "error", "none", "accepted", "rejected"}]
  /\ shutdown \in BOOLEAN /\ exited \in BOOLEAN /\ input \in BOOLEAN /\ alive \in BOOLEAN
  /\ monitor \in {"none", "sleeping", "probing", "ended"}
  /\ misreads \in 0 .. MaxMisreads
  /\ process \in {"running", "returning", "success", "failure", "killed"}

Accepted(m) == \E r \in Requests : method[r] = m /\ call[r] = "accepted"

(* The process ends with success exactly if a shutdown was accepted before *)
(* it ended, whatever an exit, the end of the input or further requests    *)
(* overtake; only an orphan, or a process that took itself for one, ends   *)
(* otherwise (lifecycle.rs: exit_code, spawn_parent_monitor).              *)
ExitStatusIsRight ==
  /\ process = "success" => Accepted("shutdown")
  /\ process = "failure" => ~Accepted("shutdown")
  /\ process = "killed" => ~alive \/ misreads > 0

(* A process whose initialize named its parent does not outlive it, even   *)
(* if nobody closes its input (lifecycle.rs: spawn_parent_monitor).        *)
OrphansEnd == (Accepted("initialize") /\ ~alive) ~> Ended
=============================================================================
