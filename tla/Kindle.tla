------------------------------- MODULE Kindle -------------------------------
(***************************************************************************)
(* Kindle, PID 1 (userspace/init/kindle.c): starts the services in         *)
(* dependency order, and restarts them as their policy says.               *)
(*                                                                         *)
(* Three parties act.  The main program runs the initial pass and then     *)
(* supervise(), one action per step that a signal can come between.  The   *)
(* SIGCHLD handler interrupts it anywhere and runs to its end; a child     *)
(* that dies meanwhile leaves the signal pending again.  The children exit *)
(* when they like.  The kernel's process table is `proc` (external).       *)
(*                                                                         *)
(* `restarts` is kept as whether it is still 0, the only thing tested.     *)
(***************************************************************************)
EXTENDS Integers, FiniteSets

CONSTANTS SERVICE_COUNT,
          Restart,   \* service -> "never" | "always" | "on-fail"
          Depends,   \* service -> the services named in its depends= lines
          Pids       \* process ids other than 0

Service == 1 .. SERVICE_COUNT

ASSUME KindleAssumption ==
  /\ SERVICE_COUNT \in Nat \ {0}
  /\ Restart \in [Service -> {"never", "always", "on-fail"}]
  /\ Depends \in [Service -> SUBSET Nat]   \* a name nobody has is not in Service
  /\ Pids \subseteq Nat \ {0}

VARIABLES
  state,     \* services[i].state
  pid,       \* services[i].pid
  started,   \* services[i].restarts # 0
  proc,      \* the kernel's view of a child: none, alive, or a zombie with its code
  owner,     \* the service a child was forked for, until it is reaped
  sigchld,   \* SIGCHLD is pending
  pc,        \* where the main program is ...
  cur,       \* ... with which service ...
  child,     \* ... and its local variable pid in start_service
  booting    \* in the initial pass

svc  == <<state, pid, started>>
main == <<pc, cur, child, booting>>
vars == <<svc, main, proc, owner, sigchld>>

Zombie(p) == proc[p] \in {"exit0", "exit1"}

Init ==
  /\ state = [i \in Service |-> "STOPPED"]
  /\ pid = [i \in Service |-> 0]
  /\ started = [i \in Service |-> FALSE]
  /\ proc = [p \in Pids |-> "none"]
  /\ owner = [p \in Pids |-> 0]
  /\ sigchld = FALSE
  /\ pc = "next" /\ cur = 1 /\ child = 0 /\ booting = TRUE

----------------------------------------------------------------------------
(* The main program *)

deps_satisfied(i) == \A d \in Depends[i] : d \in Service /\ state[d] = "RUNNING"

\* Mutant: FAILED services are only restarted under "always".
ShouldStartAlwaysOnly(i) ==
  \/ state[i] = "STOPPED" /\ pid[i] = 0 /\ ~started[i]
  \/ state[i] = "FAILED" /\ Restart[i] = "always"

\* should_start of supervise()
ShouldStart(i) ==
  \/ state[i] = "STOPPED" /\ pid[i] = 0 /\ ~started[i]
  \/ state[i] = "FAILED" /\ Restart[i] \in {"always", "on-fail"}

\* The initial pass takes the services without dependencies, whatever their state.
Wanted(i) ==
  IF booting THEN Depends[i] = {} ELSE ShouldStart(i) /\ deps_satisfied(i)

\* The loop goes on with the next service; after the last one it sleeps.
Advance ==
  /\ child' = 0
  /\ pc' = IF cur < SERVICE_COUNT THEN "next" ELSE "sleep"
  /\ cur' = IF cur < SERVICE_COUNT THEN cur + 1 ELSE cur

consider ==
  /\ pc = "next"
  /\ IF Wanted(cur) THEN pc' = "fork" /\ UNCHANGED <<cur, child>> ELSE Advance
  /\ UNCHANGED <<svc, booting, proc, owner, sigchld>>

\* sleep(1); or, after the initial pass, straight into supervise().
next_round ==
  /\ pc = "sleep"
  /\ pc' = "next" /\ cur' = 1 /\ booting' = FALSE
  /\ UNCHANGED <<svc, child, proc, owner, sigchld>>

\* The kernel gives a child a pid that no child has and no record remembers;
\* which one does not matter, so it is the lowest.
Unused(p) == proc[p] = "none" /\ \A i \in Service : pid[i] # p
FreshPid(p) == Unused(p) /\ \A q \in Pids : q < p => ~Unused(q)

fork_fails ==
  /\ pc = "fork"
  /\ state' = [state EXCEPT ![cur] = "FAILED"]
  /\ Advance
  /\ UNCHANGED <<pid, started, booting, proc, owner, sigchld>>

fork(p) ==
  /\ pc = "fork" /\ FreshPid(p)
  /\ proc' = [proc EXCEPT ![p] = "alive"]
  /\ owner' = [owner EXCEPT ![p] = cur]
  /\ child' = p
  /\ pc' = "set_pid"
  /\ UNCHANGED <<svc, cur, booting, sigchld>>

\* svc->pid = pid
set_pid ==
  /\ pc = "set_pid"
  /\ pid' = [pid EXCEPT ![cur] = child]
  /\ pc' = "set_state"
  /\ UNCHANGED <<state, started, cur, child, booting, proc, owner, sigchld>>

\* Mutant: the state is left as it was.
set_state_forgotten ==
  /\ pc = "set_state"
  /\ started' = [started EXCEPT ![cur] = TRUE]
  /\ pc' = "check"
  /\ UNCHANGED <<state, pid, cur, child, booting, proc, owner, sigchld>>

\* svc->state = SVC_RUNNING; svc->restarts++
set_state ==
  /\ pc = "set_state"
  /\ state' = [state EXCEPT ![cur] = "RUNNING"]
  /\ started' = [started EXCEPT ![cur] = TRUE]
  /\ pc' = "check"
  /\ UNCHANGED <<pid, cur, child, booting, proc, owner, sigchld>>

\* After the usleep: waitpid(pid, WNOHANG) reaps the child ...
check_dead ==
  /\ pc = "check" /\ Zombie(child)
  /\ proc' = [proc EXCEPT ![child] = "none"]
  /\ owner' = [owner EXCEPT ![child] = 0]
  /\ pid' = [pid EXCEPT ![cur] = 0]
  /\ state' = [state EXCEPT ![cur] = "FAILED"]
  /\ Advance
  /\ UNCHANGED <<started, booting, sigchld>>

\* ... or finds it alive, or gone because the handler has reaped it.
check_ok ==
  /\ pc = "check" /\ ~Zombie(child)
  /\ Advance
  /\ UNCHANGED <<svc, booting, proc, owner, sigchld>>

MainStep ==
  \/ consider \/ next_round \/ fork_fails
  \/ \E p \in Pids : fork(p)
  \/ set_pid \/ set_state \/ check_dead \/ check_ok

----------------------------------------------------------------------------
(* SIGCHLD *)

\* The children this run of the handler finds dead, and the first record of each.
Dead == {p \in Pids : Zombie(p)}
RecordOf(p) == {i \in Service : pid[i] = p /\ \A j \in Service : j < i => pid[j] # p}

\* Mutant: one waitpid per signal, though signals do not queue.
reap_one ==
  /\ sigchld
  /\ sigchld' = FALSE
  /\ \/ Dead = {} /\ UNCHANGED <<svc, proc, owner>>
     \/ \E p \in Dead :
          LET S == RecordOf(p)
          IN  /\ proc' = [proc EXCEPT ![p] = "none"]
              /\ owner' = [owner EXCEPT ![p] = 0]
              /\ pid' = [i \in Service |-> IF i \in S THEN 0 ELSE pid[i]]
              /\ state' = [i \in Service |->
                             IF i \notin S THEN state[i]
                             ELSE IF proc[p] = "exit0" THEN "STOPPED" ELSE "FAILED"]
              /\ UNCHANGED started
  /\ UNCHANGED main

sigchld_handler ==
  /\ sigchld
  /\ sigchld' = FALSE
  /\ proc' = [p \in Pids |-> IF p \in Dead THEN "none" ELSE proc[p]]
  /\ owner' = [p \in Pids |-> IF p \in Dead THEN 0 ELSE owner[p]]
  /\ LET Exited == UNION {RecordOf(p) : p \in Dead}
     IN  /\ pid' = [i \in Service |-> IF i \in Exited THEN 0 ELSE pid[i]]
         /\ state' = [i \in Service |->
                        IF i \notin Exited THEN state[i]
                        ELSE IF proc[pid[i]] = "exit0" THEN "STOPPED" ELSE "FAILED"]
  /\ UNCHANGED <<started, main>>

\* The service's process ends; an exec failure is an exit with code 1.
exit(p, code) ==
  /\ proc[p] = "alive"
  /\ proc' = [proc EXCEPT ![p] = code]
  /\ sigchld' = TRUE
  /\ UNCHANGED <<svc, main, owner>>

Next ==
  \/ MainStep
  \/ sigchld_handler
  \/ \E p \in Pids : \E code \in {"exit0", "exit1"} : exit(p, code)

Spec == Init /\ [][Next]_vars

\* PID 1 keeps running, and a pending signal is delivered.
FairSpec == Spec /\ WF_vars(MainStep) /\ WF_vars(sigchld_handler)

----------------------------------------------------------------------------
(* Properties *)

PCs == {"next", "sleep", "fork", "set_pid", "set_state", "check"}
TypeOK ==
  /\ state \in [Service -> {"STOPPED", "RUNNING", "FAILED"}]
  /\ pid \in [Service -> Pids \cup {0}]
  /\ started \in [Service -> BOOLEAN]
  /\ proc \in [Pids -> {"none", "alive", "exit0", "exit1"}]
  /\ owner \in [Pids -> Service \cup {0}]
  /\ sigchld \in BOOLEAN /\ booting \in BOOLEAN
  /\ pc \in PCs /\ cur \in Service /\ child \in Pids \cup {0}

\* The child of p is between fork and the assignments that record it.
BeingRecorded(p) == pc \in {"set_pid", "set_state"} /\ child = p

(***************************************************************************)
(* supervise never loses track of a living service: apart from the child   *)
(* that start_service is about to record, each child not yet reaped is the *)
(* one its service's record names, and the service counts as RUNNING.      *)
(***************************************************************************)
ChildrenTracked ==
  \A p \in Pids : proc[p] # "none" /\ ~BeingRecorded(p) =>
    pid[owner[p]] = p /\ state[owner[p]] = "RUNNING"

(***************************************************************************)
(* No service has two processes at once, whatever signals come between     *)
(* the test in supervise and the assignments in start_service.             *)
(***************************************************************************)
OneInstance ==
  \A p, q \in Pids :
    proc[p] # "none" /\ proc[q] # "none" /\ owner[p] = owner[q] => p = q

(***************************************************************************)
(* The inductive invariant behind both: what start_service may rely on     *)
(* while it is at service cur.  During the initial pass only services      *)
(* before cur have children, which is why it may start one without looking *)
(* at its state.                                                           *)
(***************************************************************************)
Exists(p) == proc[p] # "none"
StartInv ==
  /\ \A p \in Pids : Exists(p) => owner[p] \in Service
  /\ booting /\ pc \in {"next", "fork"} => \A p \in Pids : Exists(p) => owner[p] < cur
  /\ booting => \A p \in Pids : Exists(p) => owner[p] <= cur
  /\ pc = "fork" => \A p \in Pids : Exists(p) => owner[p] # cur
  /\ pc \in {"set_pid", "set_state", "check"} =>
       /\ child \in Pids
       /\ \A p \in Pids : Exists(p) /\ owner[p] = cur => p = child
       /\ Exists(child) => owner[child] = cur
  /\ pc = "set_state" /\ Exists(child) => pid[cur] = child
IInv == TypeOK /\ StartInv /\ ChildrenTracked

\* Every child that dies is reaped, signals that were merged notwithstanding.
ZombiesReaped == \A p \in Pids : Zombie(p) ~> proc[p] = "none"

\* Waiting for its turn in supervise: never started, or failed and to be restarted.
Due(i) == /\ ~booting /\ ~(cur = i /\ pc \in {"set_pid", "set_state"})
          /\ \/ state[i] = "STOPPED" /\ ~started[i]
             \/ state[i] = "FAILED" /\ Restart[i] # "never"

(***************************************************************************)
(* A service that is due is started, unless one of its dependencies is     *)
(* down: supervise comes back to every service.                            *)
(***************************************************************************)
DueIsStarted ==
  \A i \in Service : Due(i) ~> ((pc = "fork" /\ cur = i) \/ ~deps_satisfied(i))

(***************************************************************************)
(* "restarting services as configured by their restart= policy"            *)
(* (docs/BOOTFLOW.md): a service with policy always or on-fail whose       *)
(* process dies with an error is started again, or has a dependency that   *)
(* is down.                                                                *)
(***************************************************************************)
FailureIsRestarted ==
  \A i \in {j \in Service : Restart[j] # "never"} :
    (\E p \in Pids : proc[p] = "exit1" /\ owner[p] = i)
      ~> ((pc = "fork" /\ cur = i) \/ ~deps_satisfied(i))
=============================================================================
