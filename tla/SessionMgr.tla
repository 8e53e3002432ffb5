----------------------------- MODULE SessionMgr -----------------------------
(***************************************************************************)
(* The AshDE session manager (desktop/sessionmgr/sessionmgr.c): starts the *)
(* window manager and the panel, restarts the window manager when it dies, *)
(* and stops both at logout.  main takes one step per system call; on_child *)
(* interrupts it anywhere and is itself cut at its fork.  sm.pc is main's  *)
(* place, sm.h the handler's.  Processes (desk), their exits and the       *)
(* pending SIGCHLD are external.                                           *)
(***************************************************************************)
EXTENDS Integers, FiniteSets

CONSTANT
  MaxDeaths     \* bound on window managers and panels dying by themselves,
                \* and so on the forks of a session

VARIABLES
  sm,           \* pc, running, wm_pid, panel_pid, h, forked (fork's result),
                \* target (the pid main has tested or waits for)
  desk,         \* pid -> [role, st]: "alive", "zombie" or "reaped"
  chld,         \* SIGCHLD pending
  deaths

sessionVars == <<sm, desk, chld, deaths>>

Fresh == [pc |-> "fork_wm", running |-> TRUE, wm_pid |-> -1,
          panel_pid |-> -1, h |-> "none", forked |-> -1,
          target |-> -1]
NoSession == [Fresh EXCEPT !.pc = "none"]

InitSession == sm = NoSession /\ desk = <<>> /\ chld = FALSE /\ deaths = 0

Children(st) == {p \in DOMAIN desk : desk[p].st = st}
AliveWms == {p \in Children("alive") : desk[p].role = "wm"}
Mark(pids, st) ==
  [p \in DOMAIN desk |-> IF p \in pids THEN [desk[p] EXCEPT !.st = st]
                                       ELSE desk[p]]

NewPid == Cardinality(DOMAIN desk) + 1

\* launch: fork, which may fail with -1; the new process execs or ends at
\* once (Dies).
launch(role, pid) ==
  /\ \/ pid = -1 /\ UNCHANGED desk
     \/ /\ pid = NewPid
        /\ desk' = [p \in DOMAIN desk \cup {pid} |->
                      IF p = pid THEN [role |-> role, st |-> "alive"] ELSE desk[p]]
  /\ UNCHANGED <<chld, deaths>>

Main == sm.h = "none"
Goto(pc) == sm' = [sm EXCEPT !.pc = pc]

main_fork(role, from, to) ==
  /\ Main /\ sm.pc = from
  /\ \E pid \in {NewPid, -1} :
       launch(role, pid) /\ sm' = [sm EXCEPT !.pc = to, !.forked = pid]

main_assign ==
  /\ Main /\ sm.pc \in {"set_wm", "set_panel"}
  /\ sm' = IF sm.pc = "set_wm"
           THEN [sm EXCEPT !.wm_pid = sm.forked, !.pc = "fork_panel"]
           ELSE [sm EXCEPT !.panel_pid = sm.forked, !.pc = "loop"]
  /\ UNCHANGED <<desk, chld, deaths>>

\* while (running) sleep(1)
main_loop ==
  /\ Main /\ sm.pc = "loop" /\ ~sm.running /\ Goto("test_wm")
  /\ UNCHANGED <<desk, chld, deaths>>

\* if (pid > 0) ...
main_test(pid, from, to, skip) ==
  /\ Main /\ sm.pc = from
  /\ sm' = [sm EXCEPT !.pc = IF pid > 0 THEN to ELSE skip, !.target = pid]
  /\ UNCHANGED <<desk, chld, deaths>>

\* kill and waitpid take -1 for every child.
Named(pid) == IF pid = -1 THEN DOMAIN desk ELSE {pid}

\* kill(pid, SIGTERM): the process ends, and SIGCHLD comes back.  The build
\* may pass the value that was tested or read the variable again, which the
\* handler may have set to -1 since.
main_kill(now, from, to) ==
  /\ Main /\ sm.pc = from /\ Goto(to)
  /\ \E pid \in {sm.target, now} :
       LET ended == Named(pid) \cap Children("alive")
       IN desk' = Mark(ended, "zombie") /\ chld' = (chld \/ ended # {})
  /\ UNCHANGED deaths

\* waitpid(pid): its argument is read at the call; it returns when such a
\* child is a zombie, or when there is no such child any more.
main_wait(pid, from, to) ==
  /\ Main /\ sm.pc = from
  /\ sm' = [sm EXCEPT !.pc = to, !.target = pid]
  /\ UNCHANGED <<desk, chld, deaths>>

main_waited(from, to) ==
  LET ended == Named(sm.target) \cap Children("zombie")
  IN /\ Main /\ sm.pc = from /\ Goto(to)
     /\ \/ \E pid \in ended : desk' = Mark({pid}, "reaped")
        \/ /\ ended = {} /\ Named(sm.target) \cap Children("alive") = {}
           /\ UNCHANGED desk
     /\ UNCHANGED <<chld, deaths>>

----------------------------------------------------------------------------
\* on_child is entered wherever main is, SIGCHLD blocked until it returns.
on_child ==
  /\ sm.pc \notin {"none", "done"} /\ sm.h = "none" /\ chld
  /\ sm' = [sm EXCEPT !.h = "reap"] /\ chld' = FALSE
  /\ UNCHANGED <<desk, deaths>>

\* Mutant: only one child is waited for per signal.
ReapNext(restarts) == IF restarts THEN "fork" ELSE "none"

\* After a child the handler asks for the next one.
AfterReap(restarts) == IF restarts THEN "fork" ELSE "reap"

on_child_reap(pid) ==
  /\ sm.h = "reap" /\ pid \in Children("zombie")
  /\ desk' = Mark({pid}, "reaped")
  /\ sm' = [sm EXCEPT !.h = AfterReap(pid = sm.wm_pid)]
  /\ UNCHANGED <<chld, deaths>>

on_child_restart ==
  /\ sm.h = "fork"
  /\ \E pid \in {NewPid, -1} :
       launch("wm", pid) /\ sm' = [sm EXCEPT !.wm_pid = pid, !.h = "reap"]

on_child_return ==
  /\ sm.h = "reap" /\ Children("zombie") = {}
  /\ sm' = [sm EXCEPT !.h = "none"]
  /\ UNCHANGED <<desk, chld, deaths>>

on_term ==
  /\ sm.pc \notin {"none", "done"} /\ sm.running
  /\ sm' = [sm EXCEPT !.running = FALSE]
  /\ UNCHANGED <<desk, chld, deaths>>

\* External: the window manager or the panel dies by itself.
Dies(pid) ==
  /\ pid \in Children("alive") /\ deaths < MaxDeaths
  /\ desk' = Mark({pid}, "zombie") /\ chld' = TRUE
  /\ deaths' = deaths + 1
  /\ UNCHANGED sm

SessionStep ==
  \/ main_fork("wm", "fork_wm", "set_wm")
  \/ main_fork("panel", "fork_panel", "set_panel")
  \/ main_assign \/ main_loop
  \/ main_test(sm.wm_pid, "test_wm", "kill_wm", "test_panel")
  \/ main_kill(sm.wm_pid, "kill_wm", "wait_wm")
  \/ main_wait(sm.wm_pid, "wait_wm", "in_wait_wm")
  \/ main_waited("in_wait_wm", "test_panel")
  \/ main_test(sm.panel_pid, "test_panel", "kill_panel", "done")
  \/ main_kill(sm.panel_pid, "kill_panel", "wait_panel")
  \/ main_wait(sm.panel_pid, "wait_panel", "in_wait_panel")
  \/ main_waited("in_wait_panel", "done")
  \/ on_child \/ on_child_restart \/ on_child_return
  \/ \E pid \in DOMAIN desk : on_child_reap(pid)

----------------------------------------------------------------------------
(* on_child ("Restart critical components"): a window manager that dies    *)
(* once its pid is known is replaced, however many children die at the     *)
(* same moment and whatever main is doing, unless the session ends or      *)
(* crashes, or the fork for the new one fails: then wm_pid is -1, and no   *)
(* window manager is started again.                                        *)
WmComesBack ==
  (sm.wm_pid \in Children("zombie") /\ sm.running) ~>
    (AliveWms # {} \/ ~sm.running \/ sm.pc = "none" \/ sm.wm_pid = -1)
=============================================================================
