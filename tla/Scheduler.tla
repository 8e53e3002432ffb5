----------------------------- MODULE Scheduler ------------------------------
(***************************************************************************)
(* The task table, the ready ring and the round-robin dispatch of          *)
(* kernel/sched/scheduler.c, driven by the timer interrupt of pit.c and by *)
(* the yield, sleep, exit and kill system calls.                           *)
(*                                                                         *)
(* System calls and the tick run with interrupts off (interrupt gate, or   *)
(* SFMASK on system call entry), so each operation is a single action.     *)
(* The two calls of kernel_start, task_create and the schedule of its idle *)
(* loop, are single actions too although a tick could come between their   *)
(* statements (README, "Not modelled").  A switch of task is               *)
(* complete when switch_context is reached: what it does to the stacks is  *)
(* left out.                                                               *)
(*                                                                         *)
(* The tick is taken by irq_dispatch, which ends the interrupt only when   *)
(* the handler returns.  When sched_tick switches away from a task, that   *)
(* is when the task is next switched to: until then IRQ 0 is in service    *)
(* and the controller holds every further interrupt back.                  *)
(*                                                                         *)
(* wake_tick is kept as the number of ticks still to go, so that           *)
(* timer_ticks itself need not be a variable.                              *)
(***************************************************************************)
EXTENDS Integers, FiniteSets, Sequences

CONSTANTS MAX_TASKS,   \* size of task_pool
          IdlePid,     \* pid of the idle task: 0 in the code (see README)
          BaseSlice,   \* 10 in the code: ticks of a priority-0 time slice
          Priorities,  \* priorities tasks are created with
          SleepTicks,  \* ms * ticks_per_ms, as passed to task_sleep
          MaxPid,      \* bound: pids handed out in one behaviour
          NULL

Slot  == 0 .. (MAX_TASKS - 1)
Idle  == 0             \* alloc_task gives sched_init the first slot

ASSUME SchedulerAssumption ==
  /\ MAX_TASKS \in Nat \ {0}
  /\ NULL \notin Slot
  /\ IdlePid \in Nat /\ MaxPid \in Nat
  /\ BaseSlice \in Nat
  /\ Priorities \subseteq Nat /\ SleepTicks \subseteq Nat

States == {"READY", "RUNNING", "SLEEPING", "ZOMBIE", "DEAD"}

VARIABLES
  pid, state, priority, time_slice, wake_in,  \* fields of task_pool[slot]
  ring,          \* next and prev of every slot, and ready_head as `head`
  current_task,
  next_pid,
  in_service,    \* the task whose tick has still to send its EOI, or NULL
  remapped,      \* interrupts_init was called: IRQ 0 is not vector 8
  fault,         \* the kernel panicked or wrote through a NULL task pointer
  halted         \* task_exit found nobody to run: cli; hlt for ever

task == <<pid, priority, time_slice, wake_in>>
irq == <<in_service, remapped>>
vars == <<pid, state, priority, time_slice, wake_in, ring, current_task,
          next_pid, in_service, remapped, fault, halted>>

----------------------------------------------------------------------------
(* The ready ring *)

RingType == [head : Slot \cup {NULL},
             next : [Slot -> Slot \cup {NULL}],
             prev : [Slot -> Slot \cup {NULL}]]

Linked(r) == {t \in Slot : r.next[t] # NULL}

\* enqueue_task reads ready_head->prev and writes through it.
enqueue_faults(r) == r.head # NULL /\ r.prev[r.head] = NULL

\* Mutant: the new task is linked in after the head instead of before it.
enqueue_after_head(r, t) ==
  IF r.head = NULL
  THEN [head |-> t, next |-> [r.next EXCEPT ![t] = t], prev |-> [r.prev EXCEPT ![t] = t]]
  ELSE LET second == r.next[r.head]
       IN  [head |-> r.head,
            next |-> [r.next EXCEPT ![r.head] = t, ![t] = second],
            prev |-> [r.prev EXCEPT ![t] = r.head, ![second] = t]]

enqueue_task(r, t) ==
  IF r.head = NULL
  THEN [head |-> t, next |-> [r.next EXCEPT ![t] = t], prev |-> [r.prev EXCEPT ![t] = t]]
  ELSE LET tail == r.prev[r.head]
       IN  [head |-> r.head,
            next |-> [r.next EXCEPT ![tail] = t, ![t] = r.head],
            prev |-> [r.prev EXCEPT ![t] = tail, ![r.head] = t]]

\* dequeue_task writes through prev and next, which are NULL off the ring.
dequeue_faults(r, t) == r.next[t] # t /\ (r.next[t] = NULL \/ r.prev[t] = NULL)

\* Mutant: ready_head is left on the task that leaves.
dequeue_keeping_head(r, t) ==
  IF r.next[t] = t
  THEN [head |-> NULL, next |-> [r.next EXCEPT ![t] = NULL], prev |-> [r.prev EXCEPT ![t] = NULL]]
  ELSE [head |-> r.head,
        next |-> [r.next EXCEPT ![r.prev[t]] = r.next[t], ![t] = NULL],
        prev |-> [r.prev EXCEPT ![r.next[t]] = r.prev[t], ![t] = NULL]]

dequeue_task(r, t) ==
  IF r.next[t] = t
  THEN [head |-> NULL, next |-> [r.next EXCEPT ![t] = NULL], prev |-> [r.prev EXCEPT ![t] = NULL]]
  ELSE [head |-> IF r.head = t THEN r.next[t] ELSE r.head,
        next |-> [r.next EXCEPT ![r.prev[t]] = r.next[t], ![t] = NULL],
        prev |-> [r.prev EXCEPT ![r.next[t]] = r.prev[t], ![t] = NULL]]

----------------------------------------------------------------------------
(* schedule() *)

\* The k-th task met when following next from ready_head.
Walk(r) ==
  LET w[k \in 0 .. MAX_TASKS] ==
        IF k = 0 THEN r.head ELSE IF w[k-1] = NULL THEN NULL ELSE r.next[w[k-1]]
  IN  w

\* Mutant: the idle task is passed over.
EligibleButIdle(st, t) == t # NULL /\ st[t] = "READY" /\ t # current_task /\ t # Idle

Eligible(st, t) == t # NULL /\ st[t] = "READY" /\ t # current_task

\* t is the first READY task other than the current one, from ready_head on.
Picks(r, st, t) ==
  /\ Eligible(st, t)
  /\ \E k \in 0 .. (MAX_TASKS - 1) :
       /\ Walk(r)[k] = t
       /\ \A j \in 0 .. (k - 1) : ~Eligible(st, Walk(r)[j])

Nobody(r, st) == \A t \in Slot : ~Picks(r, st, t)

\* Mutant: ready_head stays where it is.
SwitchKeepingHead(r, st, t) ==
  /\ Picks(r, st, t)
  /\ ring' = r
  /\ current_task' = t
  /\ state' = [st EXCEPT ![t] = "RUNNING",
                         ![current_task] = IF @ = "RUNNING" THEN "READY" ELSE @]

\* The part of schedule() after the search, down to switch_context.
SwitchTo(r, st, t) ==
  /\ Picks(r, st, t)
  /\ ring' = [r EXCEPT !.head = r.next[t]]
  /\ current_task' = t
  /\ state' = [st EXCEPT ![t] = "RUNNING",
                         ![current_task] = IF @ = "RUNNING" THEN "READY" ELSE @]

schedule(r, st) ==
  \/ \E t \in Slot : SwitchTo(r, st, t)
  \/ Nobody(r, st) /\ ring' = r /\ state' = st /\ UNCHANGED current_task

----------------------------------------------------------------------------
(* Operations *)

Up == ~fault /\ ~halted

Panic ==
  /\ fault' = TRUE
  /\ UNCHANGED <<pid, state, priority, time_slice, wake_in, ring, current_task,
                 next_pid, irq, halted>>

\* alloc_task takes the first slot that is dead or has pid 0.
FreeSlot(t) == state[t] = "DEAD" \/ pid[t] = 0
alloc_task(t) == FreeSlot(t) /\ \A s \in Slot : s < t => ~FreeSlot(s)

\* alloc_task zeroes the slot, its links included.
Unlinked(t) == [ring EXCEPT !.next[t] = NULL, !.prev[t] = NULL]

task_create(prio) ==
  /\ Up /\ next_pid < MaxPid
  /\ \E t \in Slot :
       /\ alloc_task(t)
       /\ \/ Panic   \* kmalloc of the kernel stack does not return NULL, it panics
          \/ /\ next_pid' = next_pid + 1
             /\ pid' = [pid EXCEPT ![t] = next_pid + 1]
             /\ priority' = [priority EXCEPT ![t] = prio]
             /\ time_slice' = [time_slice EXCEPT ![t] = BaseSlice + prio]
             /\ wake_in' = [wake_in EXCEPT ![t] = 0]
             /\ state' = [state EXCEPT ![t] = "READY"]
             /\ fault' = enqueue_faults(Unlinked(t))
             /\ ring' = IF fault' THEN Unlinked(t) ELSE enqueue_task(Unlinked(t), t)
             /\ UNCHANGED <<current_task, irq, halted>>

\* A task that was switched away by its tick is back in timer_irq_handler,
\* and its irq_dispatch sends the EOI on the way out.
Resumed ==
  /\ in_service' = IF current_task' = in_service THEN NULL ELSE in_service
  /\ UNCHANGED remapped

\* Only tasks make system calls; the idle context just waits for interrupts.
Calls == Up /\ current_task # Idle

task_yield ==
  /\ Calls
  /\ time_slice' = [time_slice EXCEPT ![current_task] = 0]
  /\ schedule(ring, state) /\ Resumed
  /\ UNCHANGED <<pid, priority, wake_in, next_pid, fault, halted>>

task_sleep(ticks) ==
  /\ Calls
  /\ wake_in' = [wake_in EXCEPT ![current_task] = ticks]
  /\ schedule(ring, [state EXCEPT ![current_task] = "SLEEPING"]) /\ Resumed
  /\ UNCHANGED <<pid, priority, time_slice, next_pid, fault, halted>>

task_exit ==
  LET r  == dequeue_task(ring, current_task)
      st == [state EXCEPT ![current_task] = "ZOMBIE"]
  IN  /\ Calls
      /\ IF dequeue_faults(ring, current_task)
         THEN Panic
         ELSE /\ schedule(r, st) /\ Resumed
              /\ halted' = Nobody(r, st)
              /\ UNCHANGED <<task, next_pid, fault>>

task_find_by_pid(p, t) ==
  LET Named(s) == pid[s] = p /\ state[s] # "DEAD"
  IN  Named(t) /\ \A s \in Slot : s < t => ~Named(s)

\* A second kill finds no links.
task_kill(p) ==
  /\ Calls
  /\ \E t \in Slot \ {current_task} :
       /\ task_find_by_pid(p, t)
       /\ state' = [state EXCEPT ![t] = "ZOMBIE"]
       /\ fault' = dequeue_faults(ring, t)
       /\ ring' = IF fault' THEN ring ELSE dequeue_task(ring, t)
  /\ UNCHANGED <<task, current_task, next_pid, irq, halted>>

\* The loop of sched_tick over task_pool, after timer_ticks++.
Woken(t) == state[t] = "SLEEPING" /\ wake_in[t] <= 1

\* What is left of the slice of t after this tick.
slice_left(t) == IF time_slice[t] > 0 THEN time_slice[t] - 1 ELSE 0

\* Mutant: an expired slice does not lead to schedule().
TickWithoutPreemption ==
  LET st == [t \in Slot |-> IF Woken(t) THEN "READY" ELSE state[t]]
  IN  /\ Up /\ remapped /\ in_service = NULL
      /\ wake_in' = [t \in Slot |-> IF wake_in[t] > 0 THEN wake_in[t] - 1 ELSE 0]
      /\ time_slice' = [time_slice EXCEPT ![current_task] = slice_left(current_task)]
      /\ state' = st
      /\ UNCHANGED <<ring, current_task, pid, priority, next_pid, irq, fault, halted>>

\* irq_dispatch, timer_irq_handler and sched_tick
sched_tick ==
  LET st   == [t \in Slot |-> IF Woken(t) THEN "READY" ELSE state[t]]
      left == slice_left(current_task)
  IN  /\ Up /\ remapped /\ in_service = NULL
      /\ wake_in' = [t \in Slot |-> IF wake_in[t] > 0 THEN wake_in[t] - 1 ELSE 0]
      /\ IF left = 0
         THEN /\ time_slice' = [time_slice EXCEPT ![current_task]
                                  = BaseSlice + priority[current_task]]
              /\ schedule(ring, st)
         ELSE /\ time_slice' = [time_slice EXCEPT ![current_task] = left]
              /\ state' = st
              /\ UNCHANGED <<ring, current_task>>
      /\ in_service' = IF current_task' = current_task THEN NULL ELSE current_task
      /\ UNCHANGED <<pid, priority, next_pid, remapped, fault, halted>>

\* Without interrupts_init, which kernel_start does not call, the tick is
\* vector 8: exception_dispatch takes it for a double fault.
timer_exception == Up /\ ~remapped /\ Panic

\* The loop at the end of kernel_start, which runs as the idle task: hlt
\* waits for an interrupt, schedule follows.
idle_loop ==
  /\ Up /\ current_task = Idle /\ in_service = NULL
  /\ schedule(ring, state) /\ Resumed
  /\ UNCHANGED <<task, next_pid, fault, halted>>

\* sched_init: the idle task is in slot 0, on the ring, current, and READY.
Init ==
  /\ pid = [t \in Slot |-> IF t = Idle THEN IdlePid ELSE 0]
  /\ state = [t \in Slot |-> IF t = Idle THEN "READY" ELSE "DEAD"]
  /\ priority = [t \in Slot |-> 0]
  /\ time_slice = [t \in Slot |-> 0]
  /\ wake_in = [t \in Slot |-> 0]
  /\ ring = enqueue_task([head |-> NULL,
                          next |-> [t \in Slot |-> NULL],
                          prev |-> [t \in Slot |-> NULL]], Idle)
  /\ current_task = Idle
  /\ next_pid = 0
  /\ in_service = NULL /\ remapped \in BOOLEAN
  /\ fault = FALSE /\ halted = FALSE

Next ==
  \/ \E prio \in Priorities : task_create(prio)
  \/ task_yield
  \/ \E ticks \in SleepTicks : task_sleep(ticks)
  \/ task_exit
  \/ \E p \in 0 .. MaxPid \cup {IdlePid} : task_kill(p)
  \/ sched_tick
  \/ timer_exception
  \/ idle_loop

Spec == Init /\ [][Next]_vars

(***************************************************************************)
(* The PIT keeps ticking while a task has the CPU: a task that is resumed  *)
(* leaves the kernel by iretq or sysret, which turn interrupts on again.   *)
(* Nothing is promised of the idle loop: switch_context saves no flags, so *)
(* that it may be resumed with interrupts off and stay in its hlt.         *)
(***************************************************************************)
Timer == sched_tick \/ timer_exception
FairSpec == Spec /\ WF_vars(current_task # Idle /\ Timer)

----------------------------------------------------------------------------
(* Properties *)

TypeOK ==
  /\ pid \in [Slot -> Nat] /\ state \in [Slot -> States]
  /\ priority \in [Slot -> Nat] /\ time_slice \in [Slot -> Nat]
  /\ wake_in \in [Slot -> Nat]
  /\ ring \in RingType
  /\ current_task \in Slot
  /\ next_pid \in Nat
  /\ in_service \in Slot \cup {NULL} /\ remapped \in BOOLEAN
  /\ fault \in BOOLEAN /\ halted \in BOOLEAN

\* A slot is in use from its creation until it exits or is killed.
Live(t) == state[t] \in {"READY", "RUNNING", "SLEEPING"} /\ (pid[t] # 0 \/ t = Idle)

\* next and prev are inverse to each other on the slots that are linked.
ConsistentLinks(r) ==
  /\ \A t \in Slot : r.next[t] = NULL <=> r.prev[t] = NULL
  /\ \A t \in Linked(r) : r.prev[r.next[t]] = t /\ r.next[r.prev[t]] = t
  /\ r.head # NULL => r.head \in Linked(r)

(***************************************************************************)
(* As long as the kernel has not faulted, the links of the ready ring are  *)
(* consistent: what enqueue_task, dequeue_task, the zeroing in alloc_task  *)
(* and the head moved by schedule leave behind can be walked and unlinked  *)
(* without meeting a NULL or a slot that does not point back.              *)
(***************************************************************************)
RingConsistent == ~fault => ConsistentLinks(ring)

(***************************************************************************)
(* ... and it is one cycle from ready_head through exactly the live tasks, *)
(* the current one among them: nobody is lost, and no dead slot is left in *)
(* it for schedule to find.                                                *)
(***************************************************************************)
RingHoldsLiveTasks ==
  ~fault =>
    /\ Linked(ring) = {t \in Slot : Live(t)}
    /\ Linked(ring) = {Walk(ring)[k] : k \in 0 .. MAX_TASKS} \ {NULL}
    /\ ~halted => current_task \in Linked(ring)

\* The CPU has one owner: no task is RUNNING that is not current_task.
OneRunning == \A t \in Slot : state[t] = "RUNNING" => t = current_task

(***************************************************************************)
(* While the idle task lives, there is always somebody to switch to:       *)
(* task_sleep does not return to a task that is still SLEEPING, and        *)
(* task_exit never ends in its cli; hlt loop.  Only task_kill of the idle  *)
(* task can take that guarantee away.                                      *)
(***************************************************************************)
IdleBacksUp ==
  Live(Idle) => /\ ~halted
                /\ \A t \in Slot : state[t] = "SLEEPING" => t # current_task

(***************************************************************************)
(* The pointer ring implements the round-robin queue.                      *)
(***************************************************************************)
RR == INSTANCE RoundRobin WITH
        queue   <- [i \in 1 .. Cardinality(Linked(ring)) |-> Walk(ring)[i - 1]],
        ready   <- {t \in Linked(ring) : state[t] = "READY"} \ {current_task},
        running <- current_task
ImplementsRoundRobin == RR!RRSpec

(***************************************************************************)
(* No starvation: a live READY task gets the CPU, whatever the others do,  *)
(* as long as the kernel neither faults nor halts.  There are two ways out *)
(* of it, and no third: one and the same task keeps the CPU from some time *)
(* on because the tick that switched to it, or an earlier one, has not     *)
(* sent its EOI; or the idle loop keeps it, in its hlt.                    *)
(***************************************************************************)
ReadyTaskRuns ==
  \/ \A t \in Slot :
       (Live(t) /\ state[t] = "READY") ~> (current_task = t \/ ~Live(t) \/ ~Up)
  \/ \E t \in Slot : <>[](current_task = t /\ (t = Idle \/ in_service # NULL))

(***************************************************************************)
(* sched_init's idle task survives the creation of the next task: "Create  *)
(* idle task (PID 0)" (scheduler.c:233), "PID 1 created. Entering idle     *)
(* loop." (main.c:251).                                                    *)
(***************************************************************************)
CreationKeepsIdle == [][current_task = Idle => (Live(Idle)' /\ ~fault')]_vars
=============================================================================
