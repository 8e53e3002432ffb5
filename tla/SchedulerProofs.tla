-------------------------- MODULE SchedulerProofs ---------------------------
(***************************************************************************)
(* For every number of task slots: the scheduler keeps its variables in    *)
(* their types, the CPU has one owner, the ready ring is one cycle through *)
(* the live tasks, the idle task backs up the others, and the ring         *)
(* implements the round-robin queue.  The proofs of the ring go by cases:  *)
(* an idle task with pid 0 is alone until the first creation faults        *)
(* (BootInv); one with another pid keeps its slot, and then the ring is    *)
(* one cycle for ever (CycleInv).                                          *)
(***************************************************************************)
EXTENDS Scheduler, FiniteSetTheorems, SequenceTheorems, TLAPS

\* What the assumptions say of the slots: the idle task has one, NULL is none.
LEMMA SlotFacts ==
  /\ Idle \in Slot /\ NULL \notin Slot
  /\ MAX_TASKS \in Nat
BY SchedulerAssumption DEF Slot, Idle

(***************************************************************************)
(* The ring operations return rings.                                       *)
(***************************************************************************)
LEMMA EnqueueType ==
  ASSUME NEW r \in RingType, NEW t \in Slot, ~enqueue_faults(r)
  PROVE  enqueue_task(r, t) \in RingType
BY DEF RingType, enqueue_task, enqueue_faults

\* dequeue_task keeps the ring well typed when it does not fault.
LEMMA DequeueType ==
  ASSUME NEW r \in RingType, NEW t \in Slot, ~dequeue_faults(r, t)
  PROVE  dequeue_task(r, t) \in RingType
BY DEF RingType, dequeue_task, dequeue_faults

\* Zeroing a slot, as alloc_task does, keeps the ring well typed.
LEMMA UnlinkedType ==
  ASSUME ring \in RingType, NEW t \in Slot
  PROVE  Unlinked(t) \in RingType
BY DEF RingType, Unlinked

(***************************************************************************)
(* What schedule() does to the three variables it changes.                 *)
(***************************************************************************)
LEMMA ScheduleType ==
  ASSUME current_task \in Slot,
         NEW r \in RingType, NEW st \in [Slot -> States], schedule(r, st)
  PROVE  /\ ring' \in RingType
         /\ state' \in [Slot -> States]
         /\ current_task' \in Slot
<1>1. CASE \E t \in Slot : SwitchTo(r, st, t)
  <2>1. PICK t \in Slot : SwitchTo(r, st, t)
    BY <1>1
  <2>2. ring' = [r EXCEPT !.head = r.next[t]]
    BY <2>1 DEF SwitchTo
  <2>3. ring' \in RingType
    BY <2>2 DEF RingType
  <2>4. state' \in [Slot -> States] /\ current_task' \in Slot
    BY <2>1 DEF SwitchTo, States
  <2>5. QED
    BY <2>3, <2>4
<1>2. CASE ring' = r /\ state' = st /\ UNCHANGED current_task
  BY <1>2
<1>3. QED
  BY <1>1, <1>2 DEF schedule

(***************************************************************************)
(* schedule() hands RUNNING on together with the CPU.                      *)
(***************************************************************************)
LEMMA ScheduleOneRunning ==
  ASSUME current_task \in Slot, NEW r, NEW st \in [Slot -> States],
         \A t \in Slot : st[t] = "RUNNING" => t = current_task,
         schedule(r, st)
  PROVE  OneRunning'
<1>1. ASSUME NEW t \in Slot, SwitchTo(r, st, t) PROVE OneRunning'
  BY <1>1 DEF SwitchTo, OneRunning
<1>2. CASE ring' = r /\ state' = st /\ UNCHANGED current_task
  BY <1>2 DEF OneRunning
<1>3. QED
  BY <1>1, <1>2 DEF schedule

(***************************************************************************)
(* Linking a task that is not on the ring, and unlinking one that is,      *)
(* leave the links consistent and change the ring's members by that task.  *)
(***************************************************************************)
LEMMA EnqueueLinks ==
  ASSUME NEW r \in RingType, ConsistentLinks(r),
         NEW t \in Slot, t \notin Linked(r)
  PROVE  /\ ~enqueue_faults(r)
         /\ ConsistentLinks(enqueue_task(r, t))
         /\ Linked(enqueue_task(r, t)) = Linked(r) \cup {t}
<1>0. NULL \notin Slot
  BY SlotFacts
<1>1. ~enqueue_faults(r)
  BY <1>0 DEF enqueue_faults, ConsistentLinks, Linked, RingType
<1>2. CASE r.head = NULL
  BY <1>0, <1>1, <1>2 DEF ConsistentLinks, Linked, RingType, enqueue_task
<1>3. CASE r.head # NULL
  <2> DEFINE tail == r.prev[r.head]
             q == enqueue_task(r, t)
  <2>1. /\ r.head \in Slot /\ tail \in Slot /\ r.next[tail] = r.head
        /\ r.head # t /\ tail # t /\ tail \in Linked(r)
    BY <1>0, <1>3 DEF ConsistentLinks, Linked, RingType
  <2>2. /\ q.head = r.head
        /\ q.next = [r.next EXCEPT ![tail] = t, ![t] = r.head]
        /\ q.prev = [r.prev EXCEPT ![t] = tail, ![r.head] = t]
    BY <1>3 DEF enqueue_task
  <2> HIDE DEF q
  <2>3. /\ q.next[t] = r.head /\ q.next[tail] = t
        /\ q.prev[t] = tail /\ q.prev[r.head] = t
        /\ \A s \in Slot : s # t /\ s # tail => q.next[s] = r.next[s]
        /\ \A s \in Slot : s # t /\ s # r.head => q.prev[s] = r.prev[s]
    BY <2>1, <2>2 DEF RingType
  <2>4. Linked(q) = Linked(r) \cup {t}
    BY <1>0, <2>1, <2>3 DEF Linked, RingType
  <2>5. \A s \in Slot : q.next[s] = NULL <=> q.prev[s] = NULL
    BY <1>0, <2>1, <2>3 DEF ConsistentLinks, Linked, RingType
  <2>6. ASSUME NEW s \in Linked(r), s # tail
        PROVE  q.prev[q.next[s]] = s
    <3>1. q.next[s] = r.next[s] /\ r.next[s] \in Slot /\ r.prev[r.next[s]] = s
      BY <1>0, <2>3, <2>6 DEF ConsistentLinks, Linked, RingType
    <3>2. r.next[s] # r.head
      BY <2>6, <3>1
    <3>3. r.next[s] \in Linked(r)
      BY <1>0, <3>1 DEF ConsistentLinks, Linked, RingType
    <3>4. QED
      BY <2>3, <3>1, <3>2, <3>3
  <2>7. ASSUME NEW s \in Linked(r), s # r.head
        PROVE  q.next[q.prev[s]] = s
    <3>1. q.prev[s] = r.prev[s] /\ r.prev[s] \in Slot /\ r.next[r.prev[s]] = s
      BY <1>0, <2>3, <2>7 DEF ConsistentLinks, Linked, RingType
    <3>2. r.prev[s] # tail
      BY <2>1, <2>7, <3>1
    <3>3. r.prev[s] \in Linked(r)
      BY <1>0, <3>1 DEF ConsistentLinks, Linked, RingType
    <3>4. QED
      BY <2>3, <3>1, <3>2, <3>3
  <2>8. \A s \in Linked(q) : q.prev[q.next[s]] = s /\ q.next[q.prev[s]] = s
    BY <2>1, <2>3, <2>4, <2>6, <2>7
  <2>9. QED
    BY <1>1, <1>3, <2>2, <2>4, <2>5, <2>8 DEF ConsistentLinks, q
<1>4. QED
  BY <1>2, <1>3

\* dequeue_task takes a linked task out and keeps next and prev inverse.
LEMMA DequeueLinks ==
  ASSUME NEW r \in RingType, ConsistentLinks(r),
         NEW t \in Slot, ~dequeue_faults(r, t)
  PROVE  /\ ConsistentLinks(dequeue_task(r, t))
         /\ Linked(dequeue_task(r, t)) = Linked(r) \ {t}
<1> DEFINE q == dequeue_task(r, t)
           n == r.next[t]
           p == r.prev[t]
<1>0. NULL \notin Slot
  BY SlotFacts
<1>1. t \in Linked(r) /\ n \in Slot /\ p \in Slot
  BY <1>0 DEF dequeue_faults, ConsistentLinks, Linked, RingType
<1>2. r.prev[n] = t /\ r.next[p] = t
  BY <1>1 DEF ConsistentLinks
<1>3. CASE n = t
  <2>1. p = t
    BY <1>2, <1>3
  <2>2. /\ q.head = NULL
        /\ q.next = [r.next EXCEPT ![t] = NULL]
        /\ q.prev = [r.prev EXCEPT ![t] = NULL]
    BY <1>3 DEF dequeue_task
  <2> HIDE DEF q
  <2>3. /\ q.next[t] = NULL /\ q.prev[t] = NULL
        /\ \A s \in Slot : s # t => q.next[s] = r.next[s] /\ q.prev[s] = r.prev[s]
    BY <2>2 DEF RingType
  <2>4. Linked(q) = Linked(r) \ {t}
    BY <1>0, <2>3 DEF Linked
  <2>5. \A s \in Linked(q) : r.next[s] # t /\ r.prev[s] # t
                            /\ r.next[s] \in Slot /\ r.prev[s] \in Slot
    BY <1>0, <1>2, <1>3, <2>1, <2>4 DEF ConsistentLinks, Linked, RingType
  <2>6. QED
    BY <2>2, <2>3, <2>4, <2>5 DEF ConsistentLinks, Linked, q
<1>4. CASE n # t
  <2>1. p # t
    BY <1>2, <1>4
  <2>2. /\ q.head = IF r.head = t THEN n ELSE r.head
        /\ q.next = [r.next EXCEPT ![p] = n, ![t] = NULL]
        /\ q.prev = [r.prev EXCEPT ![n] = p, ![t] = NULL]
    BY <1>4 DEF dequeue_task
  <2> HIDE DEF q
  <2>3. /\ q.next[t] = NULL /\ q.prev[t] = NULL
        /\ q.next[p] = n /\ q.prev[n] = p
        /\ \A s \in Slot : s # t /\ s # p => q.next[s] = r.next[s]
        /\ \A s \in Slot : s # t /\ s # n => q.prev[s] = r.prev[s]
    BY <1>1, <1>4, <2>1, <2>2 DEF RingType
  <2>4. n \in Linked(r) /\ p \in Linked(r)
    BY <1>0, <1>1, <1>2 DEF ConsistentLinks, Linked
  <2>5. Linked(q) = Linked(r) \ {t}
    BY <1>0, <1>1, <2>1, <2>3, <2>4 DEF Linked
  <2>6. \A s \in Slot : q.next[s] = NULL <=> q.prev[s] = NULL
    BY <1>0, <1>1, <2>3, <2>4 DEF ConsistentLinks, Linked, RingType
  <2>7. ASSUME NEW s \in Linked(q), s # p PROVE q.prev[q.next[s]] = s
    <3>1. /\ s \in Slot /\ s # t /\ q.next[s] = r.next[s]
          /\ r.next[s] \in Slot /\ r.prev[r.next[s]] = s
      BY <1>0, <2>3, <2>5, <2>7 DEF ConsistentLinks, Linked, RingType
    <3>2. r.next[s] # n /\ r.next[s] # t
      BY <1>2, <2>7, <3>1
    <3>3. QED
      BY <2>3, <3>1, <3>2
  <2>8. ASSUME NEW s \in Linked(q), s # n PROVE q.next[q.prev[s]] = s
    <3>1. /\ s \in Slot /\ s # t /\ q.prev[s] = r.prev[s]
          /\ r.prev[s] \in Slot /\ r.next[r.prev[s]] = s
      BY <1>0, <2>3, <2>5, <2>8 DEF ConsistentLinks, Linked, RingType
    <3>2. r.prev[s] # p /\ r.prev[s] # t
      BY <1>2, <2>8, <3>1
    <3>3. QED
      BY <2>3, <3>1, <3>2
  <2>9. \A s \in Linked(q) : q.prev[q.next[s]] = s /\ q.next[q.prev[s]] = s
    BY <2>3, <2>7, <2>8
  <2>10. q.head # NULL => q.head \in Linked(q)
    BY <1>4, <2>2, <2>4, <2>5 DEF ConsistentLinks
  <2>11. QED
    BY <2>5, <2>6, <2>9, <2>10 DEF ConsistentLinks, q
<1>5. QED
  BY <1>3, <1>4

----------------------------------------------------------------------------
(* Type correctness and the single owner of the CPU *)

\* task_create keeps types, and creates a READY task, never a RUNNING one.
LEMMA CreateType ==
  ASSUME TypeOK, OneRunning, NEW prio \in Priorities, task_create(prio)
  PROVE  TypeOK' /\ OneRunning'
<1>1. CASE Panic
  BY <1>1 DEF Panic, irq, TypeOK, OneRunning
<1>2. CASE ~Panic
  <2>1. PICK t \in Slot :
          /\ next_pid' = next_pid + 1
          /\ pid' = [pid EXCEPT ![t] = next_pid + 1]
          /\ priority' = [priority EXCEPT ![t] = prio]
          /\ time_slice' = [time_slice EXCEPT ![t] = BaseSlice + prio]
          /\ wake_in' = [wake_in EXCEPT ![t] = 0]
          /\ state' = [state EXCEPT ![t] = "READY"]
          /\ fault' = enqueue_faults(Unlinked(t))
          /\ ring' = IF fault' THEN Unlinked(t) ELSE enqueue_task(Unlinked(t), t)
          /\ UNCHANGED <<current_task, irq, halted>>
    BY <1>2 DEF task_create
  <2>2. ring' \in RingType
    BY <2>1, UnlinkedType, EnqueueType DEF TypeOK
  <2>3. fault' \in BOOLEAN
    BY <2>1 DEF enqueue_faults, TypeOK
  <2>4. prio \in Nat /\ BaseSlice \in Nat
    BY SchedulerAssumption
  <2>5. TypeOK'
    BY <2>1, <2>2, <2>3, <2>4 DEF TypeOK, States, irq
  <2>6. OneRunning'
    BY <2>1 DEF OneRunning, TypeOK
  <2> QED BY <2>5, <2>6
<1> QED BY <1>1, <1>2

\* A task that is switched to leaves the interrupt state well typed.
LEMMA ResumedType ==
  ASSUME TypeOK, Resumed, current_task' \in Slot
  PROVE  in_service' \in Slot \cup {NULL} /\ remapped' \in BOOLEAN
BY DEF TypeOK, Resumed

\* Every operation keeps the types and the single owner of the CPU.
LEMMA TypeStep == TypeOK /\ OneRunning /\ [Next]_vars => TypeOK' /\ OneRunning'
<1> SUFFICES ASSUME TypeOK, OneRunning, [Next]_vars PROVE TypeOK' /\ OneRunning'
  OBVIOUS
<1>0. /\ current_task \in Slot /\ state \in [Slot -> States] /\ ring \in RingType
      /\ \A t \in Slot : state[t] = "RUNNING" => t = current_task
  BY DEF TypeOK, OneRunning
<1>1. ASSUME NEW prio \in Priorities, task_create(prio) PROVE TypeOK' /\ OneRunning'
  BY <1>1, CreateType
<1>2. CASE task_yield
  <2>1. ring' \in RingType /\ state' \in [Slot -> States] /\ current_task' \in Slot
    BY <1>0, <1>2, ScheduleType DEF task_yield
  <2>2. OneRunning'
    BY <1>0, <1>2, ScheduleOneRunning DEF task_yield
  <2>3. QED
    BY <1>2, <2>1, <2>2, ResumedType DEF task_yield, TypeOK
<1>3. ASSUME NEW ticks \in SleepTicks, task_sleep(ticks) PROVE TypeOK' /\ OneRunning'
  <2> DEFINE st == [state EXCEPT ![current_task] = "SLEEPING"]
  <2>0. /\ st \in [Slot -> States]
        /\ \A t \in Slot : st[t] = "RUNNING" => t = current_task
    BY <1>0 DEF States
  <2>1. schedule(ring, st)
    BY <1>3 DEF task_sleep
  <2> HIDE DEF st
  <2>2. ring' \in RingType /\ state' \in [Slot -> States] /\ current_task' \in Slot
    BY <1>0, <2>0, <2>1, ScheduleType
  <2>3. OneRunning'
    BY <1>0, <2>0, <2>1, ScheduleOneRunning
  <2>4. ticks \in Nat
    BY SchedulerAssumption
  <2>5. QED
    BY <1>3, <2>2, <2>3, <2>4, ResumedType DEF task_sleep, TypeOK
<1>4. CASE task_exit
  <2> DEFINE st == [state EXCEPT ![current_task] = "ZOMBIE"]
             r == dequeue_task(ring, current_task)
  <2>0. /\ st \in [Slot -> States]
        /\ \A t \in Slot : st[t] = "RUNNING" => t = current_task
    BY <1>0 DEF States
  <2>1. CASE Panic
    BY <2>1 DEF Panic, irq, TypeOK, OneRunning
  <2>2. CASE /\ ~dequeue_faults(ring, current_task)
             /\ schedule(r, st) /\ Resumed /\ halted' = Nobody(r, st)
             /\ UNCHANGED <<task, next_pid, fault>>
    <3>1. r \in RingType
      BY <1>0, <2>2, DequeueType
    <3> HIDE DEF r, st
    <3>2. ring' \in RingType /\ state' \in [Slot -> States] /\ current_task' \in Slot
      BY <1>0, <2>0, <2>2, <3>1, ScheduleType
    <3>3. OneRunning'
      BY <1>0, <2>0, <2>2, ScheduleOneRunning
    <3>4. halted' \in BOOLEAN
      BY <2>2 DEF Nobody
    <3>5. QED
      BY <2>2, <3>2, <3>3, <3>4, ResumedType DEF TypeOK, task
  <2>3. QED
    BY <1>4, <2>1, <2>2 DEF task_exit
<1>5. ASSUME NEW p \in 0 .. MaxPid \cup {IdlePid}, task_kill(p)
      PROVE  TypeOK' /\ OneRunning'
  <2>1. PICK t \in Slot \ {current_task} :
          /\ state' = [state EXCEPT ![t] = "ZOMBIE"]
          /\ fault' = dequeue_faults(ring, t)
          /\ ring' = IF fault' THEN ring ELSE dequeue_task(ring, t)
    BY <1>5 DEF task_kill
  <2>2. ring' \in RingType /\ fault' \in BOOLEAN
    BY <1>0, <2>1, DequeueType DEF dequeue_faults
  <2>3. state' \in [Slot -> States]
    BY <1>0, <2>1 DEF States
  <2>4. UNCHANGED <<task, current_task, next_pid, irq, halted>>
    BY <1>5 DEF task_kill
  <2>5. QED
    BY <2>1, <2>2, <2>3, <2>4 DEF TypeOK, OneRunning, task, irq
<1>6. CASE sched_tick
  <2> DEFINE st == [t \in Slot |-> IF Woken(t) THEN "READY" ELSE state[t]]
  <2>0. /\ st \in [Slot -> States]
        /\ \A t \in Slot : st[t] = "RUNNING" => t = current_task
    BY <1>0 DEF States
  <2>1. wake_in' = [t \in Slot |-> IF wake_in[t] > 0 THEN wake_in[t] - 1 ELSE 0]
    BY <1>6 DEF sched_tick
  <2>2. wake_in' \in [Slot -> Nat]
    BY <2>1 DEF TypeOK
  <2>3. time_slice' \in [Slot -> Nat]
    BY <1>6, SchedulerAssumption DEF sched_tick, slice_left, TypeOK
  <2>4. /\ \/ schedule(ring, st)
           \/ state' = st /\ UNCHANGED <<ring, current_task>>
        /\ in_service' = IF current_task' = current_task THEN NULL ELSE current_task
        /\ UNCHANGED <<pid, priority, next_pid, remapped, fault, halted>>
    BY <1>6 DEF sched_tick
  <2> HIDE DEF st
  <2>5. ring' \in RingType /\ state' \in [Slot -> States] /\ current_task' \in Slot
    BY <1>0, <2>0, <2>4, ScheduleType
  <2>6. OneRunning'
    BY <1>0, <2>0, <2>4, ScheduleOneRunning DEF OneRunning
  <2>7. QED
    BY <1>0, <2>2, <2>3, <2>4, <2>5, <2>6 DEF TypeOK
<1>7. CASE idle_loop
  <2>1. ring' \in RingType /\ state' \in [Slot -> States] /\ current_task' \in Slot
    BY <1>0, <1>7, ScheduleType DEF idle_loop
  <2>2. OneRunning'
    BY <1>0, <1>7, ScheduleOneRunning DEF idle_loop
  <2>3. QED
    BY <1>7, <2>1, <2>2, ResumedType DEF idle_loop, TypeOK, task
<1>8. CASE timer_exception
  BY <1>8 DEF timer_exception, Panic, irq, TypeOK, OneRunning
<1>9. CASE UNCHANGED vars
  BY <1>9 DEF vars, TypeOK, OneRunning
<1>10. QED
  BY <1>1, <1>2, <1>3, <1>4, <1>5, <1>6, <1>7, <1>8, <1>9 DEF Next

----------------------------------------------------------------------------
(* The ring *)

\* No slot on the ring looks free to alloc_task.
LinkedInUse == \A t \in Linked(ring) : ~FreeSlot(t)

RingInv == ~fault => ConsistentLinks(ring) /\ LinkedInUse

(***************************************************************************)
(* schedule() only moves the head, to a linked task or to NULL, and kills  *)
(* nobody.                                                                 *)
(***************************************************************************)
LEMMA ScheduleRing ==
  ASSUME current_task \in Slot,
         NEW r \in RingType, NEW st \in [Slot -> States], schedule(r, st),
         ConsistentLinks(r), \A t \in Linked(r) : st[t] # "DEAD"
  PROVE  /\ ConsistentLinks(ring') /\ Linked(ring') = Linked(r)
         /\ \A t \in Linked(r) : state'[t] # "DEAD"
<1>1. ASSUME NEW t \in Slot, SwitchTo(r, st, t)
      PROVE  /\ ConsistentLinks(ring') /\ Linked(ring') = Linked(r)
             /\ \A s \in Linked(r) : state'[s] # "DEAD"
  <2>1. ring' = [r EXCEPT !.head = r.next[t]]
    BY <1>1 DEF SwitchTo
  <2>2. ring'.next = r.next /\ ring'.prev = r.prev /\ ring'.head = r.next[t]
    BY <2>1 DEF RingType
  <2>3. Linked(ring') = Linked(r)
    BY <2>2 DEF Linked
  <2>4. r.next[t] # NULL => r.next[t] \in Linked(r)
    BY SlotFacts DEF ConsistentLinks, Linked, RingType
  <2>5. ConsistentLinks(ring')
    BY <2>2, <2>3, <2>4 DEF ConsistentLinks
  <2>6. \A s \in Linked(r) : state'[s] # "DEAD"
    BY <1>1 DEF SwitchTo, Linked
  <2>7. QED
    BY <2>3, <2>5, <2>6
<1>2. CASE ring' = r /\ state' = st /\ UNCHANGED current_task
  BY <1>2
<1>3. QED
  BY <1>1, <1>2 DEF schedule

\* task_create links a slot that was not linked: a dead one.
LEMMA CreateRing ==
  ASSUME TypeOK, RingInv, NEW prio \in Priorities, task_create(prio)
  PROVE  RingInv'
<1>0. ConsistentLinks(ring) /\ LinkedInUse
  BY DEF task_create, Up, RingInv
<1>1. CASE Panic
  BY <1>1 DEF Panic, RingInv
<1>2. CASE ~Panic
  <2>1. PICK t \in Slot :
          /\ alloc_task(t)
          /\ state' = [state EXCEPT ![t] = "READY"]
          /\ pid' = [pid EXCEPT ![t] = next_pid + 1]
          /\ fault' = enqueue_faults(Unlinked(t))
          /\ ring' = IF fault' THEN Unlinked(t) ELSE enqueue_task(Unlinked(t), t)
    BY <1>2 DEF task_create
  <2>2. t \notin Linked(ring)
    BY <1>0, <2>1 DEF alloc_task, LinkedInUse
  <2>3. ring \in RingType /\ next_pid \in Nat /\ pid \in [Slot -> Nat]
        /\ state \in [Slot -> States]
    BY DEF TypeOK
  <2>4. Unlinked(t) = ring
    <3>1. ring.next[t] = NULL /\ ring.prev[t] = NULL
      BY <1>0, <2>2 DEF Linked, ConsistentLinks
    <3>2. QED
      BY <2>3, <3>1 DEF Unlinked, RingType
  <2>5. \A s \in Linked(ring) : s \in Slot /\ s # t /\ pid[s] # 0 /\ state[s] # "DEAD"
    BY <1>0, <2>2 DEF LinkedInUse, FreeSlot, Linked
  <2>6. /\ ring' = enqueue_task(ring, t)
        /\ ConsistentLinks(ring') /\ Linked(ring') = Linked(ring) \cup {t}
    BY <1>0, <2>1, <2>2, <2>3, <2>4, EnqueueLinks
  <2>7. pid'[t] # 0 /\ state'[t] # "DEAD"
    BY <2>1, <2>3
  <2>8. \A s \in Linked(ring) : pid'[s] # 0 /\ state'[s] # "DEAD"
    BY <2>1, <2>3, <2>5
  <2> QED BY <2>6, <2>7, <2>8 DEF RingInv, LinkedInUse, FreeSlot
<1> QED BY <1>1, <1>2

\* Every operation keeps the links of the ring consistent.
LEMMA RingStep == TypeOK /\ RingInv /\ [Next]_vars => RingInv'
<1> SUFFICES ASSUME TypeOK, RingInv, [Next]_vars PROVE RingInv'
  OBVIOUS
<1>0. /\ current_task \in Slot /\ state \in [Slot -> States] /\ ring \in RingType
      /\ pid \in [Slot -> Nat]
  BY DEF TypeOK
<1>a. ASSUME Up
      PROVE  /\ ConsistentLinks(ring)
             /\ \A t \in Linked(ring) : t \in Slot /\ pid[t] # 0 /\ state[t] # "DEAD"
  BY <1>a DEF Up, RingInv, LinkedInUse, FreeSlot, Linked
<1>1. ASSUME NEW prio \in Priorities, task_create(prio) PROVE RingInv'
  BY <1>1, CreateRing
<1>2. CASE task_yield
  <2>1. Up /\ schedule(ring, state) /\ pid' = pid
    BY <1>2 DEF task_yield, Calls
  <2>2. QED
    BY <1>0, <1>a, <2>1, ScheduleRing DEF RingInv, LinkedInUse, FreeSlot
<1>3. ASSUME NEW ticks \in SleepTicks, task_sleep(ticks) PROVE RingInv'
  <2> DEFINE st == [state EXCEPT ![current_task] = "SLEEPING"]
  <2>1. Up /\ schedule(ring, st) /\ pid' = pid
    BY <1>3 DEF task_sleep, Calls
  <2>2. st \in [Slot -> States] /\ \A t \in Linked(ring) : st[t] # "DEAD"
    BY <1>0, <1>a, <2>1 DEF States
  <2> HIDE DEF st
  <2>3. QED
    BY <1>0, <1>a, <2>1, <2>2, ScheduleRing DEF RingInv, LinkedInUse, FreeSlot
<1>4. CASE task_exit
  <2> DEFINE st == [state EXCEPT ![current_task] = "ZOMBIE"]
             r == dequeue_task(ring, current_task)
  <2>1. Up
    BY <1>4 DEF task_exit, Calls
  <2>2. CASE Panic
    BY <2>2 DEF Panic, RingInv
  <2>3. CASE /\ ~dequeue_faults(ring, current_task)
             /\ schedule(r, st)
             /\ UNCHANGED <<task, next_pid, fault>>
    <3>1. /\ r \in RingType /\ ConsistentLinks(r)
          /\ Linked(r) = Linked(ring) \ {current_task}
      BY <1>0, <1>a, <2>1, <2>3, DequeueType, DequeueLinks
    <3>2. st \in [Slot -> States] /\ \A t \in Linked(ring) : st[t] # "DEAD"
      BY <1>0, <1>a, <2>1 DEF States
    <3>3. pid' = pid
      BY <2>3 DEF task
    <3> HIDE DEF r, st
    <3>4. QED
      BY <1>0, <1>a, <2>1, <2>3, <3>1, <3>2, <3>3, ScheduleRing
         DEF RingInv, LinkedInUse, FreeSlot
  <2>4. QED
    BY <1>4, <2>2, <2>3 DEF task_exit
<1>5. ASSUME NEW p \in 0 .. MaxPid \cup {IdlePid}, task_kill(p) PROVE RingInv'
  <2>1. PICK t \in Slot \ {current_task} :
          /\ state' = [state EXCEPT ![t] = "ZOMBIE"]
          /\ fault' = dequeue_faults(ring, t)
          /\ ring' = IF fault' THEN ring ELSE dequeue_task(ring, t)
    BY <1>5 DEF task_kill
  <2>2. Up /\ pid' = pid
    BY <1>5 DEF task_kill, Calls, task
  <2>3. SUFFICES ASSUME ~fault'
                 PROVE  ConsistentLinks(ring') /\ LinkedInUse'
    BY DEF RingInv
  <2>4. ConsistentLinks(ring') /\ Linked(ring') = Linked(ring) \ {t}
    BY <1>0, <1>a, <2>1, <2>2, <2>3, DequeueLinks
  <2>5. \A s \in Linked(ring) : state'[s] # "DEAD"
    BY <1>0, <1>a, <2>1, <2>2
  <2>6. QED
    BY <1>a, <2>2, <2>4, <2>5 DEF LinkedInUse, FreeSlot
<1>6. CASE sched_tick
  <2> DEFINE st == [t \in Slot |-> IF Woken(t) THEN "READY" ELSE state[t]]
  <2>1. /\ Up /\ pid' = pid
        /\ \/ schedule(ring, st)
           \/ state' = st /\ UNCHANGED <<ring, current_task>>
    BY <1>6 DEF sched_tick
  <2>2. st \in [Slot -> States] /\ \A t \in Linked(ring) : st[t] # "DEAD"
    BY <1>0, <1>a, <2>1 DEF States
  <2> HIDE DEF st
  <2>3. QED
    BY <1>0, <1>a, <2>1, <2>2, ScheduleRing DEF RingInv, LinkedInUse, FreeSlot
<1>7. CASE idle_loop
  <2>1. Up /\ schedule(ring, state) /\ pid' = pid
    BY <1>7 DEF idle_loop, task
  <2>2. QED
    BY <1>0, <1>a, <2>1, ScheduleRing DEF RingInv, LinkedInUse, FreeSlot
<1>8. CASE timer_exception
  BY <1>8 DEF timer_exception, Panic, RingInv
<1>9. CASE UNCHANGED vars
  BY <1>9 DEF vars, RingInv, LinkedInUse, FreeSlot
<1>10. QED
  BY <1>1, <1>2, <1>3, <1>4, <1>5, <1>6, <1>7, <1>8, <1>9 DEF Next

----------------------------------------------------------------------------
\* sched_init leaves the idle task alone on the ring.
LEMMA InitRing ==
  ASSUME Init
  PROVE  /\ ring \in RingType /\ ConsistentLinks(ring)
         /\ Linked(ring) = {Idle}
BY SlotFacts DEF Init, enqueue_task, RingType, ConsistentLinks, Linked

(***************************************************************************)
(* The scheduler keeps its variables in their types.                       *)
(***************************************************************************)
THEOREM TypeAndOwner == Spec => [](TypeOK /\ OneRunning)
<1>1. Init => TypeOK /\ OneRunning
  <2> SUFFICES ASSUME Init PROVE TypeOK /\ OneRunning
    OBVIOUS
  <2>1. ring \in RingType
    BY InitRing
  <2>2. QED
    BY <2>1, SlotFacts, SchedulerAssumption DEF Init, TypeOK, OneRunning, States
<1>2. QED
  BY <1>1, TypeStep, PTL DEF Spec

(***************************************************************************)
(* At no time are two tasks RUNNING: schedule, sched_tick, the sleep, exit *)
(* and kill paths hand the state on together with current_task.            *)
(***************************************************************************)
THEOREM OneRunningHolds == Spec => []OneRunning
<1>1. TypeOK /\ OneRunning => OneRunning
  OBVIOUS
<1>2. QED
  BY <1>1, TypeAndOwner, PTL

----------------------------------------------------------------------------
(* The idle task with pid 0, as sched_init sets it *)

(***************************************************************************)
(* The idle task is alone on the ring, and no other slot is in use, until  *)
(* the first task_create: alloc_task takes the idle task's own slot, whose *)
(* links it has zeroed when enqueue_task writes through them.              *)
(***************************************************************************)
BootInv ==
  /\ state = [t \in Slot |-> IF t = Idle THEN "READY" ELSE "DEAD"]
  /\ current_task = Idle /\ ~halted
  /\ ~fault => /\ pid[Idle] = 0
               /\ ring.head = Idle
               /\ ring.next = [t \in Slot |-> IF t = Idle THEN Idle ELSE NULL]
               /\ ring.prev = [t \in Slot |-> IF t = Idle THEN Idle ELSE NULL]

\* sched_init establishes it when the idle task's pid is 0.
LEMMA BootInit ==
  ASSUME Init, IdlePid = 0
  PROVE  BootInv
BY SlotFacts DEF Init, BootInv, enqueue_task

\* In these states schedule() finds nobody else to run.
LEMMA BootSchedule ==
  ASSUME TypeOK, BootInv, schedule(ring, state)
  PROVE  UNCHANGED <<ring, state, current_task>>
BY DEF BootInv, schedule, SwitchTo, Picks, Eligible

\* The first creation faults; every other operation leaves the ring as it is.
LEMMA BootCreate ==
  ASSUME TypeOK, BootInv, NEW prio \in Priorities, task_create(prio)
  PROVE  /\ fault' /\ UNCHANGED <<state, current_task, halted>>
         /\ ring' = ring \/ ring' = Unlinked(Idle)
<1>0. Idle \in Slot /\ NULL \notin Slot /\ Slot \subseteq Nat /\ ring \in RingType /\ Idle = 0
  BY SlotFacts DEF Slot, Idle, TypeOK
<1>1. CASE Panic
  BY <1>1 DEF Panic
<1>2. CASE ~Panic
  <2>1. PICK t \in Slot :
          /\ alloc_task(t)
          /\ state' = [state EXCEPT ![t] = "READY"]
          /\ fault' = enqueue_faults(Unlinked(t))
          /\ ring' = IF fault' THEN Unlinked(t) ELSE enqueue_task(Unlinked(t), t)
          /\ UNCHANGED <<current_task, halted>>
    BY <1>2 DEF task_create
  <2>2. ~fault
    BY DEF task_create, Up
  <2>3. FreeSlot(Idle)
    BY <2>2 DEF BootInv, FreeSlot
  <2>4. ~(Idle < t)
    BY <1>0, <2>1, <2>3 DEF alloc_task
  <2>5. t = Idle
    BY <1>0, <2>4
  <2>6. fault'
    <3>1. ring.head = Idle
      BY <2>2 DEF BootInv
    <3>2. Unlinked(Idle).head = Idle /\ Unlinked(Idle).prev[Idle] = NULL
      BY <1>0, <3>1 DEF Unlinked, RingType
    <3> QED BY <1>0, <2>1, <2>5, <3>2 DEF enqueue_faults
  <2>7. state' = state
    BY <1>0, <2>1, <2>5 DEF BootInv
  <2> QED BY <2>1, <2>5, <2>6, <2>7
<1> QED BY <1>1, <1>2

\* The other operations need a task that makes a call, or change nothing.
LEMMA BootOther ==
  ASSUME TypeOK, BootInv, [Next]_vars, ~(\E prio \in Priorities : task_create(prio))
  PROVE  /\ UNCHANGED <<pid, ring, state, current_task, halted>>
         /\ fault => fault'
<1>0. current_task = Idle /\ \A t \in Slot : state[t] # "SLEEPING"
  BY DEF BootInv
<1>1. ~Calls
  BY <1>0 DEF Calls
<1>2. CASE sched_tick
  <2> DEFINE st == [t \in Slot |-> IF Woken(t) THEN "READY" ELSE state[t]]
  <2>1. st = state
    BY <1>0 DEF TypeOK, Woken
  <2>2. /\ schedule(ring, st) \/ (state' = st /\ UNCHANGED <<ring, current_task>>)
        /\ UNCHANGED <<pid, fault, halted>>
    BY <1>2 DEF sched_tick
  <2> HIDE DEF st
  <2> QED BY <2>1, <2>2, BootSchedule
<1>3. CASE idle_loop
  BY <1>3, BootSchedule DEF idle_loop, task
<1>4. CASE timer_exception
  BY <1>4 DEF timer_exception, Panic
<1>5. CASE UNCHANGED vars
  BY <1>5 DEF vars
<1> QED BY <1>1, <1>2, <1>3, <1>4, <1>5 DEF Next, task_yield, task_sleep, task_exit, task_kill

\* Every operation keeps the states of the boot.
LEMMA BootStep == TypeOK /\ BootInv /\ [Next]_vars => BootInv'
<1> SUFFICES ASSUME TypeOK, BootInv, [Next]_vars PROVE BootInv'
  OBVIOUS
<1>1. ASSUME NEW prio \in Priorities, task_create(prio) PROVE BootInv'
  BY <1>1, BootCreate DEF BootInv
<1>2. CASE ~(\E prio \in Priorities : task_create(prio))
  BY <1>2, BootOther DEF BootInv
<1> QED BY <1>1, <1>2

\* In the states of the boot the ring is consistent and holds the idle task.
LEMMA BootRing ==
  ASSUME TypeOK, BootInv, ~fault
  PROVE  ring \in RingType /\ ConsistentLinks(ring) /\ Linked(ring) = {Idle}
BY SlotFacts DEF TypeOK, BootInv, ConsistentLinks, Linked

\* What a boot with pid 0 can reach, in one invariant.
LEMMA BootHolds ==
  ASSUME IdlePid = 0
  PROVE  Spec => [](TypeOK /\ BootInv)
<1>1. Init => BootInv
  BY BootInit
<1>2. TypeOK /\ OneRunning /\ BootInv /\ [Next]_vars => BootInv'
  BY BootStep
<1> QED BY <1>1, <1>2, TypeAndOwner, PTL DEF Spec

----------------------------------------------------------------------------
(***************************************************************************)
(* The ready ring stays consistent for any number of slots and any         *)
(* interleaving of operations, as long as the kernel has not faulted.  If  *)
(* the idle task's pid is 0, that is until the first task_create; if it is *)
(* not, alloc_task never takes a slot that is linked.                      *)
(***************************************************************************)
THEOREM RingConsistentHolds == Spec => []RingConsistent
<1>1. CASE IdlePid # 0
  <2>1. Init => RingInv
    <3> SUFFICES ASSUME Init PROVE RingInv
      OBVIOUS
    <3>1. ConsistentLinks(ring) /\ Linked(ring) = {Idle}
      BY InitRing
    <3>2. pid[Idle] # 0 /\ state[Idle] # "DEAD"
      BY <1>1, SlotFacts DEF Init
    <3>3. QED
      BY <3>1, <3>2 DEF RingInv, LinkedInUse, FreeSlot
  <2>2. RingInv => RingConsistent
    BY DEF RingInv, RingConsistent
  <2>3. TypeOK /\ OneRunning => TypeOK
    OBVIOUS
  <2> QED BY <2>1, <2>2, <2>3, RingStep, TypeAndOwner, PTL DEF Spec
<1>2. CASE IdlePid = 0
  <2>1. TypeOK /\ BootInv => RingConsistent
    BY BootRing DEF RingConsistent
  <2>2. Spec => [](TypeOK /\ BootInv)
    BY <1>2, BootHolds
  <2> QED BY <2>1, <2>2, PTL
<1> QED BY <1>1, <1>2

----------------------------------------------------------------------------
(* Induction over the natural numbers, with sets in the place of predicates *)

\* A set of natural numbers that is not empty has a least element.
LEMMA LeastElement ==
  ASSUME NEW T \in SUBSET Nat, T # {}
  PROVE  \E m \in T : \A k \in T : m <= k
<1> DEFINE R == OpToRel(<, Nat)
<1>1. IsWellFoundedOn(R, Nat)
  BY NatLessThanWellFounded
<1> HIDE DEF R
<1>2. PICK m \in T : \A y \in T : ~ (<<y, m>> \in R)
  BY <1>1, WFMin
<1>3. \A x, y \in Nat : x < y => <<x, y>> \in R
  BY DEF R, OpToRel
<1>4. ASSUME NEW k \in T PROVE m <= k
  <2>1. m \in Nat /\ k \in Nat /\ ~(<<k, m>> \in R)
    BY <1>2
  <2>2. ~(k < m)
    BY <1>3, <2>1
  <2> QED BY <2>1, <2>2
<1> QED BY <1>4

\* A set with 0 in it and the successor of each of its elements is Nat.
LEMMA SetInduction ==
  ASSUME NEW S \in SUBSET Nat, 0 \in S, \A n \in S : n + 1 \in S
  PROVE  S = Nat
<1> SUFFICES ASSUME Nat \ S # {} PROVE FALSE
  OBVIOUS
<1>1. PICK m \in Nat \ S : \A k \in Nat \ S : m <= k
  BY LeastElement
<1>2. m # 0 /\ m - 1 \in Nat
  BY <1>1
<1>3. m - 1 \in S
  BY <1>1, <1>2
<1> QED BY <1>1, <1>2, <1>3

----------------------------------------------------------------------------
(* The ring as one cycle *)

WalkStep(r, g, m) ==
  g = [k \in 0 .. m |-> IF k = 0 THEN r.head
                        ELSE IF g[k-1] = NULL THEN NULL ELSE r.next[g[k-1]]]

\* The function that Walk defines exists, so it satisfies its recursion.
LEMMA WalkEquation ==
  ASSUME NEW r
  PROVE  /\ Walk(r)[0] = r.head
         /\ \A k \in 1 .. MAX_TASKS :
              Walk(r)[k] = IF Walk(r)[k-1] = NULL THEN NULL ELSE r.next[Walk(r)[k-1]]
<1> DEFINE S == {m \in Nat : \E g : WalkStep(r, g, m)}
<1>1. 0 \in S
  <2> DEFINE g == [k \in 0 .. 0 |-> r.head]
  <2>1. WalkStep(r, g, 0)
    BY DEF WalkStep
  <2> QED BY <2>1
<1>2. ASSUME NEW m \in S PROVE m + 1 \in S
  <2>1. PICK g : WalkStep(r, g, m)
    OBVIOUS
  <2> DEFINE h == [k \in 0 .. (m + 1) |-> 
                     IF k <= m THEN g[k] ELSE IF g[m] = NULL THEN NULL ELSE r.next[g[m]]]
  <2>2. \A k \in 0 .. m : g[k] = IF k = 0 THEN r.head
                        ELSE IF g[k-1] = NULL THEN NULL ELSE r.next[g[k-1]]
    BY <2>1 DEF WalkStep
  <2>3. \A k \in 0 .. (m+1) : h[k] = IF k = 0 THEN r.head
                        ELSE IF h[k-1] = NULL THEN NULL ELSE r.next[h[k-1]]
    BY <2>2
  <2>4. WalkStep(r, h, m + 1)
    BY <2>3 DEF WalkStep
  <2> QED BY <2>4
<1>3. \E g : WalkStep(r, g, MAX_TASKS)
  <2>1. S = Nat
    <3> HIDE DEF S
    <3>1. S \in SUBSET Nat
      BY DEF S
    <3> QED BY <1>1, <1>2, <3>1, SetInduction
  <2> QED BY <2>1, SlotFacts
<1>4. WalkStep(r, Walk(r), MAX_TASKS)
  BY <1>3 DEF Walk, WalkStep
<1> QED BY <1>4, SlotFacts DEF WalkStep

Succ(i, n) == IF i = n THEN 1 ELSE i + 1

(***************************************************************************)
(* Following next from the head meets the n linked slots in the order      *)
(* q[1], ..., q[n] and comes back to q[1].                                 *)
(***************************************************************************)
IsCycle(r, n, q) ==
  /\ n \in Nat /\ q \in [1 .. n -> Slot]
  /\ \A i, j \in 1 .. n : q[i] = q[j] => i = j
  /\ Linked(r) = {q[i] : i \in 1 .. n}
  /\ r.head = IF n = 0 THEN NULL ELSE q[1]
  /\ \A i \in 1 .. n : r.next[q[i]] = q[Succ(i, n)]

OneCycle(r) == \E n, q : IsCycle(r, n, q)

\* A cycle has as many tasks as are linked, and there are slots for all of them.
LEMMA CycleSize ==
  ASSUME NEW r, NEW n, NEW q, IsCycle(r, n, q)
  PROVE  Cardinality(Linked(r)) = n /\ n <= MAX_TASKS
<1>0. n \in Nat /\ q \in [1 .. n -> Slot] /\ MAX_TASKS \in Nat
  BY SlotFacts DEF IsCycle
<1>1. q \in Injection(1 .. n, Slot)
  BY DEF IsCycle, Injection, IsInjective
<1>2. /\ IsFiniteSet(1 .. n) /\ Cardinality(1 .. n) = IF 1 > n THEN 0 ELSE n - 1 + 1
      /\ IsFiniteSet(0 .. (MAX_TASKS - 1))
      /\ Cardinality(0 .. (MAX_TASKS - 1))
           = IF 0 > MAX_TASKS - 1 THEN 0 ELSE MAX_TASKS - 1 - 0 + 1
  BY <1>0, FS_Interval
<1>3. n <= MAX_TASKS
  <2>1. Cardinality(1 .. n) <= Cardinality(Slot)
    BY <1>1, <1>2, FS_Injection DEF Slot
  <2>2. Cardinality(1 .. n) = n /\ Cardinality(Slot) = MAX_TASKS
    BY <1>0, <1>2 DEF Slot
  <2> QED BY <2>1, <2>2
<1>4. q \in Bijection(1 .. n, Linked(r))
  <2>1. q \in [1 .. n -> Linked(r)]
    BY <1>0 DEF IsCycle
  <2> QED BY <2>1 DEF IsCycle, Bijection, Injection, IsInjective, Surjection
<1> QED BY <1>0, <1>3, <1>4, FS_CountingElements DEF ExistsBijection

\* Walk follows the cycle, and never leaves it.
LEMMA WalkIsCycle ==
  ASSUME NEW r \in RingType, NEW n, NEW q, IsCycle(r, n, q)
  PROVE  /\ \A k \in 0 .. (n - 1) : Walk(r)[k] = q[k + 1]
         /\ \A k \in 0 .. MAX_TASKS : Walk(r)[k] \in Linked(r) \cup {NULL}
<1>a. n <= MAX_TASKS
  BY CycleSize
<1>0. n \in Nat /\ n <= MAX_TASKS /\ MAX_TASKS \in Nat /\ q \in [1 .. n -> Slot]
  BY <1>a, SlotFacts DEF IsCycle
<1>1. \A i \in 1 .. n : q[i] \in Slot /\ q[i] # NULL /\ q[i] \in Linked(r)
  BY <1>0, SlotFacts DEF IsCycle
<1> DEFINE S == {k \in Nat : k < n => Walk(r)[k] = q[k + 1]}
           U == {k \in Nat : k <= MAX_TASKS => Walk(r)[k] \in Linked(r) \cup {NULL}}
<1>2. S = Nat
  <2>1. 0 \in S
    BY <1>0, WalkEquation DEF IsCycle
  <2>2. ASSUME NEW k \in S PROVE k + 1 \in S
    <3> SUFFICES ASSUME k + 1 < n PROVE Walk(r)[k + 1] = q[k + 2]
      BY <1>0
    <3>1. Walk(r)[k] = q[k + 1] /\ k + 1 \in 1 .. n /\ k + 1 \in 1 .. MAX_TASKS /\ k + 1 # n
      BY <1>0
    <3>2. Walk(r)[k + 1] = r.next[q[k + 1]]
      BY <1>0, <1>1, <3>1, WalkEquation
    <3> QED BY <3>1, <3>2 DEF IsCycle, Succ
  <2>3. S \in SUBSET Nat
    OBVIOUS
  <2> HIDE DEF S
  <2> QED BY <2>1, <2>2, <2>3, SetInduction
<1>3. U = Nat
  <2>1. 0 \in U
    BY <1>0, <1>1, WalkEquation DEF IsCycle
  <2>2. ASSUME NEW k \in U PROVE k + 1 \in U
    <3> SUFFICES ASSUME k + 1 <= MAX_TASKS PROVE Walk(r)[k + 1] \in Linked(r) \cup {NULL}
      BY <1>0
    <3>1. Walk(r)[k] \in Linked(r) \cup {NULL} /\ k + 1 \in 1 .. MAX_TASKS
      BY <1>0
    <3>2. Walk(r)[k + 1] = IF Walk(r)[k] = NULL THEN NULL ELSE r.next[Walk(r)[k]]
      BY <1>0, <3>1, WalkEquation
    <3>3. \A s \in Linked(r) : r.next[s] \in Linked(r)
      BY <1>0, <1>1 DEF IsCycle, Succ
    <3> QED BY <3>1, <3>2, <3>3
  <2>3. U \in SUBSET Nat
    OBVIOUS
  <2> HIDE DEF U
  <2> QED BY <2>1, <2>2, <2>3, SetInduction
<1> QED BY <1>0, <1>2, <1>3

\* In a consistent cycle prev leads from the head to the last task.
LEMMA LastOfCycle ==
  ASSUME NEW r \in RingType, ConsistentLinks(r), NEW n, NEW q, IsCycle(r, n, q), r.head # NULL
  PROVE  n > 0 /\ r.head = q[1] /\ r.prev[r.head] = q[n]
<1>1. n \in Nat /\ n > 0 /\ r.head = q[1]
  BY DEF IsCycle
<1>2. n \in 1 .. n /\ 1 \in 1 .. n
  BY <1>1
<1>3. q[n] \in Linked(r) /\ r.next[q[n]] = q[1]
  BY <1>2 DEF IsCycle, Succ
<1> QED BY <1>1, <1>3 DEF ConsistentLinks

\* enqueue_task puts the task at the end of the cycle.
LEMMA EnqueueCycle ==
  ASSUME NEW r \in RingType, ConsistentLinks(r), NEW n, NEW q, IsCycle(r, n, q),
         NEW t \in Slot, t \notin Linked(r)
  PROVE  IsCycle(enqueue_task(r, t), n + 1, [i \in 1 .. (n + 1) |-> IF i <= n THEN q[i] ELSE t])
<1> DEFINE p == [i \in 1 .. (n + 1) |-> IF i <= n THEN q[i] ELSE t]
           e == enqueue_task(r, t)
<1>0. /\ n \in Nat /\ q \in [1 .. n -> Slot] /\ NULL \notin Slot
      /\ \A i, j \in 1 .. n : q[i] = q[j] => i = j
      /\ Linked(r) = {q[i] : i \in 1 .. n}
      /\ \A i \in 1 .. n : r.next[q[i]] = q[Succ(i, n)]
  BY SlotFacts DEF IsCycle
<1>1. Linked(e) = Linked(r) \cup {t}
  BY EnqueueLinks
<1>2. p \in [1 .. (n + 1) -> Slot] /\ n + 1 \in Nat /\ p[n + 1] = t /\ \A i \in 1 .. n : p[i] = q[i]
  BY <1>0
<1> HIDE DEF p
<1>3. \A i, j \in 1 .. (n + 1) : p[i] = p[j] => i = j
  BY <1>0, <1>2
<1>4. Linked(e) = {p[i] : i \in 1 .. (n + 1)}
  BY <1>0, <1>1, <1>2
<1>5. CASE r.head = NULL
  <2>1. n = 0
    <3>1. n # 0 => q[1] \in Slot
      BY <1>0
    <3> QED BY <1>0, <1>5, <3>1 DEF IsCycle
  <2>2. e.head = t /\ e.next[t] = t
    BY <1>5 DEF enqueue_task, RingType
  <2> HIDE DEF e
  <2>3. \A i \in 1 .. (n + 1) : e.next[p[i]] = p[Succ(i, n + 1)]
    BY <1>2, <2>1, <2>2 DEF Succ
  <2> QED BY <1>2, <1>3, <1>4, <2>1, <2>2, <2>3 DEF IsCycle, p, e
<1>6. CASE r.head # NULL
  <2>1. n > 0 /\ r.head = q[1] /\ r.prev[r.head] = q[n]
    BY <1>6, LastOfCycle
  <2>2. 1 \in 1 .. n /\ n \in 1 .. n /\ q[n] \in Slot /\ q[n] # t /\ q[1] \in Slot
    BY <1>0, <2>1
  <2>3. e.head = q[1] /\ e.next = [r.next EXCEPT ![q[n]] = t, ![t] = q[1]]
    BY <1>6, <2>1 DEF enqueue_task
  <2> HIDE DEF e
  <2>4. /\ e.next[t] = q[1] /\ e.next[q[n]] = t
        /\ \A i \in 1 .. n : i # n => e.next[q[i]] = q[i + 1]
    BY <1>0, <2>2, <2>3 DEF RingType, Succ
  <2>5. \A i \in 1 .. (n + 1) : e.next[p[i]] = p[Succ(i, n + 1)]
    BY <1>0, <1>2, <2>1, <2>2, <2>4 DEF Succ
  <2>6. e.head = p[1]
    BY <1>2, <2>2, <2>3
  <2>7. IsCycle(e, n + 1, p)
    BY <1>0, <1>2, <1>3, <1>4, <2>5, <2>6 DEF IsCycle
  <2> QED BY <2>7 DEF p, e
<1> QED BY <1>5, <1>6

\* dequeue_task takes the task out of the cycle and keeps the order of the others.
LEMMA DequeueCycle ==
  ASSUME NEW r \in RingType, ConsistentLinks(r), NEW n, NEW q, IsCycle(r, n, q),
         NEW m \in 1 .. n
  PROVE  /\ ~dequeue_faults(r, q[m])
         /\ IsCycle(dequeue_task(r, q[m]), n - 1,
                    [i \in 1 .. (n - 1) |-> IF i < m THEN q[i] ELSE q[i + 1]])
<1> DEFINE t == q[m]
           p == [i \in 1 .. (n - 1) |-> IF i < m THEN q[i] ELSE q[i + 1]]
           e == dequeue_task(r, t)
<1>0. /\ n \in Nat /\ q \in [1 .. n -> Slot] /\ NULL \notin Slot /\ n > 0 /\ r.head = q[1]
      /\ \A i, j \in 1 .. n : q[i] = q[j] => i = j
      /\ Linked(r) = {q[i] : i \in 1 .. n}
      /\ \A i \in 1 .. n : r.next[q[i]] = q[Succ(i, n)]
  BY SlotFacts DEF IsCycle
<1>1. t \in Slot /\ t \in Linked(r) /\ ~dequeue_faults(r, t)
  BY <1>0 DEF dequeue_faults, ConsistentLinks, Linked
<1>2. Linked(e) = Linked(r) \ {t}
  BY <1>1, DequeueLinks
<1>3. n - 1 \in Nat /\ p \in [1 .. (n - 1) -> Slot]
  BY <1>0
<1>4. \A i \in 1 .. (n - 1) : p[i] = IF i < m THEN q[i] ELSE q[i + 1]
  OBVIOUS
<1> HIDE DEF p
<1>5. \A i, j \in 1 .. (n - 1) : p[i] = p[j] => i = j
  BY <1>0, <1>4
<1>6. Linked(e) = {p[i] : i \in 1 .. (n - 1)}
  <2>1. ASSUME NEW s \in Linked(e) PROVE \E i \in 1 .. (n - 1) : s = p[i]
    <3>1. PICK j \in 1 .. n : s = q[j] /\ j # m
      BY <1>0, <1>2, <2>1
    <3>2. CASE j < m
      BY <1>0, <1>4, <3>1, <3>2
    <3>3. CASE j > m
      <4>1. j - 1 \in 1 .. (n - 1) /\ ~(j - 1 < m) /\ (j - 1) + 1 = j
        BY <1>0, <3>3
      <4> QED BY <1>4, <3>1, <4>1
    <3> QED BY <3>1, <3>2, <3>3
  <2>2. ASSUME NEW i \in 1 .. (n - 1) PROVE p[i] \in Linked(e)
    BY <1>0, <1>2, <1>4
  <2> QED BY <2>1, <2>2
<1>7. CASE r.next[t] = t
  <2>1. n = 1 /\ m = 1
    BY <1>0, <1>7 DEF Succ
  <2>2. e.head = NULL
    BY <1>7 DEF dequeue_task
  <2> HIDE DEF e
  <2> QED BY <1>1, <1>3, <1>5, <1>6, <2>1, <2>2 DEF IsCycle, p, e
<1>8. CASE r.next[t] # t
  <2> DEFINE b == IF m = 1 THEN n ELSE m - 1
  <2>1. n > 1
    BY <1>0, <1>8 DEF Succ
  <2>2. b \in 1 .. n /\ b # m /\ Succ(b, n) = m /\ r.next[q[b]] = t /\ q[b] \in Linked(r)
    BY <1>0, <2>1 DEF Succ
  <2>3. r.prev[t] = q[b]
    BY <2>2 DEF ConsistentLinks
  <2> HIDE DEF b
  <2>4. /\ e.head = (IF q[1] = t THEN q[Succ(m, n)] ELSE q[1])
        /\ e.next = [r.next EXCEPT ![q[b]] = q[Succ(m, n)], ![t] = NULL]
    BY <1>0, <1>8, <2>3 DEF dequeue_task
  <2> HIDE DEF e
  <2>5. /\ e.next[q[b]] = q[Succ(m, n)]
        /\ \A i \in 1 .. n : i # b /\ i # m => e.next[q[i]] = q[Succ(i, n)]
    BY <1>0, <1>1, <2>2, <2>4 DEF RingType
  <2>6. e.head = p[1]
    BY <1>0, <1>4, <2>1, <2>4 DEF Succ
  <2>7. ASSUME NEW i \in 1 .. (n - 1) PROVE e.next[p[i]] = p[Succ(i, n - 1)]
    <3>0. b = IF m = 1 THEN n ELSE m - 1
      BY DEF b
    <3>1. CASE i < m - 1
      <4>1. i + 1 \in 1 .. (n - 1) /\ i \in 1 .. n /\ i # b /\ i # m
        BY <1>0, <3>0, <3>1
      <4>2. p[i] = q[i] /\ p[i + 1] = q[i + 1]
        BY <1>0, <1>4, <3>1, <4>1
      <4>3. Succ(i, n) = i + 1 /\ Succ(i, n - 1) = i + 1
        BY <1>0, <3>1 DEF Succ
      <4> QED BY <2>5, <4>1, <4>2, <4>3
    <3>2. CASE i = m - 1
      <4>1. b = i /\ p[i] = q[b]
        BY <1>0, <1>4, <3>0, <3>2
      <4>2. p[Succ(i, n - 1)] = q[Succ(m, n)]
        BY <1>0, <1>4, <2>1, <3>2 DEF Succ
      <4> QED BY <2>5, <4>1, <4>2
    <3>3. CASE i >= m /\ i + 1 = n
      <4>1. p[i] = q[n] /\ Succ(i, n - 1) = 1 /\ 1 \in 1 .. (n - 1) /\ n \in 1 .. n /\ n # m
        BY <1>0, <1>4, <3>3 DEF Succ
      <4>2. CASE m = 1
        BY <1>0, <1>4, <2>5, <3>0, <4>1, <4>2 DEF Succ
      <4>3. CASE m # 1
        <5>1. n # b /\ Succ(n, n) = 1 /\ p[1] = q[1]
          BY <1>0, <1>4, <3>0, <3>3, <4>1, <4>3 DEF Succ
        <5> QED BY <2>5, <4>1, <5>1
      <4> QED BY <4>2, <4>3
    <3>4. CASE i >= m /\ i + 1 # n
      <4>1. i + 1 \in 1 .. n /\ i + 1 \in 1 .. (n - 1) /\ i + 1 # b /\ i + 1 # m
        BY <1>0, <3>0, <3>4
      <4>2. p[i] = q[i + 1] /\ p[i + 1] = q[(i + 1) + 1]
        BY <1>0, <1>4, <3>4, <4>1
      <4>3. Succ(i + 1, n) = (i + 1) + 1 /\ Succ(i, n - 1) = i + 1
        BY <1>0, <3>4 DEF Succ
      <4> QED BY <2>5, <4>1, <4>2, <4>3
    <3> QED BY <1>0, <3>1, <3>2, <3>3, <3>4
  <2>8. IsCycle(e, n - 1, p)
    BY <1>0, <1>3, <1>5, <1>6, <2>1, <2>6, <2>7 DEF IsCycle
  <2> QED BY <1>1, <2>8 DEF p, e
<1> QED BY <1>7, <1>8

\* Moving the head past the m-th task turns the cycle by m.
LEMMA TurnCycle ==
  ASSUME NEW r \in RingType, NEW n, NEW q, IsCycle(r, n, q), NEW m \in 1 .. n
  PROVE  IsCycle([r EXCEPT !.head = r.next[q[m]]], n,
                 [i \in 1 .. n |-> IF i <= n - m THEN q[i + m] ELSE q[i + m - n]])
<1> DEFINE p == [i \in 1 .. n |-> IF i <= n - m THEN q[i + m] ELSE q[i + m - n]]
           e == [r EXCEPT !.head = r.next[q[m]]]
<1>0. /\ n \in Nat /\ q \in [1 .. n -> Slot] /\ n > 0
      /\ \A i, j \in 1 .. n : q[i] = q[j] => i = j
      /\ Linked(r) = {q[i] : i \in 1 .. n}
      /\ \A i \in 1 .. n : r.next[q[i]] = q[Succ(i, n)]
  BY DEF IsCycle
<1>1. e.next = r.next /\ e.head = q[Succ(m, n)] /\ Linked(e) = Linked(r)
  BY <1>0 DEF RingType, Linked
<1>2. p \in [1 .. n -> Slot] /\ \A i \in 1 .. n : p[i] = IF i <= n - m THEN q[i + m] ELSE q[i + m - n]
  BY <1>0
<1> HIDE DEF p, e
<1>3. ASSUME NEW i \in 1 .. n, NEW j \in 1 .. n, p[i] = p[j] PROVE i = j
  <2> DEFINE at(k) == IF k <= n - m THEN k + m ELSE k + m - n
  <2>1. at(i) \in 1 .. n /\ at(j) \in 1 .. n /\ (at(i) = at(j) => i = j)
    BY <1>0
  <2>2. p[i] = q[at(i)] /\ p[j] = q[at(j)]
    BY <1>2
  <2> HIDE DEF at
  <2> QED BY <1>0, <1>3, <2>1, <2>2
<1>4. Linked(e) = {p[i] : i \in 1 .. n}
  <2>1. ASSUME NEW s \in Linked(e) PROVE \E i \in 1 .. n : s = p[i]
    <3>1. PICK j \in 1 .. n : s = q[j]
      BY <1>0, <1>1, <2>1
    <3>2. CASE j > m
      <4>1. j - m \in 1 .. n /\ j - m <= n - m /\ (j - m) + m = j
        BY <1>0, <3>2
      <4> QED BY <1>2, <3>1, <4>1
    <3>3. CASE j <= m
      <4>1. j + n - m \in 1 .. n /\ ~(j + n - m <= n - m) /\ (j + n - m) + m - n = j
        BY <1>0, <3>3
      <4> QED BY <1>2, <3>1, <4>1
    <3> QED BY <3>2, <3>3
  <2>2. ASSUME NEW i \in 1 .. n PROVE p[i] \in Linked(e)
    BY <1>0, <1>1, <1>2
  <2> QED BY <2>1, <2>2
<1>5. e.head = p[1]
  BY <1>0, <1>1, <1>2 DEF Succ
<1>6. ASSUME NEW i \in 1 .. n PROVE e.next[p[i]] = p[Succ(i, n)]
  <2>1. CASE i <= n - m
    <3>1. p[i] = q[i + m] /\ i + m \in 1 .. n /\ i # n /\ i + 1 \in 1 .. n
      BY <1>0, <1>2, <2>1
    <3>2. p[i + 1] = q[Succ(i + m, n)] /\ Succ(i, n) = i + 1
      BY <1>0, <1>2, <2>1, <3>1 DEF Succ
    <3> QED BY <1>0, <1>1, <3>1, <3>2
  <2>2. CASE i > n - m
    <3>1. p[i] = q[i + m - n] /\ i + m - n \in 1 .. n
      BY <1>0, <1>2, <2>2
    <3>2. CASE i = n
      <4>1. i + m - n = m /\ Succ(i, n) = 1 /\ 1 \in 1 .. n
        BY <1>0, <3>2 DEF Succ
      <4>2. CASE m = n
        BY <1>0, <1>1, <1>2, <3>1, <4>1, <4>2 DEF Succ
      <4>3. CASE m # n
        <5>1. 1 <= n - m /\ Succ(m, n) = 1 + m
          BY <1>0, <4>3 DEF Succ
        <5>2. p[1] = q[1 + m]
          BY <1>2, <4>1, <5>1
        <5> QED BY <1>0, <1>1, <3>1, <4>1, <5>1, <5>2
      <4> QED BY <4>2, <4>3
    <3>3. CASE i # n
      <4>1. Succ(i, n) = i + 1 /\ i + 1 \in 1 .. n /\ Succ(i + m - n, n) = (i + 1) + m - n
        BY <1>0, <2>2, <3>3 DEF Succ
      <4>2. p[i + 1] = q[(i + 1) + m - n]
        BY <1>0, <1>2, <2>2, <4>1
      <4> QED BY <1>0, <1>1, <3>1, <4>1, <4>2
    <3> QED BY <3>2, <3>3
  <2> QED BY <1>0, <2>1, <2>2
<1>7. IsCycle(e, n, p)
  BY <1>0, <1>2, <1>3, <1>4, <1>5, <1>6 DEF IsCycle
<1> QED BY <1>7 DEF p, e

----------------------------------------------------------------------------
(* The tasks on the ring *)

Alive == {"READY", "RUNNING", "SLEEPING"}

\* The tasks that are to be on the ring, by the states st.
Members(st) == {t \in Slot : st[t] \in Alive /\ (pid[t] # 0 \/ t = Idle)}

\* alloc_task does not see a free slot in the idle task, and it never sleeps.
IdleKept(st) == pid[Idle] # 0 /\ st[Idle] \notin {"DEAD", "SLEEPING"}

(***************************************************************************)
(* The ring r is one consistent cycle through the live tasks of st.        *)
(***************************************************************************)
RingOf(r, st) == ConsistentLinks(r) /\ OneCycle(r) /\ Linked(r) = Members(st)

CycleInv == /\ RingOf(ring, state) /\ IdleKept(state)
            /\ ~halted => current_task \in Linked(ring)

\* Only tasks on the ring are dispatched.
LEMMA PickedOnRing ==
  ASSUME NEW r \in RingType, OneCycle(r), NEW st, NEW t \in Slot, Picks(r, st, t)
  PROVE  t \in Linked(r) /\ st[t] = "READY" /\ t # current_task
<1>1. PICK n, q : IsCycle(r, n, q)
  BY DEF OneCycle
<1>2. PICK k \in 0 .. (MAX_TASKS - 1) : Walk(r)[k] = t
  BY DEF Picks
<1>3. k \in 0 .. MAX_TASKS
  BY SlotFacts
<1>4. t \in Linked(r)
  BY <1>1, <1>2, <1>3, WalkIsCycle, SlotFacts
<1> QED BY <1>4 DEF Picks, Eligible

\* The search of schedule() finds a READY task if there is one on the ring.
LEMMA SearchFinds ==
  ASSUME NEW r \in RingType, OneCycle(r), NEW st, NEW t \in Linked(r), Eligible(st, t)
  PROVE  ~Nobody(r, st)
<1>1. PICK n, q : IsCycle(r, n, q)
  BY DEF OneCycle
<1>2. n \in Nat /\ q \in [1 .. n -> Slot] /\ Linked(r) = {q[i] : i \in 1 .. n}
  BY <1>1 DEF IsCycle
<1>3. n <= MAX_TASKS /\ MAX_TASKS \in Nat
  BY <1>1, CycleSize, SlotFacts
<1>4. \A k \in 0 .. (n - 1) : Walk(r)[k] = q[k + 1]
  BY <1>1, WalkIsCycle
<1> DEFINE T == {k \in 0 .. (n - 1) : Eligible(st, Walk(r)[k])}
<1>5. T # {}
  <2>1. PICK i \in 1 .. n : t = q[i]
    BY <1>2
  <2>2. i - 1 \in 0 .. (n - 1) /\ (i - 1) + 1 = i
    BY <1>2
  <2> QED BY <1>4, <2>1, <2>2
<1>6. T \in SUBSET Nat
  BY <1>2
<1> HIDE DEF T
<1>7. PICK m \in T : \A k \in T : m <= k
  BY <1>5, <1>6, LeastElement
<1>8. m \in 0 .. (n - 1) /\ Eligible(st, Walk(r)[m])
  BY <1>7 DEF T
<1>9. ASSUME NEW j \in 0 .. (m - 1) PROVE ~Eligible(st, Walk(r)[j])
  <2>1. j \in 0 .. (n - 1) /\ ~(m <= j)
    BY <1>2, <1>8
  <2> QED BY <1>7, <2>1 DEF T
<1>10. Walk(r)[m] \in Slot
  <2>1. m + 1 \in 1 .. n
    BY <1>2, <1>8
  <2> QED BY <1>2, <1>4, <1>8, <2>1
<1>11. m \in 0 .. (MAX_TASKS - 1)
  BY <1>2, <1>3, <1>8
<1>12. Picks(r, st, Walk(r)[m])
  BY <1>8, <1>9, <1>11 DEF Picks
<1> QED BY <1>10, <1>12 DEF Nobody

\* schedule() keeps the cycle and its members.
LEMMA ScheduleCycle ==
  ASSUME TypeOK, NEW r \in RingType, NEW st \in [Slot -> States], RingOf(r, st), IdleKept(st),
         schedule(r, st), pid' = pid
  PROVE  /\ RingOf(ring, state)' /\ IdleKept(state)'
         /\ current_task' = current_task \/ current_task' \in Linked(r)
         /\ Linked(ring') = Linked(r)
<1>0. current_task \in Slot /\ Idle \in Slot
  BY SlotFacts DEF TypeOK
<1>1. ASSUME NEW t \in Slot, SwitchTo(r, st, t)
      PROVE  /\ RingOf(ring, state)' /\ IdleKept(state)' /\ current_task' \in Linked(r)
             /\ Linked(ring') = Linked(r)
  <2>0. PICK n, q : IsCycle(r, n, q)
    BY DEF RingOf, OneCycle
  <2>1. t \in Linked(r) /\ st[t] = "READY" /\ t # current_task
    BY <1>1, PickedOnRing DEF SwitchTo, RingOf
  <2>2. PICK m \in 1 .. n : t = q[m]
    BY <2>0, <2>1 DEF IsCycle
  <2>3. ring' = [r EXCEPT !.head = r.next[q[m]]]
    BY <1>1, <2>2 DEF SwitchTo
  <2>4. OneCycle(ring')
    BY <2>0, <2>3, TurnCycle DEF OneCycle
  <2>5. ring'.next = r.next /\ ring'.prev = r.prev /\ ring'.head = r.next[t]
    BY <2>2, <2>3 DEF RingType
  <2>6. Linked(ring') = Linked(r)
    BY <2>5 DEF Linked
  <2>7. ConsistentLinks(ring')
    <3>1. r.next[t] # NULL => r.next[t] \in Linked(r)
      BY SlotFacts DEF RingOf, ConsistentLinks, Linked, RingType
    <3> QED BY <2>5, <2>6, <3>1 DEF RingOf, ConsistentLinks
  <2>8. /\ state' = [st EXCEPT ![t] = "RUNNING",
                         ![current_task] = IF @ = "RUNNING" THEN "READY" ELSE @]
        /\ current_task' = t
    BY <1>1 DEF SwitchTo
  <2>9. /\ \A s \in Slot : state'[s] \in Alive <=> st[s] \in Alive
        /\ \A s \in Slot : state'[s] \in {"DEAD", "SLEEPING"} <=> st[s] \in {"DEAD", "SLEEPING"}
    BY <1>0, <2>1, <2>8 DEF Alive
  <2>10. Members(state)' = Members(st)
    BY <2>9 DEF Members
  <2> QED BY <1>0, <2>1, <2>4, <2>6, <2>7, <2>8, <2>9, <2>10 DEF RingOf, IdleKept
<1>2. CASE ring' = r /\ state' = st /\ UNCHANGED current_task
  BY <1>2 DEF RingOf, IdleKept, Members
<1> QED BY <1>1, <1>2 DEF schedule

\* task_create links the new task behind the last one, or panics.
LEMMA CreateCycle ==
  ASSUME TypeOK, CycleInv, NEW prio \in Priorities, task_create(prio)
  PROVE  /\ CycleInv'
         /\ UNCHANGED ring \/ \E t \in Slot \ Linked(ring) : ring' = enqueue_task(ring, t)
                                                     /\ state' = [state EXCEPT ![t] = "READY"]
         /\ \A s \in Linked(ring) : state'[s] = state[s]
         /\ UNCHANGED <<current_task, halted>>
<1>0. /\ ring \in RingType /\ next_pid \in Nat /\ pid \in [Slot -> Nat] /\ Up
      /\ state \in [Slot -> States] /\ Idle \in Slot
  BY SlotFacts DEF TypeOK, task_create
<1>1. CASE Panic
  BY <1>1 DEF Panic, CycleInv, RingOf, IdleKept, Members
<1>2. CASE ~Panic
  <2>1. PICK t \in Slot :
          /\ alloc_task(t)
          /\ state' = [state EXCEPT ![t] = "READY"]
          /\ pid' = [pid EXCEPT ![t] = next_pid + 1]
          /\ fault' = enqueue_faults(Unlinked(t))
          /\ ring' = IF fault' THEN Unlinked(t) ELSE enqueue_task(Unlinked(t), t)
          /\ UNCHANGED <<current_task, irq, halted>>
    BY <1>2 DEF task_create
  <2>2. t \notin Linked(ring) /\ t # Idle
    BY <2>1 DEF alloc_task, FreeSlot, CycleInv, RingOf, Members, Alive, IdleKept
  <2>3. Unlinked(t) = ring
    <3>1. ring.next[t] = NULL /\ ring.prev[t] = NULL
      BY <2>2 DEF Linked, CycleInv, RingOf, ConsistentLinks
    <3> QED BY <1>0, <3>1 DEF Unlinked, RingType
  <2>4. \A s \in Slot \ {t} : state'[s] = state[s] /\ pid'[s] = pid[s]
    BY <1>0, <2>1
  <2>5. IdleKept(state)'
    BY <1>0, <2>2, <2>4 DEF CycleInv, IdleKept
  <2>6. \A s \in Linked(ring) : state'[s] = state[s]
    BY <2>2, <2>4 DEF Linked
  <2>7. /\ ring' = enqueue_task(ring, t)
        /\ ConsistentLinks(ring') /\ Linked(ring') = Linked(ring) \cup {t}
    BY <1>0, <2>1, <2>2, <2>3, EnqueueLinks DEF CycleInv, RingOf
  <2>8. OneCycle(ring')
    BY <1>0, <2>2, <2>7, EnqueueCycle DEF CycleInv, RingOf, OneCycle
  <2>9. pid'[t] # 0 /\ state'[t] = "READY"
    BY <1>0, <2>1
  <2>10. Members(state)' = Members(state) \cup {t}
    BY <2>4, <2>9 DEF Members, Alive
  <2> QED BY <1>0, <2>1, <2>2, <2>5, <2>6, <2>7, <2>8, <2>10 DEF CycleInv, RingOf
<1> QED BY <1>1, <1>2

\* Taking a linked task out of the ring when its state becomes ZOMBIE.
LEMMA LeaveCycle ==
  ASSUME TypeOK, CycleInv, NEW t \in Slot
  PROVE  LET st == [state EXCEPT ![t] = "ZOMBIE"]
             r == dequeue_task(ring, t)
         IN  /\ t \in Linked(ring) => /\ ~dequeue_faults(ring, t) /\ r \in RingType
                                      /\ RingOf(r, st) /\ Linked(r) = Linked(ring) \ {t}
             /\ t \notin Linked(ring) => dequeue_faults(ring, t) /\ RingOf(ring, st)
             /\ IdleKept(st) /\ st \in [Slot -> States]
<1> DEFINE st == [state EXCEPT ![t] = "ZOMBIE"]
           r == dequeue_task(ring, t)
<1>0. /\ ring \in RingType /\ state \in [Slot -> States] /\ Idle \in Slot
      /\ ConsistentLinks(ring) /\ OneCycle(ring) /\ Linked(ring) = Members(state)
  BY SlotFacts DEF TypeOK, CycleInv, RingOf
<1>1. IdleKept(st) /\ st \in [Slot -> States]
  BY <1>0 DEF CycleInv, IdleKept, States
<1>2. Members(st) = Members(state) \ {t}
  BY <1>0 DEF Members, Alive
<1>3. ASSUME t \in Linked(ring)
      PROVE  /\ ~dequeue_faults(ring, t) /\ r \in RingType
             /\ RingOf(r, st) /\ Linked(r) = Linked(ring) \ {t}
  <2>1. PICK n, q : IsCycle(ring, n, q)
    BY <1>0 DEF OneCycle
  <2>2. PICK m \in 1 .. n : t = q[m]
    BY <1>3, <2>1 DEF IsCycle
  <2>3. ~dequeue_faults(ring, t) /\ OneCycle(r)
    BY <1>0, <2>1, <2>2, DequeueCycle DEF OneCycle
  <2>4. r \in RingType /\ ConsistentLinks(r) /\ Linked(r) = Linked(ring) \ {t}
    BY <1>0, <2>3, DequeueType, DequeueLinks
  <2> HIDE DEF st, r
  <2> QED BY <1>0, <1>2, <2>3, <2>4 DEF RingOf
<1>4. ASSUME t \notin Linked(ring)
      PROVE  dequeue_faults(ring, t) /\ RingOf(ring, st)
  <2>1. ring.next[t] = NULL
    BY <1>4 DEF Linked
  <2>2. dequeue_faults(ring, t)
    BY <2>1, SlotFacts DEF dequeue_faults
  <2> HIDE DEF st
  <2> QED BY <1>0, <1>2, <1>4, <2>2 DEF RingOf
<1> QED BY <1>1, <1>3, <1>4

\* With the idle task alive, schedule() never leaves a sleeping task on the CPU.
LEMMA ScheduleBacksUp ==
  ASSUME TypeOK, NEW r \in RingType, NEW st \in [Slot -> States], RingOf(r, st), IdleKept(st),
         \A t \in Slot : st[t] = "RUNNING" => t = current_task, st[Idle] \in Alive
  PROVE  /\ current_task # Idle => ~Nobody(r, st)
         /\ schedule(r, st) => state'[current_task'] # "SLEEPING"
<1>0. current_task \in Slot /\ Idle \in Slot /\ NULL \notin Slot
  BY SlotFacts DEF TypeOK
<1>1. ASSUME current_task # Idle PROVE ~Nobody(r, st)
  <2>1. st[Idle] = "READY"
    BY <1>0, <1>1 DEF Alive, IdleKept
  <2>2. Eligible(st, Idle)
    BY <1>0, <1>1, <2>1 DEF Eligible
  <2>3. Idle \in Linked(r)
    BY <1>0 DEF RingOf, Members
  <2> QED BY <2>2, <2>3, SearchFinds DEF RingOf
<1>2. ASSUME NEW t \in Slot, SwitchTo(r, st, t) PROVE state'[current_task'] # "SLEEPING"
  <2>1. t # current_task
    BY <1>2 DEF SwitchTo, Picks, Eligible
  <2> QED BY <1>0, <1>2, <2>1 DEF SwitchTo
<1>3. ASSUME Nobody(r, st), state' = st, UNCHANGED current_task
      PROVE  state'[current_task'] # "SLEEPING"
  BY <1>1, <1>3 DEF IdleKept
<1> QED BY <1>1, <1>2, <1>3 DEF schedule

\* Every operation keeps the cycle, and the idle task backs up the others.
LEMMA CycleStep ==
  ASSUME TypeOK, OneRunning, CycleInv, IdleBacksUp, [Next]_vars
  PROVE  CycleInv' /\ IdleBacksUp'
<1>0. /\ current_task \in Slot /\ Idle \in Slot /\ state \in [Slot -> States] /\ ring \in RingType
      /\ RingOf(ring, state) /\ IdleKept(state)
      /\ \A t \in Slot : state[t] = "RUNNING" => t = current_task
  BY SlotFacts DEF TypeOK, CycleInv, OneRunning
<1>1. ASSUME NEW prio \in Priorities, task_create(prio) PROVE CycleInv' /\ IdleBacksUp'
  <2>1. Up /\ current_task \in Linked(ring)
    BY <1>1 DEF task_create, Up, CycleInv
  <2>2. /\ CycleInv' /\ UNCHANGED <<current_task, halted>>
        /\ \A s \in Linked(ring) : state'[s] = state[s]
    BY <1>1, CreateCycle
  <2>3. Live(Idle)' => Live(Idle)
    <3>1. PICK t \in Slot : /\ alloc_task(t)
                            /\ state' \in {state, [state EXCEPT ![t] = "READY"]}
      BY <1>1 DEF task_create, Panic
    <3>2. t # Idle
      BY <1>0, <3>1 DEF alloc_task, FreeSlot, IdleKept
    <3> QED BY <1>0, <3>1, <3>2 DEF Live
  <2> QED BY <2>1, <2>2, <2>3 DEF IdleBacksUp
<1>2. ASSUME NEW r \in RingType, NEW st \in [Slot -> States], schedule(r, st),
             RingOf(r, st), IdleKept(st), pid' = pid,
             \A t \in Slot : st[t] = "RUNNING" => t = current_task,
             halted' => current_task # Idle /\ Nobody(r, st),
             ~halted' => current_task \in Linked(r) \/ ~Nobody(r, st)
      PROVE  CycleInv' /\ IdleBacksUp'
  <2>1. /\ RingOf(ring, state)' /\ IdleKept(state)' /\ Linked(ring') = Linked(r)
        /\ current_task' = current_task \/ current_task' \in Linked(r)
    BY <1>2, ScheduleCycle
  <2>2. ~Nobody(r, st) => current_task' \in Linked(r)
    <3>1. ASSUME NEW t \in Slot, SwitchTo(r, st, t) PROVE current_task' \in Linked(r)
      BY <1>2, <3>1, PickedOnRing DEF SwitchTo, RingOf
    <3> QED BY <1>2, <3>1 DEF schedule
  <2>3. CycleInv'
    BY <1>2, <2>1, <2>2 DEF CycleInv
  <2>4. ASSUME Live(Idle)' PROVE ~halted' /\ state'[current_task'] # "SLEEPING"
    <3>1. st[Idle] \in Alive
      <4>1. Idle \in Members(state)'
        BY <1>0, <2>4 DEF Live, Members, Alive
      <4>2. Idle \in Members(st)
        BY <1>2, <2>1, <4>1 DEF RingOf
      <4> QED BY <4>2 DEF Members
    <3> QED BY <1>2, <3>1, ScheduleBacksUp
  <2> QED BY <2>3, <2>4 DEF IdleBacksUp
<1>3. ASSUME NEW st \in [Slot -> States], schedule(ring, st), Up, UNCHANGED <<pid, halted>>,
             Members(st) = Members(state), st[Idle] \notin {"DEAD", "SLEEPING"},
             \A t \in Slot : st[t] = "RUNNING" => t = current_task
      PROVE  CycleInv' /\ IdleBacksUp'
  <2>1. RingOf(ring, st) /\ IdleKept(st)
    BY <1>0, <1>3 DEF RingOf, IdleKept
  <2>2. ~halted' /\ current_task \in Linked(ring)
    BY <1>3 DEF Up, CycleInv
  <2> QED BY <1>0, <1>2, <1>3, <2>1, <2>2
<1>4. CASE task_yield \/ idle_loop
  <2>1. schedule(ring, state) /\ Up /\ UNCHANGED <<pid, halted>>
    BY <1>4 DEF task_yield, Calls, idle_loop, task
  <2> QED BY <1>0, <1>3, <2>1 DEF IdleKept
<1>5. ASSUME NEW ticks \in SleepTicks, task_sleep(ticks) PROVE CycleInv' /\ IdleBacksUp'
  <2> DEFINE st == [state EXCEPT ![current_task] = "SLEEPING"]
  <2>1. schedule(ring, st) /\ Up /\ UNCHANGED <<pid, halted>> /\ current_task # Idle
    BY <1>5 DEF task_sleep, Calls
  <2>2. current_task \in Members(state)
    BY <2>1 DEF Up, CycleInv, RingOf
  <2>3. st \in [Slot -> States] /\ Members(st) = Members(state)
    BY <1>0, <2>2 DEF Members, Alive, States
  <2>4. /\ st[Idle] \notin {"DEAD", "SLEEPING"}
        /\ \A t \in Slot : st[t] = "RUNNING" => t = current_task
    BY <1>0, <2>1 DEF IdleKept
  <2> HIDE DEF st
  <2> QED BY <1>3, <2>1, <2>3, <2>4
<1>6. CASE task_exit
  <2> DEFINE st == [state EXCEPT ![current_task] = "ZOMBIE"]
             r == dequeue_task(ring, current_task)
  <2>1. Up /\ current_task # Idle /\ current_task \in Linked(ring)
    BY <1>6 DEF task_exit, Calls, Up, CycleInv
  <2>2. /\ ~dequeue_faults(ring, current_task) /\ r \in RingType /\ RingOf(r, st)
        /\ IdleKept(st) /\ st \in [Slot -> States]
    BY <1>0, <2>1, LeaveCycle
  <2>3. schedule(r, st) /\ halted' = Nobody(r, st) /\ pid' = pid
    BY <1>6, <2>2 DEF task_exit, task
  <2>4. \A t \in Slot : st[t] = "RUNNING" => t = current_task
    BY <1>0
  <2> HIDE DEF st, r
  <2> QED BY <1>2, <2>1, <2>2, <2>3, <2>4
<1>7. ASSUME NEW p \in 0 .. MaxPid \cup {IdlePid}, task_kill(p) PROVE CycleInv' /\ IdleBacksUp'
  <2>1. PICK t \in Slot \ {current_task} :
          /\ state' = [state EXCEPT ![t] = "ZOMBIE"]
          /\ fault' = dequeue_faults(ring, t)
          /\ ring' = IF fault' THEN ring ELSE dequeue_task(ring, t)
    BY <1>7 DEF task_kill
  <2>2. Up /\ pid' = pid /\ UNCHANGED <<current_task, halted>> /\ current_task \in Linked(ring)
    BY <1>7 DEF task_kill, Calls, task, Up, CycleInv
  <2>3. RingOf(ring, state)' /\ IdleKept(state)' /\ current_task \in Linked(ring')
    <3> DEFINE st == [state EXCEPT ![t] = "ZOMBIE"]
    <3>1. IdleKept(st) /\ RingOf(ring', st) /\ current_task \in Linked(ring')
      BY <2>1, <2>2, LeaveCycle
    <3>2. state' = st
      BY <2>1
    <3> HIDE DEF st
    <3> QED BY <2>2, <3>1, <3>2 DEF RingOf, IdleKept, Members
  <2>4. CycleInv'
    BY <2>2, <2>3 DEF CycleInv
  <2>5. Live(Idle)' => Live(Idle)
    BY <1>0, <2>1, <2>2 DEF Live
  <2>6. state'[current_task] = state[current_task]
    BY <1>0, <2>1
  <2> QED BY <1>0, <2>2, <2>4, <2>5, <2>6 DEF IdleBacksUp
<1>8. CASE sched_tick
  <2> DEFINE st == [t \in Slot |-> IF Woken(t) THEN "READY" ELSE state[t]]
  <2>1. /\ Up /\ UNCHANGED <<pid, halted>>
        /\ \/ schedule(ring, st)
           \/ state' = st /\ UNCHANGED <<ring, current_task>>
    BY <1>8 DEF sched_tick
  <2>2. /\ st \in [Slot -> States] /\ st[Idle] \notin {"DEAD", "SLEEPING"}
        /\ \A t \in Slot : st[t] = "RUNNING" => t = current_task
        /\ \A t \in Slot : st[t] = "SLEEPING" => state[t] = "SLEEPING"
        /\ \A t \in Slot : st[t] \in Alive <=> state[t] \in Alive
    BY <1>0 DEF IdleKept, Woken, Alive, States
  <2>3. Members(st) = Members(state)
    BY <2>2 DEF Members
  <2> HIDE DEF st
  <2>4. CASE schedule(ring, st)
    BY <1>3, <2>1, <2>2, <2>3, <2>4
  <2>5. CASE state' = st /\ UNCHANGED <<ring, current_task>>
    <3>1. CycleInv'
      BY <1>0, <2>1, <2>2, <2>3, <2>5 DEF CycleInv, RingOf, IdleKept, Members
    <3>2. Live(Idle)' => Live(Idle)
      BY <1>0, <2>1, <2>2, <2>5 DEF Live, Alive
    <3> QED BY <1>0, <2>1, <2>2, <2>5, <3>1, <3>2 DEF IdleBacksUp
  <2> QED BY <2>1, <2>4, <2>5
<1>9. CASE timer_exception \/ UNCHANGED vars
  BY <1>9 DEF timer_exception, Panic, vars, CycleInv, RingOf, IdleKept, Members, IdleBacksUp, Live
<1> QED
  BY <1>1, <1>4, <1>5, <1>6, <1>7, <1>8, <1>9 DEF Next

\* sched_init: the idle task alone is a cycle.
LEMMA CycleInit ==
  ASSUME Init, IdlePid # 0
  PROVE  CycleInv /\ IdleBacksUp
<1>0. Idle \in Slot /\ NULL \notin Slot
  BY SlotFacts
<1>1. ring \in RingType /\ ConsistentLinks(ring) /\ Linked(ring) = {Idle}
  BY InitRing
<1>2. ring.head = Idle /\ ring.next[Idle] = Idle
  BY <1>0 DEF Init, enqueue_task
<1>3. IsCycle(ring, 1, [i \in 1 .. 1 |-> Idle])
  BY <1>0, <1>1, <1>2 DEF IsCycle, Succ
<1>4. Members(state) = {Idle} /\ IdleKept(state)
  BY <1>0 DEF Init, Members, Alive, IdleKept
<1>5. current_task = Idle /\ ~halted /\ state[Idle] = "READY"
  BY <1>0 DEF Init
<1> QED BY <1>1, <1>3, <1>4, <1>5 DEF CycleInv, RingOf, OneCycle, IdleBacksUp

\* The inductive invariant of the ring of an idle task whose pid is not 0.
LEMMA CycleHolds ==
  ASSUME IdlePid # 0
  PROVE  Spec => [](TypeOK /\ CycleInv /\ IdleBacksUp)
<1>1. Init => CycleInv /\ IdleBacksUp
  BY CycleInit
<1>2. TypeOK /\ OneRunning /\ CycleInv /\ IdleBacksUp /\ [Next]_vars => CycleInv' /\ IdleBacksUp'
  BY CycleStep
<1> QED BY <1>1, <1>2, TypeAndOwner, PTL DEF Spec

\* In the states of a boot with pid 0, the idle task alone is a cycle.
LEMMA BootCycle ==
  ASSUME TypeOK, BootInv
  PROVE  /\ ~fault => RingOf(ring, state) /\ current_task \in Linked(ring)
         /\ IdleBacksUp
<1>0. Idle \in Slot /\ NULL \notin Slot
  BY SlotFacts
<1>1. ASSUME ~fault PROVE RingOf(ring, state) /\ current_task \in Linked(ring)
  <2>1. ring \in RingType /\ ConsistentLinks(ring) /\ Linked(ring) = {Idle}
    BY <1>1, BootRing
  <2>2. ring.head = Idle /\ ring.next[Idle] = Idle
    BY <1>0, <1>1 DEF BootInv
  <2>3. IsCycle(ring, 1, [i \in 1 .. 1 |-> Idle])
    BY <1>0, <2>1, <2>2 DEF IsCycle, Succ
  <2>4. Members(state) = {Idle} /\ current_task = Idle
    BY <1>0 DEF BootInv, Members, Alive
  <2> QED BY <2>1, <2>3, <2>4 DEF RingOf, OneCycle
<1>2. IdleBacksUp
  BY <1>0 DEF BootInv, IdleBacksUp
<1> QED BY <1>1, <1>2

(***************************************************************************)
(* As long as the kernel has not faulted, the ring is one cycle through    *)
(* the live tasks, the owner of the CPU among them: what schedule, a       *)
(* creation, an exit and a kill need of it, for every pid of the idle task.*)
(***************************************************************************)
THEOREM RingIsOneCycle ==
  Spec => [](~fault => /\ RingOf(ring, state)
                       /\ ~halted => current_task \in Linked(ring))
<1> DEFINE P == ~fault => /\ RingOf(ring, state)
                          /\ ~halted => current_task \in Linked(ring)
<1>1. CASE IdlePid # 0
  <2>1. TypeOK /\ CycleInv /\ IdleBacksUp => P
    BY DEF CycleInv
  <2>2. Spec => [](TypeOK /\ CycleInv /\ IdleBacksUp)
    BY <1>1, CycleHolds
  <2> HIDE DEF P
  <2>3. Spec => []P
    BY <2>1, <2>2, PTL
  <2> QED BY <2>3 DEF P
<1>2. CASE IdlePid = 0
  <2>1. TypeOK /\ BootInv => P
    BY BootCycle
  <2>2. Spec => [](TypeOK /\ BootInv)
    BY <1>2, BootHolds
  <2> HIDE DEF P
  <2>3. Spec => []P
    BY <2>1, <2>2, PTL
  <2> QED BY <2>3 DEF P
<1> QED BY <1>1, <1>2

(***************************************************************************)
(* No live task is ever lost from the ready ring and no dead one stays in  *)
(* it: from ready_head the kernel meets exactly the live tasks, whatever   *)
(* was created, killed, put to sleep or has exited.                        *)
(***************************************************************************)
THEOREM RingHoldsLiveTasksHolds == Spec => []RingHoldsLiveTasks
<1> DEFINE P == ~fault => /\ RingOf(ring, state)
                          /\ ~halted => current_task \in Linked(ring)
<1>1. ASSUME TypeOK, P PROVE RingHoldsLiveTasks
  <2> SUFFICES ASSUME ~fault
               PROVE  /\ Linked(ring) = {t \in Slot : Live(t)}
                      /\ Linked(ring) = {Walk(ring)[k] : k \in 0 .. MAX_TASKS} \ {NULL}
                      /\ ~halted => current_task \in Linked(ring)
    BY DEF RingHoldsLiveTasks
  <2>0. ring \in RingType /\ NULL \notin Slot /\ MAX_TASKS \in Nat
    BY <1>1, SlotFacts DEF TypeOK
  <2>1. Linked(ring) = {t \in Slot : Live(t)}
    BY <1>1 DEF RingOf, Members, Live, Alive
  <2>2. PICK n, q : IsCycle(ring, n, q)
    BY <1>1 DEF RingOf, OneCycle
  <2>3. n \in Nat /\ Linked(ring) = {q[i] : i \in 1 .. n}
    BY <2>2 DEF IsCycle
  <2>4. n <= MAX_TASKS
    BY <2>2, CycleSize
  <2>5. /\ \A k \in 0 .. (n - 1) : Walk(ring)[k] = q[k + 1]
        /\ \A k \in 0 .. MAX_TASKS : Walk(ring)[k] \in Linked(ring) \cup {NULL}
    BY <2>0, <2>2, WalkIsCycle
  <2>6. ASSUME NEW t \in Linked(ring)
        PROVE  t # NULL /\ \E k \in 0 .. MAX_TASKS : t = Walk(ring)[k]
    <3>1. PICK i \in 1 .. n : t = q[i]
      BY <2>3
    <3>2. i - 1 \in 0 .. (n - 1) /\ i - 1 \in 0 .. MAX_TASKS /\ (i - 1) + 1 = i
      BY <2>0, <2>3, <2>4
    <3> QED BY <2>0, <2>5, <3>1, <3>2 DEF Linked
  <2>7. Linked(ring) = {Walk(ring)[k] : k \in 0 .. MAX_TASKS} \ {NULL}
    BY <2>5, <2>6
  <2>8. ~halted => current_task \in Linked(ring)
    BY <1>1
  <2> QED BY <2>1, <2>7, <2>8
<1>2. TypeOK /\ OneRunning => TypeOK
  OBVIOUS
<1>3. Spec => []P
  BY RingIsOneCycle
<1> HIDE DEF P
<1> QED BY <1>1, <1>2, <1>3, TypeAndOwner, PTL

(***************************************************************************)
(* While the idle task lives, task_exit never halts the machine and        *)
(* task_sleep never returns to a task that sleeps.                         *)
(***************************************************************************)
THEOREM IdleBacksUpHolds == Spec => []IdleBacksUp
<1>1. CASE IdlePid # 0
  <2>1. TypeOK /\ CycleInv /\ IdleBacksUp => IdleBacksUp
    OBVIOUS
  <2>2. Spec => [](TypeOK /\ CycleInv /\ IdleBacksUp)
    BY <1>1, CycleHolds
  <2> QED BY <2>1, <2>2, PTL
<1>2. CASE IdlePid = 0
  <2>1. TypeOK /\ BootInv => IdleBacksUp
    BY BootCycle
  <2>2. Spec => [](TypeOK /\ BootInv)
    BY <1>2, BootHolds
  <2> QED BY <2>1, <2>2, PTL
<1> QED BY <1>1, <1>2

----------------------------------------------------------------------------
(* The round-robin queue *)

\* The queue that a ring stands for, and who in it may be dispatched.
QueueOf(r) == [i \in 1 .. Cardinality(Linked(r)) |-> Walk(r)[i - 1]]

ReadyOf(r, st, cur) == {t \in Linked(r) : st[t] = "READY"} \ {cur}

\* A function on 1 .. n is a sequence of length n.
LEMMA FunctionIsSeq ==
  ASSUME NEW n \in Nat, NEW q \in [1 .. n -> Slot]
  PROVE  q \in Seq(Slot) /\ Len(q) = n /\ DOMAIN q = 1 .. n
<1>1. q \in Seq(Slot)
  BY SeqDef
<1>2. Len(q) \in Nat /\ DOMAIN q = 1 .. Len(q)
  BY <1>1, LenProperties
<1>3. 1 .. Len(q) = 1 .. n
  BY <1>2
<1> QED BY <1>1, <1>2, <1>3

\* The queue of a cycle is the cycle.
LEMMA QueueOfCycle ==
  ASSUME NEW r \in RingType, NEW n, NEW q, IsCycle(r, n, q)
  PROVE  /\ QueueOf(r) = q /\ q \in Seq(Slot) /\ Len(q) = n /\ DOMAIN q = 1 .. n
         /\ n \in Nat /\ Linked(r) = {q[i] : i \in 1 .. n}
<1>1. n \in Nat /\ q \in [1 .. n -> Slot] /\ Linked(r) = {q[i] : i \in 1 .. n}
  BY DEF IsCycle
<1>2. Cardinality(Linked(r)) = n
  BY CycleSize
<1>3. \A k \in 0 .. (n - 1) : Walk(r)[k] = q[k + 1]
  BY WalkIsCycle
<1>4. \A i \in 1 .. n : Walk(r)[i - 1] = q[i]
  <2> SUFFICES ASSUME NEW i \in 1 .. n PROVE Walk(r)[i - 1] = q[i]
    OBVIOUS
  <2>1. i - 1 \in 0 .. (n - 1) /\ (i - 1) + 1 = i
    BY <1>1
  <2> QED BY <1>3, <2>1
<1>5. QueueOf(r) = q
  BY <1>1, <1>2, <1>4 DEF QueueOf
<1> QED BY <1>1, <1>5, FunctionIsSeq

\* Two parts of a sequence put together.
LEMMA PartsOfSeq ==
  ASSUME NEW n \in Nat, NEW q \in [1 .. n -> Slot],
         NEW a \in Nat, NEW b \in Nat, NEW c \in Nat, NEW d \in Nat,
         a >= 1, b <= n, a <= b + 1, c >= 1, d <= n, c <= d + 1
  PROVE  LET s == SubSeq(q, a, b) \o SubSeq(q, c, d)
             l == b - a + 1
         IN  /\ s \in Seq(Slot) /\ Len(s) = l + (d - c + 1)
             /\ \A i \in 1 .. Len(s) : s[i] = IF i <= l THEN q[a + i - 1] ELSE q[c + (i - l) - 1]
<1> DEFINE x == SubSeq(q, a, b)
           y == SubSeq(q, c, d)
           l == b - a + 1
           e == d - c + 1
<1>1. /\ x \in Seq(Slot) /\ Len(x) = l /\ \A i \in 1 .. l : x[i] = q[a + i - 1]
  <2>1. \A i \in a .. b : q[i] \in Slot
    OBVIOUS
  <2>2. /\ x \in Seq(Slot) /\ Len(x) = (IF a <= b THEN b - a + 1 ELSE 0)
        /\ \A i \in 1 .. b - a + 1 : x[i] = q[a + i - 1]
    BY <2>1, SubSeqProperties
  <2> HIDE DEF x
  <2> QED BY <2>2
<1>2. /\ y \in Seq(Slot) /\ Len(y) = e /\ \A i \in 1 .. e : y[i] = q[c + i - 1]
  <2>1. \A i \in c .. d : q[i] \in Slot
    OBVIOUS
  <2>2. /\ y \in Seq(Slot) /\ Len(y) = (IF c <= d THEN d - c + 1 ELSE 0)
        /\ \A i \in 1 .. d - c + 1 : y[i] = q[c + i - 1]
    BY <2>1, SubSeqProperties
  <2> HIDE DEF y
  <2> QED BY <2>2
<1> HIDE DEF x, y
<1>3. /\ x \o y \in Seq(Slot) /\ Len(x \o y) = l + e
      /\ \A i \in 1 .. (l + e) : (x \o y)[i] = IF i <= l THEN x[i] ELSE y[i - l]
  <2>1. /\ x \o y \in Seq(Slot) /\ Len(x \o y) = Len(x) + Len(y)
        /\ \A i \in 1 .. (Len(x) + Len(y)) : (x \o y)[i] = IF i <= Len(x) THEN x[i] ELSE y[i - Len(x)]
    BY <1>1, <1>2, ConcatProperties
  <2> QED BY <1>1, <1>2, <2>1, Zenon
<1>4. ASSUME NEW i \in 1 .. (l + e)
      PROVE  (x \o y)[i] = IF i <= l THEN q[a + i - 1] ELSE q[c + (i - l) - 1]
  <2>1. CASE i <= l
    BY <1>1, <1>3, <2>1
  <2>2. CASE ~(i <= l)
    <3>1. i - l \in 1 .. e
      BY <2>2
    <3>2. (x \o y)[i] = y[i - l]
      BY <1>3, <2>2
    <3> QED BY <1>2, <2>2, <3>1, <3>2
  <2> QED BY <2>1, <2>2
<1> QED BY <1>3, <1>4 DEF x, y

\* The cycle turned by m is the queue rotated past its m-th task.
LEMMA TurnedSeq ==
  ASSUME NEW n \in Nat, NEW q \in [1 .. n -> Slot], NEW m \in 1 .. n
  PROVE  [i \in 1 .. n |-> IF i <= n - m THEN q[i + m] ELSE q[i + m - n]]
            = SubSeq(q, m + 1, n) \o SubSeq(q, 1, m)
<1> DEFINE p == [i \in 1 .. n |-> IF i <= n - m THEN q[i + m] ELSE q[i + m - n]]
           s == SubSeq(q, m + 1, n) \o SubSeq(q, 1, m)
<1>1. /\ s \in Seq(Slot) /\ Len(s) = (n - (m + 1) + 1) + (m - 1 + 1)
      /\ \A i \in 1 .. Len(s) : s[i] = IF i <= n - (m + 1) + 1 THEN q[(m + 1) + i - 1]
                                       ELSE q[1 + (i - (n - (m + 1) + 1)) - 1]
  BY PartsOfSeq
<1> HIDE DEF s
<1>2. Len(s) = n
  BY <1>1
<1>3. s \in [1 .. n -> Slot]
  BY <1>1, <1>2, LenProperties
<1>4. ASSUME NEW i \in 1 .. n PROVE s[i] = p[i]
  <2>1. /\ (i <= n - (m + 1) + 1) = (i <= n - m) /\ (m + 1) + i - 1 = i + m
        /\ 1 + (i - (n - (m + 1) + 1)) - 1 = i + m - n
    OBVIOUS
  <2> QED BY <1>1, <1>2, <2>1
<1>5. p \in [1 .. n -> Slot]
  OBVIOUS
<1> HIDE DEF p
<1>6. p = s
  BY <1>3, <1>4, <1>5
<1> QED BY <1>6 DEF p, s

\* The cycle without its m-th task is the queue without it.
LEMMA ShortenedSeq ==
  ASSUME NEW n \in Nat, NEW q \in [1 .. n -> Slot], NEW m \in 1 .. n
  PROVE  [i \in 1 .. (n - 1) |-> IF i < m THEN q[i] ELSE q[i + 1]]
            = SubSeq(q, 1, m - 1) \o SubSeq(q, m + 1, n)
<1> DEFINE p == [i \in 1 .. (n - 1) |-> IF i < m THEN q[i] ELSE q[i + 1]]
           s == SubSeq(q, 1, m - 1) \o SubSeq(q, m + 1, n)
<1>1. /\ s \in Seq(Slot) /\ Len(s) = ((m - 1) - 1 + 1) + (n - (m + 1) + 1)
      /\ \A i \in 1 .. Len(s) : s[i] = IF i <= (m - 1) - 1 + 1 THEN q[1 + i - 1]
                                       ELSE q[(m + 1) + (i - ((m - 1) - 1 + 1)) - 1]
  <2>1. /\ 1 \in Nat /\ m - 1 \in Nat /\ m + 1 \in Nat /\ m - 1 <= n /\ 1 <= (m - 1) + 1
        /\ m + 1 >= 1 /\ m + 1 <= n + 1
    OBVIOUS
  <2> QED BY <2>1, PartsOfSeq
<1> HIDE DEF s
<1>2. Len(s) = n - 1
  BY <1>1
<1>3. s \in [1 .. (n - 1) -> Slot]
  BY <1>1, <1>2, LenProperties
<1>4. ASSUME NEW i \in 1 .. (n - 1) PROVE s[i] = p[i]
  <2>1. /\ (i <= (m - 1) - 1 + 1) = (i < m) /\ 1 + i - 1 = i
        /\ (m + 1) + (i - ((m - 1) - 1 + 1)) - 1 = i + 1
    OBVIOUS
  <2> QED BY <1>1, <1>2, <2>1
<1>5. p \in [1 .. (n - 1) -> Slot]
  OBVIOUS
<1> HIDE DEF p
<1>6. p = s
  BY <1>3, <1>4, <1>5
<1> QED BY <1>6 DEF p, s

\* The cycle with one more task is the queue with that task at its back.
LEMMA LongerSeq ==
  ASSUME NEW n \in Nat, NEW q \in [1 .. n -> Slot], NEW t \in Slot
  PROVE  [i \in 1 .. (n + 1) |-> IF i <= n THEN q[i] ELSE t] = Append(q, t)
<1>1. q \in Seq(Slot) /\ Len(q) = n
  BY FunctionIsSeq
<1>2. /\ Append(q, t) \in Seq(Slot) /\ Len(Append(q, t)) = n + 1
      /\ \A i \in 1 .. n : Append(q, t)[i] = q[i]
      /\ Append(q, t)[n + 1] = t
  BY <1>1, AppendProperties
<1>3. Append(q, t) \in [1 .. (n + 1) -> Slot]
  BY <1>2, LenProperties
<1> DEFINE p == [i \in 1 .. (n + 1) |-> IF i <= n THEN q[i] ELSE t]
<1>4. p \in [1 .. (n + 1) -> Slot] /\ p[n + 1] = t /\ \A i \in 1 .. n : p[i] = q[i]
  OBVIOUS
<1> HIDE DEF p
<1>5. \A i \in 1 .. (n + 1) : p[i] = Append(q, t)[i]
  BY <1>2, <1>4
<1>6. p = Append(q, t)
  BY <1>3, <1>4, <1>5
<1> QED BY <1>6 DEF p

\* q2 is q rotated past its first task in rdy, which is c.
Rotates(q, rdy, c, q2) ==
  \E i \in DOMAIN q :
    /\ q[i] \in rdy
    /\ \A j \in 1 .. (i - 1) : q[j] \notin rdy
    /\ c = q[i]
    /\ q2 = SubSeq(q, i + 1, Len(q)) \o SubSeq(q, 1, i)

\* What SwitchTo does is a dispatch from the queue of the ring r.
LEMMA SwitchIsDispatch ==
  ASSUME NEW r \in RingType, OneCycle(r), NEW st, NEW t \in Slot, NEW rdy,
         Picks(r, st, t), ring' = [r EXCEPT !.head = r.next[t]], current_task' = t,
         \A s \in Linked(r) : s \in rdy <=> st[s] = "READY" /\ s # current_task
  PROVE  Rotates(QueueOf(r), rdy, current_task', QueueOf(ring'))
<1>1. PICK n, q : IsCycle(r, n, q)
  BY DEF OneCycle
<1>2. /\ n \in Nat /\ q \in [1 .. n -> Slot] /\ Linked(r) = {q[i] : i \in 1 .. n}
      /\ \A i, j \in 1 .. n : q[i] = q[j] => i = j
  BY <1>1 DEF IsCycle
<1>3. QueueOf(r) = q /\ Len(q) = n /\ DOMAIN q = 1 .. n
  BY <1>1, QueueOfCycle
<1>4. Picks(r, st, t) /\ ring' = [r EXCEPT !.head = r.next[t]] /\ current_task' = t
  OBVIOUS
<1>5. t \in Linked(r) /\ t \in rdy
  BY <1>4, PickedOnRing
<1>6. PICK m \in 1 .. n : t = q[m]
  BY <1>2, <1>5
<1>7. /\ \A k \in 0 .. (n - 1) : Walk(r)[k] = q[k + 1]
      /\ \A s \in Linked(r) : s # NULL
  BY <1>1, WalkIsCycle, SlotFacts DEF Linked
<1>8. ASSUME NEW j \in 1 .. (m - 1) PROVE q[j] \notin rdy
  <2>1. PICK k \in 0 .. (MAX_TASKS - 1) :
          /\ Walk(r)[k] = t
          /\ \A i \in 0 .. (k - 1) : ~Eligible(st, Walk(r)[i])
    BY <1>4 DEF Picks
  <2>2. m - 1 \in 0 .. (n - 1) /\ j - 1 \in 0 .. (n - 1) /\ j \in 1 .. n
    BY <1>2
  <2>3. Walk(r)[m - 1] = t /\ Walk(r)[j - 1] = q[j]
    <3>1. (m - 1) + 1 = m /\ (j - 1) + 1 = j
      BY <1>2
    <3> QED BY <1>6, <1>7, <2>2, <3>1
  <2>4. k >= m - 1
    <3>1. SUFFICES ASSUME k < m - 1 PROVE FALSE
      BY <1>2
    <3>2. k \in 0 .. (n - 1) /\ k + 1 \in 1 .. n /\ k + 1 # m
      BY <1>2, <3>1
    <3>3. q[k + 1] = q[m]
      BY <1>6, <1>7, <2>1, <3>2
    <3> QED BY <1>2, <3>2, <3>3
  <2>5. j - 1 \in 0 .. (k - 1)
    BY <1>2, <2>4
  <2>6. ~Eligible(st, q[j])
    BY <2>1, <2>3, <2>5
  <2>7. q[j] \in Linked(r) /\ q[j] # NULL
    BY <1>2, <1>7, <2>2
  <2> QED BY <2>6, <2>7 DEF Eligible
<1>9. QueueOf(ring') = SubSeq(q, m + 1, Len(q)) \o SubSeq(q, 1, m)
  <2> DEFINE p == [i \in 1 .. n |-> IF i <= n - m THEN q[i + m] ELSE q[i + m - n]]
  <2>1. IsCycle(ring', n, p)
    BY <1>1, <1>4, <1>6, TurnCycle
  <2>2. ring' \in RingType
    BY <1>4 DEF RingType
  <2>3. QueueOf(ring') = p
    BY <2>1, <2>2, QueueOfCycle
  <2>4. p = SubSeq(q, m + 1, n) \o SubSeq(q, 1, m)
    BY <1>2, TurnedSeq
  <2> HIDE DEF p
  <2> QED BY <1>3, <2>3, <2>4
<1> QED BY <1>3, <1>4, <1>5, <1>6, <1>8, <1>9 DEF Rotates

\* The queue holds the tasks on the ring, each once.
LEMMA QueueRange ==
  ASSUME NEW r \in RingType, OneCycle(r)
  PROVE  /\ QueueOf(r) \in Seq(Slot) /\ DOMAIN QueueOf(r) = 1 .. Len(QueueOf(r))
         /\ RR!Range(QueueOf(r)) = Linked(r)
         /\ \A t \in Linked(r) : \E i \in DOMAIN QueueOf(r) : QueueOf(r)[i] = t
<1>1. PICK n, q : IsCycle(r, n, q)
  BY DEF OneCycle
<1>2. /\ QueueOf(r) = q /\ q \in Seq(Slot) /\ Len(q) = n /\ DOMAIN q = 1 .. n
      /\ Linked(r) = {q[i] : i \in 1 .. n}
  BY <1>1, QueueOfCycle
<1> QED BY <1>2 DEF RR!Range

\* A task that leaves the ring leaves the queue.
LEMMA LeaveIsRemoveAt ==
  ASSUME NEW r \in RingType, ConsistentLinks(r), OneCycle(r), NEW t \in Linked(r)
  PROVE  \E i \in DOMAIN QueueOf(r) :
            QueueOf(r)[i] = t /\ QueueOf(dequeue_task(r, t)) = RR!RemoveAt(QueueOf(r), i)
<1>1. PICK n, q : IsCycle(r, n, q)
  BY DEF OneCycle
<1>2. /\ QueueOf(r) = q /\ Len(q) = n /\ DOMAIN q = 1 .. n /\ n \in Nat
      /\ Linked(r) = {q[i] : i \in 1 .. n} /\ q \in [1 .. n -> Slot]
  BY <1>1, QueueOfCycle DEF IsCycle
<1>3. PICK m \in 1 .. n : q[m] = t
  BY <1>2
<1> DEFINE p == [i \in 1 .. (n - 1) |-> IF i < m THEN q[i] ELSE q[i + 1]]
<1>4. IsCycle(dequeue_task(r, t), n - 1, p) /\ ~dequeue_faults(r, t)
  BY <1>1, <1>3, DequeueCycle
<1>5. dequeue_task(r, t) \in RingType
  BY <1>4, DequeueType DEF Linked
<1>6. QueueOf(dequeue_task(r, t)) = p
  BY <1>4, <1>5, QueueOfCycle
<1>7. p = SubSeq(q, 1, m - 1) \o SubSeq(q, m + 1, n)
  BY <1>2, ShortenedSeq
<1> HIDE DEF p
<1> QED BY <1>2, <1>3, <1>6, <1>7 DEF RR!RemoveAt

\* A task that enters the ring enters the queue at its back.
LEMMA EnterIsAppend ==
  ASSUME NEW r \in RingType, ConsistentLinks(r), OneCycle(r), NEW t \in Slot, t \notin Linked(r)
  PROVE  QueueOf(enqueue_task(r, t)) = Append(QueueOf(r), t)
<1>1. PICK n, q : IsCycle(r, n, q)
  BY DEF OneCycle
<1>2. /\ QueueOf(r) = q /\ n \in Nat /\ q \in [1 .. n -> Slot]
  BY <1>1, QueueOfCycle DEF IsCycle
<1> DEFINE p == [i \in 1 .. (n + 1) |-> IF i <= n THEN q[i] ELSE t]
<1>3. IsCycle(enqueue_task(r, t), n + 1, p)
  BY <1>1, EnqueueCycle
<1>4. enqueue_task(r, t) \in RingType
  BY EnqueueLinks, EnqueueType
<1>5. QueueOf(enqueue_task(r, t)) = p
  BY <1>3, <1>4, QueueOfCycle
<1>6. p = Append(q, t)
  BY <1>2, LongerSeq
<1> QED BY <1>2, <1>5, <1>6

\* What the refinement mapping gives the queue's variables.
RRStutter == UNCHANGED <<QueueOf(ring), ReadyOf(ring, state, current_task), current_task>>

(***************************************************************************)
(* schedule() on the unchanged ring, after some sleepers were woken or the *)
(* caller was put to sleep, wakes them in the queue too and dispatches.    *)
(***************************************************************************)
LEMMA ScheduleIsSwitch ==
  ASSUME TypeOK, CycleInv, current_task \in Linked(ring), NEW st \in [Slot -> States],
         \A t \in Slot : t # current_task /\ state[t] = "READY" => st[t] = "READY",
         \/ schedule(ring, st)
         \/ state' = st /\ UNCHANGED <<ring, current_task>>
  PROVE  RR!RRNext
<1> DEFINE W == ReadyOf(ring, st, current_task)
<1>0. ring \in RingType /\ current_task \in Slot /\ OneCycle(ring) /\ Linked(ring) \subseteq Slot
  BY DEF TypeOK, CycleInv, RingOf, Linked
<1>1. W \in SUBSET (RR!Range(QueueOf(ring)) \ {current_task})
  BY <1>0, QueueRange DEF ReadyOf
<1>2. ReadyOf(ring, state, current_task) \cup W = W
  BY <1>0 DEF ReadyOf
<1> DEFINE R == ReadyOf(ring, state, current_task)
           Q == QueueOf(ring)
<1>3. ASSUME state' = st, UNCHANGED <<ring, current_task>>
      PROVE  R' = R \cup W /\ UNCHANGED <<Q, current_task>>
  BY <1>2, <1>3 DEF ReadyOf
<1>4. ASSUME NEW t \in Slot, SwitchTo(ring, st, t)
      PROVE  /\ \E i \in DOMAIN Q :
                  /\ Q[i] \in R \cup W
                  /\ \A j \in 1 .. (i - 1) : Q[j] \notin R \cup W
                  /\ current_task' = Q[i]
                  /\ Q' = SubSeq(Q, i + 1, Len(Q)) \o SubSeq(Q, 1, i)
             /\ \/ R' = (R \cup W) \ {current_task'}
                \/ R' = ((R \cup W) \ {current_task'}) \cup {current_task}
  <2>1. \A s \in Linked(ring) : s \in R \cup W <=> st[s] = "READY" /\ s # current_task
    BY <1>2 DEF ReadyOf
  <2>2. t # current_task /\ t \in W
    BY <1>0, <1>4, PickedOnRing DEF SwitchTo, ReadyOf
  <2>3. /\ current_task' = t
        /\ state' = [st EXCEPT ![t] = "RUNNING",
                         ![current_task] = IF @ = "RUNNING" THEN "READY" ELSE @]
        /\ ring'.next = ring.next
    BY <1>0, <1>4 DEF SwitchTo, RingType
  <2>4. Linked(ring') = Linked(ring)
    BY <2>3 DEF Linked
  <2>5. \/ R' = W \ {t}
        \/ R' = (W \ {t}) \cup {current_task}
    BY <1>0, <2>2, <2>3, <2>4 DEF ReadyOf
  <2> HIDE DEF W, R, Q
  <2>6. \E i \in DOMAIN Q :
                  /\ Q[i] \in R \cup W
                  /\ \A j \in 1 .. (i - 1) : Q[j] \notin R \cup W
                  /\ current_task' = Q[i]
                  /\ Q' = SubSeq(Q, i + 1, Len(Q)) \o SubSeq(Q, 1, i)
    <3> DEFINE V == R \cup W
    <3>1. \A s \in Linked(ring) : s \in V <=> st[s] = "READY" /\ s # current_task
      BY <2>1
    <3> HIDE DEF V
    <3>3. Picks(ring, st, t) /\ ring' = [ring EXCEPT !.head = ring.next[t]] /\ current_task' = t
      BY <1>4 DEF SwitchTo
    <3>2. Rotates(QueueOf(ring), V, current_task', QueueOf(ring'))
      BY <1>0, <3>3, <3>1, SwitchIsDispatch
    <3> QED BY <3>2 DEF V, Q, Rotates
  <2> QED BY <1>2, <2>3, <2>5, <2>6 DEF R
<1> HIDE DEF W, R, Q
<1>5. \/ R' = R \cup W /\ UNCHANGED <<Q, current_task>>
      \/ /\ \E i \in DOMAIN Q :
                  /\ Q[i] \in R \cup W
                  /\ \A j \in 1 .. (i - 1) : Q[j] \notin R \cup W
                  /\ current_task' = Q[i]
                  /\ Q' = SubSeq(Q, i + 1, Len(Q)) \o SubSeq(Q, 1, i)
         /\ \/ R' = (R \cup W) \ {current_task'}
            \/ R' = ((R \cup W) \ {current_task'}) \cup {current_task}
  BY <1>3, <1>4 DEF schedule
<1>6. W \in SUBSET (RR!Range(Q) \ {current_task})
  BY <1>1 DEF Q
<1> QED
  BY <1>5, <1>6 DEF RR!RRNext, RR!Wake, RR!Switch, RR!Dispatch, Q, R, QueueOf, ReadyOf

\* task_create enters the new task at the back of the queue, or panics.
LEMMA CreateIsArrive ==
  ASSUME TypeOK, CycleInv, NEW prio \in Priorities, task_create(prio)
  PROVE  RR!RRNext \/ RRStutter
<1> DEFINE R == ReadyOf(ring, state, current_task)
           Q == QueueOf(ring)
<1>0. /\ ring \in RingType /\ OneCycle(ring) /\ ConsistentLinks(ring) /\ Linked(ring) \subseteq Slot
      /\ current_task \in Linked(ring) /\ state \in [Slot -> States]
  BY DEF TypeOK, CycleInv, RingOf, Linked, task_create, Up
<1>1. /\ UNCHANGED ring \/ \E t \in Slot \ Linked(ring) : ring' = enqueue_task(ring, t)
                                                     /\ state' = [state EXCEPT ![t] = "READY"]
      /\ \A s \in Linked(ring) : state'[s] = state[s]
      /\ current_task' = current_task
  BY CreateCycle
<1>2. CASE ring' = ring
  BY <1>1, <1>2 DEF RRStutter, ReadyOf
<1>3. ASSUME NEW t \in Slot \ Linked(ring), ring' = enqueue_task(ring, t),
             state' = [state EXCEPT ![t] = "READY"]
      PROVE  RR!RRNext
  <2>1. QueueOf(ring') = Append(QueueOf(ring), t)
    BY <1>0, <1>3, EnterIsAppend
  <2>2. t \in Slot \ RR!Range(QueueOf(ring))
    BY <1>0, <1>3, QueueRange
  <2>3. Linked(ring') = Linked(ring) \cup {t}
    BY <1>0, <1>3, EnqueueLinks
  <2>4. R' = R \cup {t}
    BY <1>0, <1>1, <1>3, <2>3 DEF ReadyOf
  <2>5. Q' = Append(Q, t) /\ t \in Slot \ RR!Range(Q)
    BY <2>1, <2>2
  <2> HIDE DEF Q, R
  <2> QED BY <1>1, <2>4, <2>5 DEF RR!RRNext, RR!Arrive, Q, R, QueueOf, ReadyOf
<1> QED BY <1>1, <1>2, <1>3

\* task_kill takes its task out of the queue, or changes nothing in it.
LEMMA KillIsEvict ==
  ASSUME TypeOK, CycleInv, NEW p, task_kill(p)
  PROVE  RR!RRNext \/ RRStutter
<1> DEFINE R == ReadyOf(ring, state, current_task)
           Q == QueueOf(ring)
<1>0. /\ ring \in RingType /\ OneCycle(ring) /\ ConsistentLinks(ring) /\ Linked(ring) \subseteq Slot
      /\ state \in [Slot -> States]
  BY DEF TypeOK, CycleInv, RingOf, Linked
<1>1. PICK t \in Slot \ {current_task} :
        /\ state' = [state EXCEPT ![t] = "ZOMBIE"]
        /\ fault' = dequeue_faults(ring, t)
        /\ ring' = IF fault' THEN ring ELSE dequeue_task(ring, t)
  BY DEF task_kill
<1>2. current_task' = current_task /\ \A s \in Slot \ {t} : state'[s] = state[s]
  BY <1>0, <1>1 DEF task_kill
<1>3. CASE t \notin Linked(ring)
  <2>1. ring' = ring
    BY <1>1, <1>3, LeaveCycle
  <2>2. R' = R
    BY <1>0, <1>2, <1>3, <2>1 DEF ReadyOf
  <2> QED BY <1>2, <2>1, <2>2 DEF RRStutter
<1>4. CASE t \in Linked(ring)
  <2>1. ring' = dequeue_task(ring, t) /\ Linked(ring') = Linked(ring) \ {t}
    BY <1>1, <1>4, LeaveCycle
  <2>2. PICK i \in DOMAIN QueueOf(ring) :
          QueueOf(ring)[i] = t /\ QueueOf(ring') = RR!RemoveAt(QueueOf(ring), i)
    BY <1>0, <1>4, <2>1, LeaveIsRemoveAt
  <2>3. R' = R \ {t}
    BY <1>0, <1>2, <2>1 DEF ReadyOf
  <2>4. i \in DOMAIN Q /\ Q[i] = t /\ Q' = RR!RemoveAt(Q, i) /\ Q[i] # current_task
    BY <2>2
  <2> HIDE DEF Q, R
  <2>5. \E k \in DOMAIN Q : /\ Q[k] # current_task /\ Q' = RR!RemoveAt(Q, k)
                            /\ R' = R \ {Q[k]} /\ current_task' = current_task
    BY <1>2, <2>3, <2>4
  <2> QED BY <2>5 DEF RR!RRNext, RR!Evict, Q, R, QueueOf, ReadyOf
<1> QED BY <1>3, <1>4

\* task_exit takes the caller out of the queue and dispatches the next task.
LEMMA ExitIsDepart ==
  ASSUME TypeOK, CycleInv, task_exit
  PROVE  RR!RRNext
<1> DEFINE R == ReadyOf(ring, state, current_task)
           Q == QueueOf(ring)
           st == [state EXCEPT ![current_task] = "ZOMBIE"]
           r == dequeue_task(ring, current_task)
<1>0. /\ ring \in RingType /\ OneCycle(ring) /\ ConsistentLinks(ring) /\ Linked(ring) \subseteq Slot
      /\ current_task \in Linked(ring) /\ state \in [Slot -> States] /\ NULL \notin Slot
  BY SlotFacts DEF TypeOK, CycleInv, RingOf, Linked, task_exit, Calls, Up
<1>1. /\ ~dequeue_faults(ring, current_task) /\ r \in RingType /\ OneCycle(r)
      /\ Linked(r) = Linked(ring) \ {current_task} /\ st \in [Slot -> States]
  BY <1>0, LeaveCycle DEF RingOf
<1>2. schedule(r, st)
  BY <1>1 DEF task_exit
<1>3. PICK i \in DOMAIN QueueOf(ring) :
        QueueOf(ring)[i] = current_task /\ QueueOf(r) = RR!RemoveAt(QueueOf(ring), i)
  BY <1>0, LeaveIsRemoveAt
<1>4. /\ \A s \in Linked(r) : s \in R <=> st[s] = "READY" /\ s # current_task
      /\ R \subseteq Linked(r) /\ \A s \in R : Eligible(st, s) /\ s \in Linked(r)
      /\ R = ReadyOf(r, st, current_task)
  BY <1>0, <1>1 DEF ReadyOf, Eligible
<1>5. st[current_task] = "ZOMBIE"
  BY <1>0
<1> HIDE DEF st, r, R, Q
<1>6. ASSUME NEW t \in Slot, SwitchTo(r, st, t)
      PROVE  Rotates(QueueOf(r), R, current_task', QueueOf(ring')) /\ R' = R \ {current_task'}
  <2>1. /\ Picks(r, st, t) /\ ring' = [r EXCEPT !.head = r.next[t]] /\ current_task' = t
        /\ state' = [st EXCEPT ![t] = "RUNNING",
                         ![current_task] = IF @ = "RUNNING" THEN "READY" ELSE @]
    BY <1>6 DEF SwitchTo
  <2>2. Rotates(QueueOf(r), R, current_task', QueueOf(ring'))
    BY <1>1, <1>4, <2>1, SwitchIsDispatch
  <2>3. Linked(ring') = Linked(r)
    BY <1>1, <2>1 DEF Linked, RingType
  <2>4. t # current_task /\ \A s \in Slot \ {t} : s # current_task => state'[s] = st[s]
    BY <1>1, <2>1, PickedOnRing
  <2>5. R' = {s \in Linked(r) : state'[s] = "READY"} \ {t}
    BY <2>1, <2>3 DEF R, ReadyOf
  <2>6. \A s \in Linked(r) : s \in Slot /\ s # current_task
    BY <1>0, <1>1
  <2> QED BY <1>4, <2>1, <2>2, <2>4, <2>5, <2>6
<1>7. ASSUME Nobody(r, st), ring' = r, state' = st, UNCHANGED current_task
      PROVE  R = {} /\ QueueOf(ring') = QueueOf(r) /\ R' = R /\ current_task' = current_task
  <2>1. R = {}
    BY <1>1, <1>4, <1>7, SearchFinds
  <2>2. R' = ReadyOf(r, st, current_task)
    BY <1>7 DEF R, ReadyOf
  <2> QED BY <1>4, <1>7, <2>1, <2>2
<1> DEFINE q == RR!RemoveAt(Q, i)
<1>8. i \in DOMAIN Q /\ Q[i] = current_task /\ QueueOf(r) = q /\ QueueOf(ring') = Q'
  BY <1>3 DEF Q
<1> HIDE DEF q
<1>9. \/ Rotates(q, R, current_task', Q') /\ R' = R \ {current_task'}
      \/ R = {} /\ Q' = q /\ UNCHANGED <<R, current_task>>
  BY <1>2, <1>6, <1>7, <1>8 DEF schedule
<1>10. \/ /\ \E k \in DOMAIN q : /\ q[k] \in R
                                 /\ \A j \in 1 .. (k - 1) : q[j] \notin R
                                 /\ current_task' = q[k]
                                 /\ Q' = SubSeq(q, k + 1, Len(q)) \o SubSeq(q, 1, k)
          /\ R' = R \ {current_task'}
       \/ R = {} /\ Q' = q /\ UNCHANGED <<R, current_task>>
  BY <1>9 DEF Rotates
<1> QED
  BY <1>8, <1>10 DEF RR!RRNext, RR!Depart, RR!Dispatch, q, Q, R, QueueOf, ReadyOf

\* Every step of the kernel is a step of the round-robin queue, or leaves it alone.
LEMMA StepIsRoundRobin ==
  ASSUME TypeOK, CycleInv, [Next]_vars
  PROVE  [RR!RRNext]_(RR!rrVars)
<1>9. SUFFICES RR!RRNext \/ RRStutter
  BY DEF RRStutter, RR!rrVars, QueueOf, ReadyOf
<1>0. /\ current_task \in Slot /\ state \in [Slot -> States]
      /\ Up => current_task \in Linked(ring)
  BY DEF TypeOK, CycleInv, Up
<1>1. ASSUME NEW prio \in Priorities, task_create(prio) PROVE RR!RRNext \/ RRStutter
  BY <1>1, CreateIsArrive
<1>2. CASE task_yield \/ idle_loop
  <2>1. schedule(ring, state) /\ Up
    BY <1>2 DEF task_yield, Calls, idle_loop
  <2> QED BY <1>0, <2>1, ScheduleIsSwitch
<1>3. ASSUME NEW ticks \in SleepTicks, task_sleep(ticks) PROVE RR!RRNext
  <2> DEFINE st == [state EXCEPT ![current_task] = "SLEEPING"]
  <2>1. schedule(ring, st) /\ Up
    BY <1>3 DEF task_sleep, Calls
  <2>2. st \in [Slot -> States] /\ \A t \in Slot : t # current_task /\ state[t] = "READY" => st[t] = "READY"
    BY <1>0 DEF States
  <2> HIDE DEF st
  <2> QED BY <1>0, <2>1, <2>2, ScheduleIsSwitch
<1>4. ASSUME NEW p \in 0 .. MaxPid \cup {IdlePid}, task_kill(p) PROVE RR!RRNext \/ RRStutter
  BY <1>4, KillIsEvict
<1>5. CASE sched_tick
  <2> DEFINE st == [t \in Slot |-> IF Woken(t) THEN "READY" ELSE state[t]]
  <2>1. /\ Up
        /\ schedule(ring, st) \/ (state' = st /\ UNCHANGED <<ring, current_task>>)
    BY <1>5 DEF sched_tick
  <2>2. st \in [Slot -> States] /\ \A t \in Slot : t # current_task /\ state[t] = "READY" => st[t] = "READY"
    BY <1>0 DEF States
  <2> HIDE DEF st
  <2> QED BY <1>0, <2>1, <2>2, ScheduleIsSwitch
<1>6. CASE timer_exception \/ UNCHANGED vars
  <2>1. ring' = ring /\ state' = state /\ current_task' = current_task
    BY <1>6 DEF timer_exception, Panic, vars
  <2> QED BY <2>1 DEF RRStutter
<1>7. CASE task_exit
  BY <1>7, ExitIsDepart
<1> QED BY <1>1, <1>2, <1>3, <1>4, <1>5, <1>6, <1>7 DEF Next

\* sched_init: the queue holds the idle task, which is running.
LEMMA InitIsRoundRobin ==
  ASSUME Init
  PROVE  RR!RRInit
<1>0. Idle \in Slot /\ NULL \notin Slot
  BY SlotFacts
<1>1. ring \in RingType /\ ConsistentLinks(ring) /\ Linked(ring) = {Idle}
  BY InitRing
<1>2. ring.head = Idle /\ ring.next[Idle] = Idle
  BY <1>0 DEF Init, enqueue_task
<1> DEFINE q == [i \in 1 .. 1 |-> Idle]
           Q == QueueOf(ring)
           R == ReadyOf(ring, state, current_task)
<1>3. IsCycle(ring, 1, q)
  BY <1>0, <1>1, <1>2 DEF IsCycle, Succ
<1>4. QueueOf(ring) = q
  BY <1>1, <1>3, QueueOfCycle
<1>5. q = <<Idle>>
  OBVIOUS
<1>6. current_task = Idle /\ R = {} /\ Q = <<Idle>>
  BY <1>1, <1>4, <1>5 DEF Init, ReadyOf
<1> HIDE DEF Q, R
<1> QED BY <1>0, <1>6 DEF RR!RRInit, Q, R, QueueOf, ReadyOf

\* The queue of the idle task alone, and the empty one.
LEMMA BootQueue ==
  ASSUME TypeOK, BootInv, ~fault
  PROVE  QueueOf(ring) = <<Idle>> /\ QueueOf(Unlinked(Idle)) = << >>
<1>0. Idle \in Slot /\ NULL \notin Slot
  BY SlotFacts
<1>1. ring \in RingType /\ Linked(ring) = {Idle}
  BY BootRing
<1>2. ring.head = Idle /\ ring.next[Idle] = Idle
  BY <1>0 DEF BootInv
<1> DEFINE q == [i \in 1 .. 1 |-> Idle]
<1>3. IsCycle(ring, 1, q)
  BY <1>0, <1>1, <1>2 DEF IsCycle, Succ
<1>4. QueueOf(ring) = q
  BY <1>1, <1>3, QueueOfCycle
<1>5. q = <<Idle>>
  OBVIOUS
<1>6. Linked(Unlinked(Idle)) = {}
  <2>1. \A t \in Slot : Unlinked(Idle).next[t] = NULL
    BY <1>0, <1>1 DEF BootInv, Unlinked, RingType
  <2> QED BY <2>1 DEF Linked
<1>7. Cardinality(Linked(Unlinked(Idle))) = 0
  BY <1>6, FS_EmptySet
<1>8. QueueOf(Unlinked(Idle)) = << >>
  BY <1>7 DEF QueueOf
<1> QED BY <1>4, <1>5, <1>8

\* The creation that breaks the idle task's links takes it out of the queue.
LEMMA BootIsDepart ==
  ASSUME TypeOK, BootInv, NEW prio \in Priorities, task_create(prio)
  PROVE  RR!RRNext \/ RRStutter
<1> DEFINE R == ReadyOf(ring, state, current_task)
           Q == QueueOf(ring)
<1>0. Idle \in Slot /\ ~fault /\ current_task = Idle
  BY SlotFacts DEF task_create, Up, BootInv
<1>1. UNCHANGED <<state, current_task>> /\ (ring' = ring \/ ring' = Unlinked(Idle))
  BY BootCreate
<1>2. CASE ring' = ring
  BY <1>1, <1>2 DEF RRStutter
<1>3. CASE ring' = Unlinked(Idle)
  <2>1. Q = <<Idle>> /\ Q' = << >>
    BY <1>0, <1>3, BootQueue
  <2>2. R = {}
    BY <1>0, BootRing DEF ReadyOf
  <2>3. R' = {}
    <3>1. \A t \in Slot : state'[t] = "READY" => t = current_task'
      BY <1>0, <1>1 DEF BootInv
    <3> QED BY <3>1 DEF ReadyOf, Linked
  <2>4. RR!RemoveAt(<<Idle>>, 1) = << >>
    BY DEF RR!RemoveAt
  <2> HIDE DEF Q, R
  <2>5. \E i \in DOMAIN Q : /\ Q[i] = current_task
                            /\ R = {} /\ Q' = RR!RemoveAt(Q, i)
                            /\ UNCHANGED <<R, current_task>>
    <3>1. 1 \in DOMAIN Q /\ Q[1] = current_task
      BY <1>0, <2>1
    <3> QED BY <1>1, <2>1, <2>2, <2>3, <2>4, <3>1
  <2> QED BY <2>5 DEF RR!RRNext, RR!Depart, Q, R, QueueOf, ReadyOf
<1> QED BY <1>1, <1>2, <1>3

\* With pid 0 too, every step is a step of the round-robin queue.
LEMMA BootIsRoundRobin ==
  ASSUME TypeOK, BootInv, [Next]_vars
  PROVE  [RR!RRNext]_(RR!rrVars)
<1>9. SUFFICES RR!RRNext \/ RRStutter
  BY DEF RRStutter, RR!rrVars, QueueOf, ReadyOf
<1>1. ASSUME NEW prio \in Priorities, task_create(prio) PROVE RR!RRNext \/ RRStutter
  BY <1>1, BootIsDepart
<1>2. CASE ~(\E prio \in Priorities : task_create(prio))
  <2>1. ring' = ring /\ state' = state /\ current_task' = current_task
    BY <1>2, BootOther
  <2> QED BY <2>1 DEF RRStutter
<1> QED BY <1>1, <1>2

(***************************************************************************)
(* The pointer ring implements the round-robin queue, for every number of  *)
(* task slots and every pid of the idle task: a task enters at the back,   *)
(* schedule() dispatches the first READY task in the queue and rotates     *)
(* past it, so that no READY task is passed over, and exit or kill keep    *)
(* the order of the others.                                                *)
(***************************************************************************)
THEOREM RingIsRoundRobin == Spec => ImplementsRoundRobin
<1>1. Init => RR!RRInit
  BY InitIsRoundRobin
<1>2. CASE IdlePid # 0
  <2>1. (TypeOK /\ CycleInv /\ IdleBacksUp) /\ [Next]_vars => [RR!RRNext]_(RR!rrVars)
    BY StepIsRoundRobin
  <2>2. Spec => [](TypeOK /\ CycleInv /\ IdleBacksUp)
    BY <1>2, CycleHolds
  <2> QED BY <1>1, <2>1, <2>2, PTL DEF Spec, ImplementsRoundRobin, RR!RRSpec
<1>3. CASE IdlePid = 0
  <2>1. (TypeOK /\ BootInv) /\ [Next]_vars => [RR!RRNext]_(RR!rrVars)
    BY BootIsRoundRobin
  <2>2. Spec => [](TypeOK /\ BootInv)
    BY <1>3, BootHolds
  <2> QED BY <1>1, <2>1, <2>2, PTL DEF Spec, ImplementsRoundRobin, RR!RRSpec
<1> QED BY <1>2, <1>3

=============================================================================
