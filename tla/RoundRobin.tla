----------------------------- MODULE RoundRobin -----------------------------
(***************************************************************************)
(* What the scheduler promises: tasks wait in one queue in the order in    *)
(* which they were created, and a dispatch takes the first ready task in   *)
(* it and puts everything up to and including that task at the back, so    *)
(* that nobody who is ready is passed over.                                *)
(***************************************************************************)
EXTENDS Integers, Sequences, SequencesExt

CONSTANT Slot

VARIABLES queue,    \* all live tasks, the next one to be looked at first
          ready,    \* the tasks that may be dispatched
          running   \* the task that has the CPU; it is not in `ready`

rrVars == <<queue, ready, running>>

RRInit == \E t \in Slot : queue = <<t>> /\ running = t /\ ready = {}

\* Dispatch the first task of q that is in rdy and rotate q past it.
Dispatch(q, rdy) ==
  \E i \in DOMAIN q :
    /\ q[i] \in rdy
    /\ \A j \in 1 .. (i - 1) : q[j] \notin rdy
    /\ running' = q[i]
    /\ queue' = SubSeq(q, i + 1, Len(q)) \o SubSeq(q, 1, i)

\* A task enters at the back of the queue.
Arrive ==
  \E t \in Slot \ Range(queue) :
    /\ queue' = Append(queue, t)
    /\ ready' = ready \cup {t}
    /\ UNCHANGED running

\* A task that does not have the CPU is removed.
Evict ==
  \E i \in DOMAIN queue :
    /\ queue[i] # running
    /\ queue' = RemoveAt(queue, i)
    /\ ready' = ready \ {queue[i]}
    /\ UNCHANGED running

\* Some sleepers become ready ...
Wake(W) == ready' = ready \cup W /\ UNCHANGED <<queue, running>>

\* ... and the CPU may change hands: its owner stays ready or goes to sleep.
Switch(W) ==
  /\ Dispatch(queue, ready \cup W)
  /\ \/ ready' = (ready \cup W) \ {running'}
     \/ ready' = ((ready \cup W) \ {running'}) \cup {running}

\* The owner of the CPU leaves the queue, and the next task is dispatched.
Depart ==
  \E i \in DOMAIN queue :
    /\ queue[i] = running
    /\ LET q == RemoveAt(queue, i)
       IN  \/ Dispatch(q, ready) /\ ready' = ready \ {running'}
           \/ ready = {} /\ queue' = q /\ UNCHANGED <<ready, running>>

RRNext ==
  \/ Arrive
  \/ Evict
  \/ \E W \in SUBSET (Range(queue) \ {running}) : Wake(W) \/ Switch(W)
  \/ Depart

RRSpec == RRInit /\ [][RRNext]_rrVars
=============================================================================
