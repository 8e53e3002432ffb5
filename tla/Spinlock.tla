------------------------------ MODULE Spinlock ------------------------------
(***************************************************************************)
(* The ticket spinlock of kernel/include/spinlock.h, shared by several     *)
(* CPUs and by an interrupt handler on each of them.                       *)
(*                                                                         *)
(* A context is the task or the interrupt handler of a CPU.  Task code     *)
(* takes the lock with spin_lock_irqsave, a handler (which an interrupt    *)
(* gate enters with IF clear) with spin_lock or spin_trylock.  While the   *)
(* handler of a CPU is active, its task does not run.                      *)
(*                                                                         *)
(* Each atomic instruction is one action.  The two u32 counters are kept   *)
(* as the number of tickets ever handed out and ever served; the code only *)
(* ever compares them through u32.                                         *)
(***************************************************************************)
EXTENDS Integers, FiniteSets

CONSTANTS CPU,          \* the processors
          TicketMod,    \* 2^32 in the code: the counters are u32
          MaxTickets    \* bound: tickets handed out in one behaviour

Task(cpu) == <<cpu, "task">>
Irq(cpu)  == <<cpu, "irq">>
Ctx       == CPU \X {"task", "irq"}

\* Wrap-around is harmless only if fewer contexts than u32 values exist.
ASSUME SpinlockAssumption ==
  /\ IsFiniteSet(CPU)
  /\ TicketMod \in Nat \ {0}
  /\ Cardinality(Ctx) <= TicketMod
  /\ MaxTickets \in Nat

VARIABLES
  next_ticket,  \* tickets handed out since spin_lock_init
  now_serving,  \* tickets served since spin_lock_init
  my_ticket,    \* the local my_ticket, or spin_trylock's `serving`
  pc,           \* where each context stands in its lock operation
  intr,         \* the IF flag of each CPU
  flags         \* what spin_lock_irqsave returned to the task of each CPU

vars == <<next_ticket, now_serving, my_ticket, pc, intr, flags>>

u32(n) == n % TicketMod

PCs == {"idle", "lock", "spin", "load", "cas", "cs", "restore"}

----------------------------------------------------------------------------
\* The task of a CPU stands still while the CPU's handler is active.
Runs(c) == c[2] = "irq" \/ pc[Irq(c[1])] = "idle"

Goto(c, from, to) ==
  /\ pc[c] = from
  /\ Runs(c)
  /\ pc' = [pc EXCEPT ![c] = to]

\* spin_lock_init
Init ==
  /\ next_ticket = 0
  /\ now_serving = 0
  /\ my_ticket = [c \in Ctx |-> 0]
  /\ pc = [c \in Ctx |-> "idle"]
  /\ intr = [cpu \in CPU |-> TRUE]
  /\ flags = [cpu \in CPU |-> TRUE]

\* Mutant: spin_lock_irqsave without cli.
SaveFlagsNoCli(cpu) ==
  /\ Goto(Task(cpu), "idle", "lock")
  /\ flags' = [flags EXCEPT ![cpu] = intr[cpu]]
  /\ UNCHANGED <<next_ticket, now_serving, my_ticket, intr>>

\* spin_lock_irqsave: pushfq; pop; cli, then spin_lock.
SaveFlags(cpu) ==
  /\ Goto(Task(cpu), "idle", "lock")
  /\ flags' = [flags EXCEPT ![cpu] = intr[cpu]]
  /\ intr' = [intr EXCEPT ![cpu] = FALSE]
  /\ UNCHANGED <<next_ticket, now_serving, my_ticket>>

\* An interrupt gate enters a handler that calls spin_lock or spin_trylock.
IrqEntry(cpu) ==
  /\ intr[cpu]
  /\ \/ Goto(Irq(cpu), "idle", "lock")
     \/ Goto(Irq(cpu), "idle", "load")
  /\ intr' = [intr EXCEPT ![cpu] = FALSE]
  /\ UNCHANGED <<next_ticket, now_serving, my_ticket, flags>>

\* Bound, and the one assumption on timing: a spin_trylock does not sit between
\* its load and its compare-exchange while the u32 counter goes all the way round.
MayHandOut ==
  /\ next_ticket < MaxTickets
  /\ \A d \in Ctx : pc[d] = "cas" => (next_ticket + 1) - my_ticket[d] < TicketMod

\* spin_lock: __atomic_fetch_add on next_ticket.
FetchAdd(c) ==
  /\ MayHandOut
  /\ Goto(c, "lock", "spin")
  /\ my_ticket' = [my_ticket EXCEPT ![c] = next_ticket]
  /\ next_ticket' = next_ticket + 1
  /\ UNCHANGED <<now_serving, intr, flags>>

\* Mutant: the waiting loop tests now_serving <= my_ticket.
SpinUntilNotAhead(c) ==
  /\ Goto(c, "spin", "cs")
  /\ u32(now_serving) <= u32(my_ticket[c])
  /\ UNCHANGED <<next_ticket, now_serving, my_ticket, intr, flags>>

\* spin_lock: the load of now_serving that ends the waiting loop.
SpinAcquire(c) ==
  /\ Goto(c, "spin", "cs")
  /\ u32(now_serving) = u32(my_ticket[c])
  /\ UNCHANGED <<next_ticket, now_serving, my_ticket, intr, flags>>

\* spin_trylock: the load of now_serving.
TryLoad(c) ==
  /\ Goto(c, "load", "cas")
  /\ my_ticket' = [my_ticket EXCEPT ![c] = now_serving]
  /\ UNCHANGED <<next_ticket, now_serving, intr, flags>>

\* Mutant: the exchange is made whatever next_ticket holds.
TryStore(c) ==
  /\ MayHandOut
  /\ Goto(c, "cas", "cs")
  /\ next_ticket' = next_ticket + 1
  /\ UNCHANGED <<now_serving, my_ticket, intr, flags>>

\* spin_trylock: the compare-exchange finds next_ticket = serving and takes the ticket.
TryCasTakes(c) ==
  /\ MayHandOut
  /\ u32(next_ticket) = u32(my_ticket[c])
  /\ Goto(c, "cas", "cs")
  /\ next_ticket' = next_ticket + 1
  /\ UNCHANGED <<now_serving, my_ticket, intr, flags>>

\* spin_trylock returns false; the handler goes on without the lock and returns.
TryCasFails(c) ==
  /\ u32(next_ticket) # u32(my_ticket[c])
  /\ Goto(c, "cas", "idle")
  /\ intr' = [intr EXCEPT ![c[1]] = TRUE]
  /\ UNCHANGED <<next_ticket, now_serving, my_ticket, flags>>

\* spin_unlock, in a handler: the iretq that follows sets IF again.
UnlockIrq(cpu) ==
  /\ Goto(Irq(cpu), "cs", "idle")
  /\ now_serving' = now_serving + 1
  /\ intr' = [intr EXCEPT ![cpu] = TRUE]
  /\ UNCHANGED <<next_ticket, my_ticket, flags>>

\* spin_unlock_irqrestore: spin_unlock ...
UnlockTask(cpu) ==
  /\ Goto(Task(cpu), "cs", "restore")
  /\ now_serving' = now_serving + 1
  /\ UNCHANGED <<next_ticket, my_ticket, intr, flags>>

\* ... and then popfq.
RestoreFlags(cpu) ==
  /\ Goto(Task(cpu), "restore", "idle")
  /\ intr' = [intr EXCEPT ![cpu] = flags[cpu]]
  /\ UNCHANGED <<next_ticket, now_serving, my_ticket, flags>>

\* The steps a context that is inside a lock operation takes by itself.
Step(c) ==
  \/ FetchAdd(c)
  \/ SpinAcquire(c)
  \/ TryLoad(c)
  \/ TryCasTakes(c)
  \/ TryCasFails(c)
  \/ c[2] = "irq"  /\ UnlockIrq(c[1])
  \/ c[2] = "task" /\ (UnlockTask(c[1]) \/ RestoreFlags(c[1]))

Next ==
  \/ \E c \in Ctx : Step(c)
  \/ \E cpu \in CPU : SaveFlags(cpu) \/ IrqEntry(cpu)

Spec == Init /\ [][Next]_vars

\* A CPU keeps executing the code it is in; requests and interrupts may stop.
FairSpec == Spec /\ \A c \in Ctx : WF_vars(Step(c))

----------------------------------------------------------------------------
\* The contexts that hold a ticket not yet served.
Outstanding == {c \in Ctx : pc[c] \in {"spin", "cs"}}

TypeOK ==
  /\ next_ticket \in Nat
  /\ now_serving \in Nat
  /\ my_ticket \in [Ctx -> Nat]
  /\ pc \in [Ctx -> PCs]
  /\ intr \in [CPU -> BOOLEAN]
  /\ flags \in [CPU -> BOOLEAN]

(***************************************************************************)
(* spin_lock, spin_trylock: at most one context, over all CPUs and over    *)
(* task and interrupt context, is between a successful acquisition and the *)
(* matching spin_unlock, also when the u32 counters have wrapped.          *)
(***************************************************************************)
MutualExclusion ==
  \A c, d \in Ctx : pc[c] = "cs" /\ pc[d] = "cs" => c = d

(***************************************************************************)
(* No ticket is lost or handed out twice: the outstanding tickets are      *)
(* exactly those from now_serving up to next_ticket, one per context.      *)
(* This is why an unlock always wakes exactly one waiter.                  *)
(***************************************************************************)
TicketWindow ==
  /\ {my_ticket[c] : c \in Outstanding} = now_serving .. (next_ticket - 1)
  /\ \A c, d \in Outstanding : my_ticket[c] = my_ticket[d] => c = d

(***************************************************************************)
(* The lock implements a first-come-first-served queue, in which contexts  *)
(* stand in the order of their tickets.                                    *)
(***************************************************************************)
Holders(t) == {c \in Outstanding : my_ticket[c] = t}
Queue == [i \in 1 .. next_ticket - now_serving |->
            LET S == Holders(now_serving + (i - 1))
            IN  CHOOSE c \in Ctx : S # {} => c \in S]
Fifo == INSTANCE FifoLock WITH
          queue   <- Queue,
          entered <- \E c \in Ctx : pc[c] = "cs"
FirstComeFirstServed == Fifo!LockSpec

(***************************************************************************)
(* Whoever draws a ticket gets the lock.  In particular a handler never    *)
(* spins for a lock that the task it interrupted holds: spin_lock_irqsave  *)
(* keeps the interrupt out until the lock is released.                     *)
(***************************************************************************)
WaiterServed == \A c \in Ctx : pc[c] = "spin" ~> pc[c] = "cs"
=============================================================================
