--------------------------- MODULE SpinlockProofs ---------------------------
(***************************************************************************)
(* Mutual exclusion of the ticket spinlock for every set of CPUs and every *)
(* counter width that leaves each context a ticket value of its own.       *)
(***************************************************************************)
EXTENDS Spinlock, FiniteSetTheorems, SequenceTheorems, TLAPS

(***************************************************************************)
(* Two counts less than a full turn of the u32 counter apart that look     *)
(* equal to the code are equal.                                            *)
(***************************************************************************)
LEMMA ModUnique ==
  ASSUME NEW x \in Nat, NEW y \in Nat, x <= y, y - x < TicketMod,
         u32(x) = u32(y)
  PROVE  x = y
<1>0. TicketMod \in Nat /\ TicketMod > 0
  BY SpinlockAssumption
<1> DEFINE qx == x \div TicketMod
           qy == y \div TicketMod
<1>1. /\ qx \in Int /\ qy \in Int
      /\ x = TicketMod * qx + (x % TicketMod)
      /\ y = TicketMod * qy + (y % TicketMod)
      /\ x % TicketMod \in Int
  BY <1>0
<1> HIDE DEF qx, qy
<1>2. y - x = TicketMod * (qy - qx)
  BY <1>0, <1>1 DEF u32
<1>3. qy - qx < 1
  BY <1>0, <1>1, <1>2
<1>4. qy - qx > -1
  BY <1>0, <1>1, <1>2
<1>5. QED
  BY <1>0, <1>1, <1>2, <1>3, <1>4

----------------------------------------------------------------------------
(***************************************************************************)
(* The inductive invariant.  Tickets and contexts are matched one to one   *)
(* (Window), the holder's ticket is the one being served (Holder), and a   *)
(* spin_trylock between its two instructions remembers a ticket that was   *)
(* being served less than a turn of the counter ago (TryLag).              *)
(***************************************************************************)
Window ==
  /\ now_serving <= next_ticket
  /\ \A c \in Outstanding : now_serving <= my_ticket[c] /\ my_ticket[c] < next_ticket
  /\ \A c, d \in Outstanding : my_ticket[c] = my_ticket[d] => c = d
  /\ \A t \in Nat : now_serving <= t /\ t < next_ticket
        => \E c \in Outstanding : my_ticket[c] = t

Holder == \A c \in Ctx : pc[c] = "cs" => my_ticket[c] = now_serving

TryLag ==
  \A c \in Ctx : pc[c] = "cas" =>
    my_ticket[c] <= now_serving /\ next_ticket - my_ticket[c] < TicketMod

IInv == TypeOK /\ Window /\ Holder /\ TryLag

(***************************************************************************)
(* There are finitely many contexts.                                       *)
(***************************************************************************)
LEMMA CtxFinite == IsFiniteSet(Ctx) /\ Cardinality(Ctx) \in Nat
<1>1. {"task", "irq"} = {"task"} \cup {"irq"}
  OBVIOUS
<1>2. IsFiniteSet({"task"}) /\ IsFiniteSet({"irq"})
  BY FS_Singleton, Zenon
<1>3. IsFiniteSet({"task", "irq"})
  BY <1>1, <1>2, FS_Union, Zenon
<1>4. IsFiniteSet(Ctx)
  BY <1>3, SpinlockAssumption, FS_Product DEF Ctx
<1>5. QED
  BY <1>4, FS_CardinalityType

(***************************************************************************)
(* If all outstanding tickets are in the hands of S, the window is no      *)
(* longer than S is large: contexts and tickets are matched one to one.    *)
(***************************************************************************)
LEMMA WindowWithin ==
  ASSUME TypeOK, Window, NEW S \in SUBSET Ctx, Outstanding \subseteq S
  PROVE  next_ticket - now_serving <= Cardinality(S)
<1> DEFINE T == now_serving .. (next_ticket - 1)
           f == [t \in T |-> CHOOSE c \in Outstanding : my_ticket[c] = t]
<1>1. now_serving \in Nat /\ next_ticket \in Nat /\ now_serving <= next_ticket
  BY DEF TypeOK, Window
<1>2. \A t \in T : f[t] \in Outstanding /\ my_ticket[f[t]] = t
  BY <1>1 DEF Window
<1>3. f \in Injection(T, S)
  <2>1. f \in [T -> S]
    BY <1>2
  <2>2. \A s, t \in T : f[s] = f[t] => s = t
    BY <1>2
  <2>3. DOMAIN f = T
    OBVIOUS
  <2> HIDE DEF f, T
  <2>4. QED
    BY <2>1, <2>2, <2>3 DEF Injection, IsInjective
<1>4. IsFiniteSet(S)
  BY CtxFinite, FS_Subset
<1>5. Cardinality(T) <= Cardinality(S)
  BY <1>3, <1>4, FS_Injection
<1>6. Cardinality(T) = next_ticket - now_serving
  <2>1. next_ticket - 1 \in Int /\ now_serving \in Int
    BY <1>1
  <2>2. Cardinality(T) = IF now_serving > next_ticket - 1 THEN 0
                         ELSE (next_ticket - 1) - now_serving + 1
    BY <2>1, FS_Interval, Zenon
  <2>3. QED
    BY <1>1, <2>2
<1>7. QED
  BY <1>5, <1>6

(***************************************************************************)
(* The window never spans more than a whole turn of the counter, and less  *)
(* than one while some context has no ticket.                              *)
(***************************************************************************)
LEMMA WindowBounded ==
  ASSUME TypeOK, Window
  PROVE  /\ next_ticket - now_serving <= TicketMod
         /\ \A c \in Ctx : c \notin Outstanding
              => next_ticket - now_serving < TicketMod
<1>0. next_ticket \in Nat /\ now_serving \in Nat /\ TicketMod \in Nat
  BY SpinlockAssumption DEF TypeOK
<1>1. next_ticket - now_serving <= TicketMod
  <2>1. next_ticket - now_serving <= Cardinality(Ctx)
    BY WindowWithin DEF Outstanding
  <2>2. QED
    BY <1>0, <2>1, CtxFinite, SpinlockAssumption
<1>2. ASSUME NEW c \in Ctx, c \notin Outstanding
      PROVE  next_ticket - now_serving < TicketMod
  <2>1. next_ticket - now_serving <= Cardinality(Ctx \ {c})
    BY <1>2, WindowWithin DEF Outstanding
  <2>2. Cardinality(Ctx \ {c}) = Cardinality(Ctx) - 1
    BY CtxFinite, FS_RemoveElement
  <2>3. QED
    BY <1>0, <2>1, <2>2, CtxFinite, SpinlockAssumption
<1>3. QED
  BY <1>1, <1>2

(***************************************************************************)
(* Every step keeps the variables in their types.                          *)
(***************************************************************************)
LEMMA TypeStep == TypeOK /\ [Next]_vars => TypeOK'
<1> SUFFICES ASSUME TypeOK, [Next]_vars PROVE TypeOK'
  OBVIOUS
<1> USE DEF TypeOK, PCs, Goto, Task, Irq, Ctx
<1>1. ASSUME NEW c \in Ctx, FetchAdd(c) PROVE TypeOK'
  BY <1>1 DEF FetchAdd
<1>2. ASSUME NEW c \in Ctx, SpinAcquire(c) PROVE TypeOK'
  BY <1>2 DEF SpinAcquire
<1>3. ASSUME NEW c \in Ctx, TryLoad(c) PROVE TypeOK'
  BY <1>3 DEF TryLoad
<1>4. ASSUME NEW c \in Ctx, TryCasTakes(c) PROVE TypeOK'
  BY <1>4 DEF TryCasTakes
<1>5. ASSUME NEW c \in Ctx, TryCasFails(c) PROVE TypeOK'
  BY <1>5 DEF TryCasFails
<1>6. ASSUME NEW cpu \in CPU, UnlockIrq(cpu) PROVE TypeOK'
  BY <1>6 DEF UnlockIrq
<1>7. ASSUME NEW cpu \in CPU, UnlockTask(cpu) PROVE TypeOK'
  BY <1>7 DEF UnlockTask
<1>8. ASSUME NEW cpu \in CPU, RestoreFlags(cpu) PROVE TypeOK'
  BY <1>8 DEF RestoreFlags
<1>9. ASSUME NEW cpu \in CPU, SaveFlags(cpu) PROVE TypeOK'
  BY <1>9 DEF SaveFlags
<1>10. ASSUME NEW cpu \in CPU, IrqEntry(cpu) PROVE TypeOK'
  BY <1>10 DEF IrqEntry
<1>11. CASE UNCHANGED vars
  BY <1>11 DEF vars
<1>12. QED
  BY <1>1, <1>2, <1>3, <1>4, <1>5, <1>6, <1>7, <1>8, <1>9, <1>10, <1>11
     DEF Next, Step

(***************************************************************************)
(* A step that neither draws, serves nor observes a ticket, and moves one  *)
(* context outside the ticketed part of its code, keeps the invariant.     *)
(***************************************************************************)
LEMMA QuietStep ==
  ASSUME TypeOK, Window, Holder, TryLag,
         NEW c \in Ctx, NEW from \in PCs, NEW to \in PCs,
         Goto(c, from, to),
         from \notin {"spin", "cs"}, to \notin {"spin", "cs", "cas"},
         UNCHANGED <<next_ticket, now_serving, my_ticket>>
  PROVE  Window' /\ Holder' /\ TryLag'
<1>1. \A d \in Ctx : d # c => pc'[d] = pc[d]
  BY DEF Goto, TypeOK
<1>2. pc[c] = from /\ pc'[c] = to
  BY DEF Goto, TypeOK
<1>3. Outstanding' = Outstanding
  BY <1>1, <1>2 DEF Outstanding
<1>4. Window'
  BY <1>3 DEF Window
<1>5. Holder'
  BY <1>1, <1>2 DEF Holder
<1>6. TryLag'
  BY <1>1, <1>2 DEF TryLag
<1>7. QED
  BY <1>4, <1>5, <1>6

(***************************************************************************)
(* Drawing the next ticket extends the window by one.  A spin_trylock only *)
(* draws it when the window is empty.                                      *)
(***************************************************************************)
LEMMA DrawStep ==
  ASSUME TypeOK, Window, Holder, TryLag, MayHandOut,
         NEW c \in Ctx, pc[c] \notin {"spin", "cs"},
         NEW to \in {"spin", "cs"},
         pc' = [pc EXCEPT ![c] = to],
         my_ticket' = [my_ticket EXCEPT ![c] = next_ticket],
         next_ticket' = next_ticket + 1,
         now_serving' = now_serving,
         to = "cs" => next_ticket = now_serving
  PROVE  Window' /\ Holder' /\ TryLag'
<1>1. /\ \A d \in Ctx : d # c => pc'[d] = pc[d] /\ my_ticket'[d] = my_ticket[d]
      /\ pc'[c] = to /\ my_ticket'[c] = next_ticket
      /\ next_ticket \in Nat /\ now_serving \in Nat
      /\ \A d \in Ctx : my_ticket[d] \in Nat
  BY DEF TypeOK
<1>2. Outstanding' = Outstanding \cup {c} /\ c \notin Outstanding
  BY <1>1 DEF Outstanding
<1>3. \A d \in Outstanding : d \in Ctx /\ d # c
  BY <1>2 DEF Outstanding
<1>4. Window'
  <2>1. now_serving' <= next_ticket'
    BY <1>1 DEF Window
  <2>2. ASSUME NEW d \in Outstanding'
        PROVE  now_serving' <= my_ticket'[d] /\ my_ticket'[d] < next_ticket'
    BY <1>1, <1>2, <1>3 DEF Window
  <2>3. ASSUME NEW d \in Outstanding', NEW e \in Outstanding',
               my_ticket'[d] = my_ticket'[e]
        PROVE  d = e
    BY <1>1, <1>2, <1>3, <2>3 DEF Window
  <2>4. ASSUME NEW t \in Nat, now_serving' <= t, t < next_ticket'
        PROVE  \E d \in Outstanding' : my_ticket'[d] = t
    <3>1. CASE t = next_ticket
      BY <1>1, <1>2, <3>1
    <3>2. CASE t < next_ticket
      <4>1. PICK d \in Outstanding : my_ticket[d] = t
        BY <2>4, <3>2 DEF Window
      <4>2. QED
        BY <4>1, <1>1, <1>2, <1>3
    <3>3. QED
      BY <1>1, <2>4, <3>1, <3>2
  <2>5. QED
    BY <2>1, <2>2, <2>3, <2>4 DEF Window
<1>5. Holder'
  BY <1>1 DEF Holder
<1>6. TryLag'
  BY <1>1 DEF TryLag, MayHandOut
<1>7. QED
  BY <1>4, <1>5, <1>6

(***************************************************************************)
(* Releasing the lock serves the next ticket: the window loses its first   *)
(* element, which only the holder had.                                     *)
(***************************************************************************)
LEMMA ReleaseStep ==
  ASSUME TypeOK, Window, Holder, TryLag,
         NEW c \in Ctx, pc[c] = "cs",
         NEW to \in {"idle", "restore"},
         pc' = [pc EXCEPT ![c] = to],
         now_serving' = now_serving + 1,
         UNCHANGED <<next_ticket, my_ticket>>
  PROVE  Window' /\ Holder' /\ TryLag'
<1>1. /\ \A d \in Ctx : d # c => pc'[d] = pc[d]
      /\ pc'[c] = to
      /\ next_ticket \in Nat /\ now_serving \in Nat
      /\ \A d \in Ctx : my_ticket[d] \in Nat
  BY DEF TypeOK
<1>2. my_ticket[c] = now_serving /\ c \in Outstanding
  BY DEF Holder, Outstanding
<1>3. Outstanding' = Outstanding \ {c}
  BY <1>1 DEF Outstanding
<1>4. \A d \in Outstanding : d \in Ctx
  BY DEF Outstanding
<1>5. \A d \in Outstanding' : my_ticket[d] # now_serving
  BY <1>2, <1>3 DEF Window
<1>6. Window'
  <2>1. now_serving' <= next_ticket'
    BY <1>1, <1>2 DEF Window
  <2>2. ASSUME NEW d \in Outstanding'
        PROVE  now_serving' <= my_ticket'[d] /\ my_ticket'[d] < next_ticket'
    BY <1>1, <1>3, <1>4, <1>5 DEF Window
  <2>3. ASSUME NEW d \in Outstanding', NEW e \in Outstanding',
               my_ticket'[d] = my_ticket'[e]
        PROVE  d = e
    BY <1>3, <2>3 DEF Window
  <2>4. ASSUME NEW t \in Nat, now_serving' <= t, t < next_ticket'
        PROVE  \E d \in Outstanding' : my_ticket'[d] = t
    <3>1. PICK d \in Outstanding : my_ticket[d] = t
      BY <1>1, <2>4 DEF Window
    <3>2. d # c
      BY <1>1, <1>2, <2>4, <3>1
    <3>3. QED
      BY <1>3, <3>1, <3>2
  <2>5. QED
    BY <2>1, <2>2, <2>3, <2>4 DEF Window
<1>7. Holder'
  <2> SUFFICES ASSUME NEW d \in Ctx, pc'[d] = "cs" PROVE FALSE
    BY DEF Holder
  <2>1. d # c /\ pc[d] = "cs"
    BY <1>1
  <2>2. d \in Outstanding /\ my_ticket[d] = my_ticket[c]
    BY <1>2, <2>1 DEF Holder, Outstanding
  <2>3. QED
    BY <1>2, <2>1, <2>2 DEF Window
<1>8. TryLag'
  BY <1>1 DEF TryLag
<1>9. QED
  BY <1>6, <1>7, <1>8

(***************************************************************************)
(* The invariant is inductive: one step per action of the lock.            *)
(***************************************************************************)
LEMMA IInvStep == IInv /\ [Next]_vars => IInv'
<1> SUFFICES ASSUME TypeOK, Window, Holder, TryLag, [Next]_vars
             PROVE  Window' /\ Holder' /\ TryLag'
  BY TypeStep DEF IInv
<1>0. /\ next_ticket \in Nat /\ now_serving \in Nat
      /\ \A d \in Ctx : my_ticket[d] \in Nat
      /\ pc \in [Ctx -> PCs]
  BY DEF TypeOK
<1>1. ASSUME NEW c \in Ctx, FetchAdd(c) PROVE Window' /\ Holder' /\ TryLag'
  <2>1. /\ MayHandOut /\ pc[c] = "lock" /\ pc' = [pc EXCEPT ![c] = "spin"]
        /\ my_ticket' = [my_ticket EXCEPT ![c] = next_ticket]
        /\ next_ticket' = next_ticket + 1 /\ now_serving' = now_serving
    BY <1>1 DEF FetchAdd, Goto
  <2>2. QED
    BY <2>1, DrawStep
<1>2. ASSUME NEW c \in Ctx, SpinAcquire(c) PROVE Window' /\ Holder' /\ TryLag'
  <2>1. /\ pc[c] = "spin" /\ pc' = [pc EXCEPT ![c] = "cs"]
        /\ u32(now_serving) = u32(my_ticket[c])
        /\ UNCHANGED <<next_ticket, now_serving, my_ticket>>
    BY <1>2 DEF SpinAcquire, Goto
  <2>2. c \in Outstanding
    BY <2>1 DEF Outstanding
  <2>3. my_ticket[c] = now_serving
    <3>1. now_serving <= my_ticket[c] /\ my_ticket[c] < next_ticket
      BY <2>2 DEF Window
    <3>2. my_ticket[c] - now_serving < TicketMod
      BY <1>0, <3>1, WindowBounded, SpinlockAssumption
    <3>3. QED
      BY <1>0, <2>1, <3>1, <3>2, ModUnique
  <2>4. /\ \A d \in Ctx : d # c => pc'[d] = pc[d]
        /\ pc'[c] = "cs"
    BY <1>0, <2>1
  <2>5. Outstanding' = Outstanding
    BY <2>1, <2>4 DEF Outstanding
  <2>6. QED
    BY <2>1, <2>3, <2>4, <2>5 DEF Window, Holder, TryLag
<1>3. ASSUME NEW c \in Ctx, TryLoad(c) PROVE Window' /\ Holder' /\ TryLag'
  <2>1. /\ pc[c] = "load" /\ pc' = [pc EXCEPT ![c] = "cas"]
        /\ my_ticket' = [my_ticket EXCEPT ![c] = now_serving]
        /\ UNCHANGED <<next_ticket, now_serving>>
    BY <1>3 DEF TryLoad, Goto
  <2>2. /\ \A d \in Ctx : d # c => pc'[d] = pc[d] /\ my_ticket'[d] = my_ticket[d]
        /\ pc'[c] = "cas" /\ my_ticket'[c] = now_serving
    BY <1>0, <2>1 DEF TypeOK
  <2>3. Outstanding' = Outstanding /\ c \notin Outstanding
    BY <2>1, <2>2 DEF Outstanding
  <2>4. \A d \in Outstanding : my_ticket'[d] = my_ticket[d]
    BY <2>2, <2>3 DEF Outstanding
  <2>5. Window'
    BY <2>1, <2>3, <2>4 DEF Window
  <2>6. Holder'
    BY <2>1, <2>2 DEF Holder
  <2>7. TryLag'
    <3>1. next_ticket - now_serving < TicketMod
      BY <2>3, WindowBounded
    <3>2. QED
      BY <1>0, <2>1, <2>2, <3>1 DEF TryLag
  <2>8. QED
    BY <2>5, <2>6, <2>7
<1>4. ASSUME NEW c \in Ctx, TryCasTakes(c) PROVE Window' /\ Holder' /\ TryLag'
  <2>1. /\ MayHandOut /\ pc[c] = "cas" /\ pc' = [pc EXCEPT ![c] = "cs"]
        /\ u32(next_ticket) = u32(my_ticket[c])
        /\ next_ticket' = next_ticket + 1
        /\ UNCHANGED <<now_serving, my_ticket>>
    BY <1>4 DEF TryCasTakes, Goto
  <2>2. /\ my_ticket[c] <= now_serving /\ now_serving <= next_ticket
        /\ next_ticket - my_ticket[c] < TicketMod
    BY <2>1 DEF TryLag, Window
  <2>3. my_ticket[c] = next_ticket
    BY <1>0, <2>1, <2>2, ModUnique
  <2>4. next_ticket = now_serving
    BY <1>0, <2>2, <2>3
  <2>5. my_ticket' = [my_ticket EXCEPT ![c] = next_ticket]
    BY <2>1, <2>3 DEF TypeOK
  <2>6. QED
    BY <2>1, <2>4, <2>5, DrawStep
<1>5. ASSUME NEW c \in Ctx, TryCasFails(c) PROVE Window' /\ Holder' /\ TryLag'
  BY <1>5, QuietStep DEF TryCasFails, PCs
<1>6. ASSUME NEW cpu \in CPU, UnlockIrq(cpu) PROVE Window' /\ Holder' /\ TryLag'
  BY <1>6, ReleaseStep DEF UnlockIrq, Goto, Irq, Ctx
<1>7. ASSUME NEW cpu \in CPU, UnlockTask(cpu) PROVE Window' /\ Holder' /\ TryLag'
  BY <1>7, ReleaseStep DEF UnlockTask, Goto, Task, Ctx
<1>8. ASSUME NEW cpu \in CPU, RestoreFlags(cpu) PROVE Window' /\ Holder' /\ TryLag'
  BY <1>8, QuietStep DEF RestoreFlags, Task, Ctx, PCs
<1>9. ASSUME NEW cpu \in CPU, SaveFlags(cpu) PROVE Window' /\ Holder' /\ TryLag'
  BY <1>9, QuietStep DEF SaveFlags, Task, Ctx, PCs
<1>10. ASSUME NEW cpu \in CPU, IrqEntry(cpu) PROVE Window' /\ Holder' /\ TryLag'
  BY <1>10, QuietStep DEF IrqEntry, Irq, Ctx, PCs
<1>11. CASE UNCHANGED vars
  BY <1>11 DEF vars, Window, Holder, TryLag, Outstanding
<1>12. QED
  BY <1>1, <1>2, <1>3, <1>4, <1>5, <1>6, <1>7, <1>8, <1>9, <1>10, <1>11
     DEF Next, Step, Ctx

----------------------------------------------------------------------------
(***************************************************************************)
(* Type correctness and the inductive invariant hold in every behaviour.   *)
(***************************************************************************)
THEOREM Inductive == Spec => []IInv
<1>1. Init => IInv
  BY SpinlockAssumption
     DEF Init, IInv, TypeOK, Window, Holder, TryLag, Outstanding, PCs
<1>2. QED
  BY <1>1, IInvStep, PTL DEF Spec

\* The counters, tickets and program counters of spin_lock keep their types.
THEOREM TypeCorrect == Spec => []TypeOK
<1>1. IInv => TypeOK
  BY DEF IInv
<1>2. QED
  BY <1>1, Inductive, PTL

(***************************************************************************)
(* Two contexts never hold the lock together.                              *)
(***************************************************************************)
THEOREM MutualExclusionHolds == Spec => []MutualExclusion
<1>1. IInv => MutualExclusion
  BY DEF IInv, Window, Holder, MutualExclusion, Outstanding
<1>2. QED
  BY <1>1, Inductive, PTL

(***************************************************************************)
(* The outstanding tickets are exactly the window, one per context.        *)
(***************************************************************************)
THEOREM TicketWindowHolds == Spec => []TicketWindow
<1>1. IInv => TicketWindow
  <2> SUFFICES ASSUME TypeOK, Window PROVE TicketWindow
    BY DEF IInv
  <2>0. /\ next_ticket \in Nat /\ now_serving \in Nat
        /\ \A d \in Outstanding : my_ticket[d] \in Nat
    BY DEF TypeOK, Outstanding
  <2>1. \A t \in now_serving .. (next_ticket - 1) :
           t \in {my_ticket[c] : c \in Outstanding}
    BY <2>0 DEF Window
  <2>2. \A c \in Outstanding : my_ticket[c] \in now_serving .. (next_ticket - 1)
    BY <2>0 DEF Window
  <2>3. QED
    BY <2>1, <2>2 DEF Window, TicketWindow
<1>2. QED
  BY <1>1, Inductive, PTL

----------------------------------------------------------------------------
(***************************************************************************)
(* The contexts in the order of their tickets.                             *)
(***************************************************************************)
InOrder(t, n, tick, O) ==
  [i \in 1 .. n - t |->
     LET S == {c \in O : tick[c] = t + (i - 1)}
     IN  CHOOSE c \in Ctx : S # {} => c \in S]

Matched(t, n, tick, O) ==
  /\ t \in Nat /\ n \in Nat /\ t <= n /\ O \subseteq Ctx
  /\ \A c \in O : tick[c] \in Nat /\ t <= tick[c] /\ tick[c] < n
  /\ \A c, d \in O : tick[c] = tick[d] => c = d
  /\ \A k \in Nat : t <= k /\ k < n => \E c \in O : tick[c] = k

Line(Q, t, n, tick, O) ==
  /\ Q \in Seq(Ctx) /\ Len(Q) = n - t /\ DOMAIN Q = 1 .. (n - t)
  /\ \A i \in 1 .. (n - t) : Q[i] \in O /\ tick[Q[i]] = t + (i - 1)

\* Each of the outstanding tickets has its place.
LEMMA InOrderLine ==
  ASSUME NEW t, NEW n, NEW tick, NEW O, Matched(t, n, tick, O)
  PROVE  Line(InOrder(t, n, tick, O), t, n, tick, O)
<1> DEFINE Q == InOrder(t, n, tick, O)
           m == n - t
<1>0. t \in Nat /\ n \in Nat /\ t <= n /\ O \subseteq Ctx /\ m \in Nat
  BY DEF Matched
<1>1. ASSUME NEW i \in 1 .. m PROVE Q[i] \in O /\ tick[Q[i]] = t + (i - 1)
  <2> DEFINE S == {c \in O : tick[c] = t + (i - 1)}
  <2>1. t + (i - 1) \in Nat /\ t <= t + (i - 1) /\ t + (i - 1) < n
    BY <1>0
  <2>2. S # {}
    BY <2>1 DEF Matched
  <2>3. Q[i] = CHOOSE c \in Ctx : S # {} => c \in S
    BY DEF InOrder
  <2>4. \E c \in Ctx : S # {} => c \in S
    BY <1>0, <2>2
  <2> HIDE DEF Q, S
  <2>5. Q[i] \in S
    BY <2>2, <2>3, <2>4
  <2> QED BY <2>5 DEF S
<1>2. DOMAIN Q = 1 .. m /\ Q = [i \in 1 .. m |-> Q[i]]
  BY DEF InOrder
<1> HIDE DEF Q, m
<1>3. Q \in [1 .. m -> Ctx]
  BY <1>0, <1>1, <1>2
<1>4. Q \in Seq(Ctx)
  BY <1>0, <1>3, SeqDef
<1>5. Len(Q) = m
  <2>1. Len(Q) \in Nat /\ 1 .. Len(Q) = 1 .. m
    BY <1>2, <1>4, LenProperties
  <2>2. \A a, b \in Nat : 1 .. a = 1 .. b => a = b
    OBVIOUS
  <2> QED BY <1>0, <2>1, <2>2
<1>6. Line(Q, t, n, tick, O)
  BY <1>1, <1>2, <1>4, <1>5 DEF Line, m
<1> QED BY <1>6 DEF Q

Joins(Q, Q2, c) == Q2 = Append(Q, c) /\ \A i \in DOMAIN Q : Q[i] # c

\* The next ticket is drawn: its context stands at the end.
LEMMA LineGrows ==
  ASSUME NEW t, NEW n, NEW tick, NEW O, Matched(t, n, tick, O), NEW Q, Line(Q, t, n, tick, O),
         NEW c \in Ctx, c \notin O, NEW n2, n2 = n + 1,
         NEW tick2, NEW O2, Matched(t, n2, tick2, O2), NEW Q2, Line(Q2, t, n2, tick2, O2),
         O2 = O \cup {c}, tick2[c] = n, \A d \in O : tick2[d] = tick[d]
  PROVE  Joins(Q, Q2, c)
<1> DEFINE m == n - t
<1>0. t \in Nat /\ n \in Nat /\ t <= n /\ m \in Nat /\ n2 - t = m + 1 /\ t + m = n
  BY DEF Matched
<1>1. /\ Q \in Seq(Ctx) /\ Len(Q) = m /\ DOMAIN Q = 1 .. m
      /\ \A i \in 1 .. m : Q[i] \in O /\ tick[Q[i]] = t + (i - 1)
  BY DEF Line
<1>2. /\ Q2 \in Seq(Ctx) /\ Len(Q2) = m + 1
      /\ \A i \in 1 .. (m + 1) : Q2[i] \in O2 /\ tick2[Q2[i]] = t + (i - 1)
  BY <1>0 DEF Line
<1>3. \A d, e \in O2 : tick2[d] = tick2[e] => d = e
  BY DEF Matched
<1> HIDE DEF m
<1>4. /\ Append(Q, c) \in Seq(Ctx) /\ Len(Append(Q, c)) = m + 1
      /\ Append(Q, c)[m + 1] = c /\ \A i \in 1 .. m : Append(Q, c)[i] = Q[i]
  BY <1>1
<1>5. ASSUME NEW i \in 1 .. (m + 1) PROVE Q2[i] = Append(Q, c)[i]
  <2>1. CASE i = m + 1
    <3>1. tick2[Q2[i]] = n
      BY <1>0, <1>2, <2>1
    <3> QED BY <1>2, <1>3, <1>4, <2>1, <3>1
  <2>2. CASE i # m + 1
    <3>1. i \in 1 .. m
      BY <1>0, <2>2
    <3>2. Q[i] \in O /\ tick[Q[i]] = t + (i - 1)
      BY <1>1, <3>1
    <3>3. Q[i] \in O2 /\ tick2[Q[i]] = tick2[Q2[i]] /\ Q2[i] \in O2
      BY <1>2, <3>2
    <3>4. Q[i] = Q2[i]
      BY <1>3, <3>3
    <3> QED BY <1>4, <3>1, <3>4
  <2> QED BY <2>1, <2>2
<1>6. Q2 = Append(Q, c)
  BY <1>2, <1>4, <1>5, SeqEqual
<1> QED BY <1>1, <1>6 DEF Joins

\* The oldest ticket is served: its context was at the head.
LEMMA LineShrinks ==
  ASSUME NEW t, NEW n, NEW tick, NEW O, Matched(t, n, tick, O), NEW Q, Line(Q, t, n, tick, O),
         NEW c \in O, tick[c] = t, NEW t2, t2 = t + 1,
         NEW O2, Matched(t2, n, tick, O2), NEW Q2, Line(Q2, t2, n, tick, O2), O2 = O \ {c}
  PROVE  Q2 = Tail(Q)
<1> DEFINE m == n - t
<1>0. t \in Nat /\ n \in Nat /\ t < n /\ m \in Nat /\ m >= 1 /\ n - t2 = m - 1
  BY DEF Matched
<1>1. /\ Q \in Seq(Ctx) /\ Len(Q) = m
      /\ \A i \in 1 .. m : Q[i] \in O /\ tick[Q[i]] = t + (i - 1)
  BY DEF Line
<1>2. /\ Q2 \in Seq(Ctx) /\ Len(Q2) = m - 1
      /\ \A i \in 1 .. (m - 1) : Q2[i] \in O2 /\ tick[Q2[i]] = t2 + (i - 1)
  BY <1>0 DEF Line
<1>3. \A d, e \in O : tick[d] = tick[e] => d = e
  BY DEF Matched
<1> HIDE DEF m
<1>4. /\ Tail(Q) \in Seq(Ctx) /\ Len(Tail(Q)) = m - 1
      /\ \A i \in 1 .. (m - 1) : Tail(Q)[i] = Q[i + 1]
  <2>1. Q # <<>>
    BY <1>0, <1>1
  <2> QED BY <1>1, <2>1
<1>5. ASSUME NEW i \in 1 .. (m - 1) PROVE Q2[i] = Tail(Q)[i]
  <2>1. i + 1 \in 1 .. m /\ t2 + (i - 1) = t + ((i + 1) - 1)
    BY <1>0
  <2>2. Q[i + 1] \in O /\ tick[Q[i + 1]] = t + ((i + 1) - 1)
    BY <1>1, <2>1
  <2>3. Q2[i] \in O /\ tick[Q2[i]] = tick[Q[i + 1]]
    BY <1>2, <2>1, <2>2
  <2> QED BY <1>3, <1>4, <2>2, <2>3
<1> QED BY <1>2, <1>4, <1>5, SeqEqual

----------------------------------------------------------------------------
(* The refinement: Queue and Entered for FifoLock's queue and entered.     *)

Entered == \E c \in Ctx : pc[c] = "cs"

\* The outstanding tickets are matched with their contexts.
LEMMA TicketsMatched ==
  ASSUME IInv
  PROVE  /\ Matched(now_serving, next_ticket, my_ticket, Outstanding)
         /\ Line(Queue, now_serving, next_ticket, my_ticket, Outstanding)
<1>1. Matched(now_serving, next_ticket, my_ticket, Outstanding)
  BY DEF IInv, TypeOK, Window, Matched, Outstanding
<1>2. Queue = InOrder(now_serving, next_ticket, my_ticket, Outstanding)
  BY DEF Queue, Holders, InOrder
<1> QED BY <1>1, <1>2, InOrderLine

\* The same after a step.
LEMMA TicketsMatchedAfter ==
  ASSUME IInv'
  PROVE  /\ Matched(now_serving', next_ticket', my_ticket', Outstanding')
         /\ Line(Queue', now_serving', next_ticket', my_ticket', Outstanding')
<1>1. Matched(now_serving', next_ticket', my_ticket', Outstanding')
  BY DEF IInv, TypeOK, Window, Matched, Outstanding
<1>2. Queue' = InOrder(now_serving', next_ticket', my_ticket', Outstanding')
  BY DEF Queue, Holders, InOrder
<1> QED BY <1>1, <1>2, InOrderLine

\* Tickets and counters as they were: the queue too.
LEMMA QueueStays ==
  ASSUME next_ticket' = next_ticket, now_serving' = now_serving, Outstanding' = Outstanding,
         \A d \in Outstanding : my_ticket'[d] = my_ticket[d]
  PROVE  Queue' = Queue
<1>1. \A k : {d \in Outstanding : my_ticket'[d] = k} = {d \in Outstanding : my_ticket[d] = k}
  OBVIOUS
<1> QED BY <1>1 DEF Queue, Holders

\* A step outside the lock's two counters.
LEMMA QueueQuiet ==
  ASSUME TypeOK, NEW c \in Ctx, NEW to \in PCs \ {"spin", "cs"}, pc[c] \notin {"spin", "cs"},
         pc' = [pc EXCEPT ![c] = to], UNCHANGED <<next_ticket, now_serving, my_ticket>>
  PROVE  Queue' = Queue /\ Entered' = Entered
<1>1. \A d \in Ctx : pc'[d] = IF d = c THEN to ELSE pc[d]
  BY DEF TypeOK
<1>2. Outstanding' = Outstanding
  BY <1>1 DEF Outstanding
<1>3. Entered' = Entered
  BY <1>1 DEF Entered
<1> QED BY <1>2, <1>3, QueueStays

\* Who leaves was alone, and at the head.
LEMMA QueueLeave ==
  ASSUME IInv, IInv', NEW c \in Ctx, pc[c] = "cs", NEW to \in PCs \ {"spin", "cs"},
         pc' = [pc EXCEPT ![c] = to], now_serving' = now_serving + 1,
         UNCHANGED <<next_ticket, my_ticket>>
  PROVE  Entered /\ ~Entered' /\ Queue' = Tail(Queue)
<1>1. \A d \in Ctx : pc'[d] = IF d = c THEN to ELSE pc[d]
  BY DEF IInv, TypeOK
<1>2. c \in Outstanding /\ my_ticket[c] = now_serving
  BY DEF Outstanding, IInv, Holder
<1>3. \A d \in Ctx : pc[d] = "cs" => d = c
  BY <1>2 DEF IInv, Holder, Window, Outstanding
<1>4. Outstanding' = Outstanding \ {c}
  BY <1>1 DEF Outstanding
<1>5. Entered /\ ~Entered'
  BY <1>1, <1>3 DEF Entered
<1>6. /\ Matched(now_serving, next_ticket, my_ticket, Outstanding)
      /\ Line(Queue, now_serving, next_ticket, my_ticket, Outstanding)
  BY TicketsMatched
<1>7. /\ Matched(now_serving', next_ticket, my_ticket, Outstanding')
      /\ Line(Queue', now_serving', next_ticket, my_ticket, Outstanding')
  BY TicketsMatchedAfter
<1>8. Queue' = Tail(Queue)
  BY <1>2, <1>4, <1>6, <1>7, LineShrinks
<1> QED BY <1>5, <1>8

\* Who draws a ticket joins the queue.
LEMMA QueueJoin ==
  ASSUME IInv, IInv', NEW c \in Ctx, pc[c] \notin {"spin", "cs"}, NEW to \in {"spin", "cs"},
         pc' = [pc EXCEPT ![c] = to], next_ticket' = next_ticket + 1, now_serving' = now_serving,
         my_ticket' = [my_ticket EXCEPT ![c] = next_ticket]
  PROVE  Joins(Queue, Queue', c)
<1>1. \A d \in Ctx : /\ pc'[d] = (IF d = c THEN to ELSE pc[d])
                     /\ my_ticket'[d] = IF d = c THEN next_ticket ELSE my_ticket[d]
  BY DEF IInv, TypeOK
<1>2. Outstanding' = Outstanding \cup {c} /\ c \notin Outstanding
  BY <1>1 DEF Outstanding
<1>3. my_ticket'[c] = next_ticket /\ \A d \in Outstanding : my_ticket'[d] = my_ticket[d]
  BY <1>1, <1>2 DEF Outstanding
<1>4. /\ Matched(now_serving, next_ticket, my_ticket, Outstanding)
      /\ Line(Queue, now_serving, next_ticket, my_ticket, Outstanding)
  BY TicketsMatched
<1>5. /\ Matched(now_serving, next_ticket', my_ticket', Outstanding')
      /\ Line(Queue', now_serving, next_ticket', my_ticket', Outstanding')
  BY TicketsMatchedAfter
<1> DEFINE n2 == next_ticket'
           tick2 == my_ticket'
           O2 == Outstanding'
           Q2 == Queue'
<1>6. /\ Matched(now_serving, n2, tick2, O2) /\ Line(Q2, now_serving, n2, tick2, O2)
      /\ n2 = next_ticket + 1 /\ O2 = Outstanding \cup {c} /\ tick2[c] = next_ticket
      /\ \A d \in Outstanding : tick2[d] = my_ticket[d]
  BY <1>2, <1>3, <1>5
<1> HIDE DEF n2, tick2, O2, Q2
<1>7. Joins(Queue, Q2, c)
  BY <1>2, <1>4, <1>6, LineGrows
<1> QED BY <1>7 DEF Q2

\* Every step of the lock is one of the queue, or none.
LEMMA FifoStep ==
  ASSUME IInv, IInv', [Next]_vars
  PROVE  [Fifo!LockNext]_(Fifo!lockVars)
<1> DEFINE Stays == Queue' = Queue /\ Entered' = Entered
<1>0. /\ next_ticket \in Nat /\ now_serving \in Nat /\ pc \in [Ctx -> PCs]
      /\ \A d \in Ctx : my_ticket[d] \in Nat
      /\ TypeOK /\ Window /\ Holder /\ TryLag
      /\ Line(Queue, now_serving, next_ticket, my_ticket, Outstanding)
  BY TicketsMatched DEF IInv, TypeOK
<1>1. Stays => [Fifo!LockNext]_(Fifo!lockVars)
  BY DEF Fifo!lockVars, Entered
<1>2. ASSUME NEW c \in Ctx, FetchAdd(c) PROVE [Fifo!LockNext]_(Fifo!lockVars)
  <2>1. /\ pc[c] = "lock" /\ pc' = [pc EXCEPT ![c] = "spin"]
        /\ my_ticket' = [my_ticket EXCEPT ![c] = next_ticket]
        /\ next_ticket' = next_ticket + 1 /\ now_serving' = now_serving
    BY <1>2 DEF FetchAdd, Goto
  <2>2. Joins(Queue, Queue', c)
    BY <2>1, QueueJoin
  <2>3. Entered' = Entered
    <3>1. \A d \in Ctx : pc'[d] = IF d = c THEN "spin" ELSE pc[d]
      BY <1>0, <2>1
    <3> QED BY <2>1, <3>1 DEF Entered
  <2>4. Fifo!Request(c)
    BY <2>2, <2>3 DEF Fifo!Request, Joins, Entered
  <2> QED BY <2>4 DEF Fifo!LockNext
<1>3. ASSUME NEW c \in Ctx, SpinAcquire(c) PROVE [Fifo!LockNext]_(Fifo!lockVars)
  <2>1. /\ pc[c] = "spin" /\ pc' = [pc EXCEPT ![c] = "cs"]
        /\ u32(now_serving) = u32(my_ticket[c])
        /\ UNCHANGED <<next_ticket, now_serving, my_ticket>>
    BY <1>3 DEF SpinAcquire, Goto
  <2>2. \A d \in Ctx : pc'[d] = IF d = c THEN "cs" ELSE pc[d]
    BY <1>0, <2>1
  <2>3. Outstanding' = Outstanding /\ c \in Outstanding
    BY <2>1, <2>2 DEF Outstanding
  <2>4. Queue' = Queue
    BY <2>1, <2>3, QueueStays
  <2>5. Entered'
    BY <2>2 DEF Entered
  <2>6. ~Entered
    <3>1. \A d \in Ctx : pc'[d] = "cs" => d = c
      <4>1. Holder' /\ Window'
        BY DEF IInv
      <4> QED BY <2>2, <4>1 DEF Holder, Window, Outstanding
    <3> QED BY <2>1, <2>2, <3>1 DEF Entered
  <2>7. Queue # <<>>
    <3>1. next_ticket - now_serving > 0
      BY <1>0, <2>3 DEF Window
    <3> QED BY <1>0, <3>1 DEF Line
  <2>8. Fifo!Enter
    BY <2>4, <2>5, <2>6, <2>7 DEF Fifo!Enter, Entered
  <2> QED BY <2>8 DEF Fifo!LockNext
<1>4. ASSUME NEW c \in Ctx, TryLoad(c) PROVE [Fifo!LockNext]_(Fifo!lockVars)
  <2>1. /\ pc[c] = "load" /\ pc' = [pc EXCEPT ![c] = "cas"]
        /\ my_ticket' = [my_ticket EXCEPT ![c] = now_serving]
        /\ UNCHANGED <<next_ticket, now_serving>>
    BY <1>4 DEF TryLoad, Goto
  <2>2. \A d \in Ctx : /\ pc'[d] = (IF d = c THEN "cas" ELSE pc[d])
                       /\ d # c => my_ticket'[d] = my_ticket[d]
    BY <1>0, <2>1 DEF TypeOK
  <2>3. Outstanding' = Outstanding /\ \A d \in Outstanding : my_ticket'[d] = my_ticket[d]
    BY <2>1, <2>2 DEF Outstanding
  <2>4. Stays
    BY <2>1, <2>2, <2>3, QueueStays DEF Entered
  <2> QED BY <1>1, <2>4
<1>5. ASSUME NEW c \in Ctx, TryCasTakes(c) PROVE [Fifo!LockNext]_(Fifo!lockVars)
  <2>1. /\ pc[c] = "cas" /\ pc' = [pc EXCEPT ![c] = "cs"]
        /\ u32(next_ticket) = u32(my_ticket[c]) /\ next_ticket' = next_ticket + 1
        /\ UNCHANGED <<now_serving, my_ticket>>
    BY <1>5 DEF TryCasTakes, Goto
  <2>2. /\ my_ticket[c] <= now_serving /\ now_serving <= next_ticket
        /\ next_ticket - my_ticket[c] < TicketMod
    BY <1>0, <2>1 DEF TryLag, Window
  <2>3. my_ticket[c] = next_ticket
    BY <1>0, <2>1, <2>2, ModUnique
  <2>4. next_ticket = now_serving
    BY <1>0, <2>2, <2>3
  <2>5. my_ticket' = [my_ticket EXCEPT ![c] = next_ticket]
    BY <1>0, <2>1, <2>3 DEF TypeOK
  <2>6. Joins(Queue, Queue', c)
    BY <2>1, <2>5, QueueJoin
  <2>7. Queue = <<>>
    <3>1. next_ticket - now_serving = 0
      BY <1>0, <2>4
    <3> QED BY <1>0, <3>1 DEF Line
  <2>8. Queue' = <<c>>
    BY <2>6, <2>7 DEF Joins
  <2>9. Entered'
    <3>1. pc'[c] = "cs"
      BY <1>0, <2>1
    <3> QED BY <3>1 DEF Entered
  <2>10. Fifo!TryEnter(c)
    BY <2>7, <2>8, <2>9 DEF Fifo!TryEnter, Entered
  <2> QED BY <2>10 DEF Fifo!LockNext
<1>6. ASSUME NEW c \in Ctx, TryCasFails(c) PROVE [Fifo!LockNext]_(Fifo!lockVars)
  BY <1>0, <1>1, <1>6, QueueQuiet DEF TryCasFails, Goto, PCs
<1>7. ASSUME NEW c \in Ctx, NEW to \in PCs \ {"spin", "cs"}, Goto(c, "cs", to),
             now_serving' = now_serving + 1, UNCHANGED <<next_ticket, my_ticket>>
      PROVE  [Fifo!LockNext]_(Fifo!lockVars)
  <2>1. Entered /\ ~Entered' /\ Queue' = Tail(Queue)
    BY <1>7, QueueLeave DEF Goto
  <2>2. Fifo!Leave
    BY <2>1 DEF Fifo!Leave, Entered
  <2> QED BY <2>2 DEF Fifo!LockNext
<1>8. ASSUME NEW cpu \in CPU, UnlockIrq(cpu) \/ UnlockTask(cpu)
      PROVE  [Fifo!LockNext]_(Fifo!lockVars)
  BY <1>7, <1>8 DEF UnlockIrq, UnlockTask, PCs, Irq, Task, Ctx
<1>9. ASSUME NEW cpu \in CPU, RestoreFlags(cpu) \/ SaveFlags(cpu) \/ IrqEntry(cpu)
      PROVE  [Fifo!LockNext]_(Fifo!lockVars)
  BY <1>0, <1>1, <1>9, QueueQuiet
     DEF RestoreFlags, SaveFlags, IrqEntry, Goto, PCs, Irq, Task, Ctx
<1>10. CASE UNCHANGED vars
  <2>1. Outstanding' = Outstanding
    BY <1>10 DEF vars, Outstanding
  <2>2. Stays
    BY <1>10, <2>1, QueueStays DEF vars, Entered
  <2> QED BY <1>1, <2>2
<1> QED
  BY <1>2, <1>3, <1>4, <1>5, <1>6, <1>8, <1>9, <1>10 DEF Next, Step, Ctx

(***************************************************************************)
(* The ticket lock is a first-come-first-served lock: contexts, of         *)
(* whatever CPU and whether task or handler, enter in the order in which   *)
(* they drew their tickets, and spin_trylock succeeds only on a lock that  *)
(* nobody holds or waits for.                                              *)
(***************************************************************************)
THEOREM FirstComeFirstServedHolds == Spec => FirstComeFirstServed
<1>1. Init => Fifo!LockInit
  <2> SUFFICES ASSUME Init PROVE Queue = <<>> /\ ~Entered
    BY DEF Fifo!LockInit, Entered
  <2>1. ~Entered
    BY DEF Init, Entered
  <2>2. next_ticket - now_serving = 0
    BY DEF Init
  <2>3. Queue = <<>>
    BY <2>2 DEF Queue
  <2> QED BY <2>1, <2>3
<1>2. IInv /\ IInv' /\ [Next]_vars => [Fifo!LockNext]_(Fifo!lockVars)
  BY FifoStep
<1>3. QED
  BY <1>1, <1>2, Inductive, PTL DEF Spec, FirstComeFirstServed, Fifo!LockSpec
=============================================================================
