-------------------------- MODULE SupervisionProofs --------------------------
(***************************************************************************)
(* The two supervisors of services.  Kindle keeps track of its children,   *)
(* for any number of services, any policies and dependencies, and any      *)
(* interleaving of its main program with the SIGCHLD handler.  The service *)
(* monitor starts any set of services in dependency order.                 *)
(***************************************************************************)
EXTENDS Kindle, Supervision, TLAPS

----------------------------------------------------------------------------
(* Kindle *)

\* Nothing has been forked yet.
LEMMA InitInv == Init => IInv
<1> SUFFICES ASSUME Init PROVE IInv
  OBVIOUS
<1>1. 1 \in Service
  BY KindleAssumption DEF Service
<1>2. TypeOK
  BY <1>1 DEF Init, TypeOK, PCs
<1>3. StartInv /\ ChildrenTracked
  BY DEF Init, StartInv, ChildrenTracked, Exists
<1> QED BY <1>2, <1>3 DEF IInv

\* Leaving start_service: the cursor stays within services[].
LEMMA AdvanceType == ASSUME TypeOK, Advance
                     PROVE  /\ pc' \in {"next", "sleep"} /\ child' = 0
                            /\ cur' \in Service
                            /\ pc' = "next" => cur' = cur + 1
                            /\ pc' = "sleep" => cur' = cur
  BY KindleAssumption DEF Advance, TypeOK, Service

\* Every step of the main program keeps the invariant.
LEMMA MainInv == ASSUME IInv, MainStep PROVE IInv'
<1> USE KindleAssumption DEF IInv
<1>1. CASE consider
  <2>1. CASE Wanted(cur)
    <3>1. /\ pc = "next" /\ pc' = "fork" /\ cur' = cur
          /\ UNCHANGED <<state, pid, started, child, booting, proc, owner, sigchld>>
      BY <1>1, <2>1 DEF consider, svc
    <3>2. TypeOK'
      BY <3>1 DEF TypeOK, PCs
    <3>3. ChildrenTracked'
      BY <3>1 DEF ChildrenTracked, BeingRecorded
    <3>4. \A p \in Pids : Exists(p) => owner[p] # cur
      <4>1. CASE booting
        BY <3>1, <4>1 DEF StartInv, TypeOK, Service, Exists
      <4>2. CASE ~booting
        <5>1. state[cur] # "RUNNING"
          BY <2>1, <4>2 DEF Wanted, ShouldStart
        <5> QED BY <5>1, <3>1 DEF ChildrenTracked, BeingRecorded, Exists
      <4> QED BY <4>1, <4>2
    <3>5. StartInv'
      BY <3>1, <3>4 DEF StartInv, Exists
    <3> QED BY <3>2, <3>3, <3>5
  <2>2. CASE ~Wanted(cur)
    <3>1. Advance /\ pc = "next"
      BY <1>1, <2>2 DEF consider
    <3>2. UNCHANGED <<state, pid, started, booting, proc, owner, sigchld>>
      BY <1>1 DEF consider, svc
    <3>3. TypeOK'
      BY <3>1, <3>2, AdvanceType DEF TypeOK, PCs
    <3>4. ChildrenTracked'
      BY <3>1, <3>2, AdvanceType DEF ChildrenTracked, BeingRecorded
    <3>5. StartInv'
      BY <3>1, <3>2, AdvanceType DEF StartInv, Exists, TypeOK, Service
    <3> QED BY <3>3, <3>4, <3>5
  <2> QED BY <2>1, <2>2
<1>2. CASE next_round
  <2>1. /\ pc = "sleep" /\ pc' = "next" /\ cur' = 1 /\ booting' = FALSE
        /\ UNCHANGED <<state, pid, started, child, proc, owner, sigchld>>
    BY <1>2 DEF next_round, svc
  <2>5. 1 \in Service
    BY DEF Service
  <2>2. TypeOK'
    BY <2>1, <2>5 DEF TypeOK, PCs
  <2>3. ChildrenTracked'
    BY <2>1 DEF ChildrenTracked, BeingRecorded
  <2>4. StartInv'
    BY <2>1 DEF StartInv, Exists
  <2> QED BY <2>2, <2>3, <2>4
<1>3. CASE fork_fails
  <2>1. /\ pc = "fork" /\ Advance
        /\ state' = [state EXCEPT ![cur] = "FAILED"]
        /\ UNCHANGED <<pid, started, booting, proc, owner, sigchld>>
    BY <1>3 DEF fork_fails
  <2>2. TypeOK'
    BY <2>1, AdvanceType DEF TypeOK, PCs
  <2>3. ChildrenTracked'
    BY <2>1, AdvanceType DEF ChildrenTracked, BeingRecorded, StartInv, Exists, TypeOK
  <2>4. StartInv'
    BY <2>1, AdvanceType DEF StartInv, Exists, TypeOK, Service
  <2> QED BY <2>2, <2>3, <2>4
<1>4. ASSUME NEW p \in Pids, fork(p) PROVE IInv'
  <2>1. /\ pc = "fork" /\ proc[p] = "none" /\ pc' = "set_pid" /\ child' = p
        /\ proc' = [proc EXCEPT ![p] = "alive"]
        /\ owner' = [owner EXCEPT ![p] = cur]
        /\ UNCHANGED <<state, pid, started, cur, booting, sigchld>>
    BY <1>4 DEF fork, FreshPid, Unused, svc
  <2>2. TypeOK'
    BY <2>1 DEF TypeOK, PCs
  <2>3. ChildrenTracked'
    BY <2>1 DEF ChildrenTracked, BeingRecorded, TypeOK
  <2>4. StartInv'
    BY <2>1 DEF StartInv, Exists, TypeOK, Service
  <2> QED BY <2>2, <2>3, <2>4
<1>5. CASE set_pid
  <2>1. /\ pc = "set_pid" /\ pc' = "set_state"
        /\ pid' = [pid EXCEPT ![cur] = child]
        /\ UNCHANGED <<state, started, cur, child, booting, proc, owner, sigchld>>
    BY <1>5 DEF set_pid
  <2>2. TypeOK'
    BY <2>1 DEF TypeOK, PCs
  <2>3. ChildrenTracked'
    BY <2>1 DEF ChildrenTracked, BeingRecorded, TypeOK, StartInv, Exists
  <2>4. StartInv'
    BY <2>1 DEF StartInv, Exists, TypeOK
  <2> QED BY <2>2, <2>3, <2>4
<1>6. CASE set_state
  <2>1. /\ pc = "set_state" /\ pc' = "check"
        /\ state' = [state EXCEPT ![cur] = "RUNNING"]
        /\ started' = [started EXCEPT ![cur] = TRUE]
        /\ UNCHANGED <<pid, cur, child, booting, proc, owner, sigchld>>
    BY <1>6 DEF set_state
  <2>2. TypeOK'
    BY <2>1 DEF TypeOK, PCs
  <2>3. ChildrenTracked'
    BY <2>1 DEF ChildrenTracked, BeingRecorded, TypeOK, StartInv, Exists
  <2>4. StartInv'
    BY <2>1 DEF StartInv, Exists, TypeOK
  <2> QED BY <2>2, <2>3, <2>4
<1>7. CASE check_dead
  <2>1. /\ pc = "check" /\ Advance
        /\ proc' = [proc EXCEPT ![child] = "none"]
        /\ owner' = [owner EXCEPT ![child] = 0]
        /\ pid' = [pid EXCEPT ![cur] = 0]
        /\ state' = [state EXCEPT ![cur] = "FAILED"]
        /\ UNCHANGED <<started, booting, sigchld>>
    BY <1>7 DEF check_dead
  <2>2. TypeOK'
    BY <2>1, AdvanceType DEF TypeOK, PCs
  <2>3. ChildrenTracked'
    BY <2>1, AdvanceType DEF ChildrenTracked, BeingRecorded, TypeOK, StartInv, Exists
  <2>4. StartInv'
    BY <2>1, AdvanceType DEF StartInv, Exists, TypeOK, Service
  <2> QED BY <2>2, <2>3, <2>4
<1>8. CASE check_ok
  <2>1. /\ pc = "check" /\ Advance
        /\ UNCHANGED <<state, pid, started, booting, proc, owner, sigchld>>
    BY <1>8 DEF check_ok, svc
  <2>2. TypeOK'
    BY <2>1, AdvanceType DEF TypeOK, PCs
  <2>3. ChildrenTracked'
    BY <2>1, AdvanceType DEF ChildrenTracked, BeingRecorded
  <2>4. StartInv'
    BY <2>1, AdvanceType DEF StartInv, Exists, TypeOK, Service
  <2> QED BY <2>2, <2>3, <2>4
<1> QED BY <1>1, <1>2, <1>3, <1>4, <1>5, <1>6, <1>7, <1>8 DEF MainStep

\* The handler forgets exactly the children it reaps.
LEMMA HandlerInv == ASSUME IInv, sigchld_handler PROVE IInv'
<1> USE DEF IInv
<1> DEFINE Exited == UNION {RecordOf(p) : p \in Dead}
<1>1. /\ sigchld' = FALSE
      /\ proc' = [p \in Pids |-> IF p \in Dead THEN "none" ELSE proc[p]]
      /\ owner' = [p \in Pids |-> IF p \in Dead THEN 0 ELSE owner[p]]
      /\ pid' = [i \in Service |-> IF i \in Exited THEN 0 ELSE pid[i]]
      /\ state' = [i \in Service |->
                     IF i \notin Exited THEN state[i]
                     ELSE IF proc[pid[i]] = "exit0" THEN "STOPPED" ELSE "FAILED"]
      /\ UNCHANGED <<started, pc, cur, child, booting>>
  BY DEF sigchld_handler, main
<1>2. \A i \in Exited : i \in Service /\ pid[i] \in Dead
  BY DEF RecordOf
<1> HIDE DEF Exited
<1>3. TypeOK'
  BY <1>1 DEF TypeOK
<1>4. \A p \in Pids : Exists(p)' => Exists(p) /\ p \notin Dead /\ owner'[p] = owner[p]
  BY <1>1 DEF Exists
<1>5. ChildrenTracked'
  <2> SUFFICES ASSUME NEW p \in Pids, Exists(p)', ~BeingRecorded(p)'
               PROVE  pid'[owner'[p]] = p /\ state'[owner'[p]] = "RUNNING"
    BY DEF ChildrenTracked, Exists
  <2>1. Exists(p) /\ p \notin Dead /\ owner'[p] = owner[p]
    BY <1>4
  <2>2. ~BeingRecorded(p)
    BY <1>1 DEF BeingRecorded
  <2>3. pid[owner[p]] = p /\ state[owner[p]] = "RUNNING" /\ owner[p] \in Service
    BY <2>1, <2>2 DEF ChildrenTracked, StartInv, Exists
  <2>4. owner[p] \notin Exited
    BY <2>1, <2>3, <1>2
  <2> QED BY <2>1, <2>3, <2>4, <1>1
<1>6. StartInv'
  <2>1. pc = "set_state" /\ Exists(child)' => pid'[cur] = child
    <3> SUFFICES ASSUME pc = "set_state", Exists(child)'
                 PROVE  pid'[cur] = child
      OBVIOUS
    <3>1. child \in Pids /\ Exists(child) /\ child \notin Dead
      BY <1>4, <1>1 DEF StartInv
    <3>2. pid[cur] = child
      BY <3>1 DEF StartInv
    <3> QED BY <3>1, <3>2, <1>1, <1>2 DEF TypeOK
  <2>2. child' = child /\ (child \in Pids => (Exists(child)' => Exists(child)))
    BY <1>1, <1>4
  <2> QED BY <2>1, <2>2, <1>1, <1>4 DEF StartInv, Exists
<1> QED BY <1>3, <1>5, <1>6

\* A child that dies stays on record until it is reaped.
LEMMA ExitInv == ASSUME IInv, NEW p \in Pids, NEW code \in {"exit0", "exit1"}, exit(p, code)
                 PROVE  IInv'
<1>1. /\ proc[p] = "alive" /\ proc' = [proc EXCEPT ![p] = code] /\ sigchld' = TRUE
      /\ UNCHANGED <<state, pid, started, pc, cur, child, booting, owner>>
  BY DEF exit, svc, main
<1>2. TypeOK'
  BY <1>1 DEF IInv, TypeOK
<1>3. \A q \in Pids : Exists(q)' <=> Exists(q)
  BY <1>1 DEF Exists, IInv, TypeOK
<1>4. ChildrenTracked'
  BY <1>1, <1>3 DEF IInv, ChildrenTracked, BeingRecorded, Exists
<1>5. StartInv'
  <2>1. child' = child /\ (child \in Pids => (Exists(child)' <=> Exists(child)))
    BY <1>1, <1>3
  <2> QED BY <2>1, <1>1, <1>3 DEF IInv, StartInv
<1> QED BY <1>2, <1>4, <1>5 DEF IInv

\* IInv holds in every reachable state.
THEOREM Inductive == Spec => []IInv
<1>1. ASSUME IInv, [Next]_vars PROVE IInv'
  <2>1. CASE MainStep BY <1>1, <2>1, MainInv
  <2>2. CASE sigchld_handler BY <1>1, <2>2, HandlerInv
  <2>3. ASSUME NEW p \in Pids, NEW code \in {"exit0", "exit1"}, exit(p, code)
        PROVE  IInv'
    BY <1>1, <2>3, ExitInv
  <2>4. CASE UNCHANGED vars
    BY <1>1, <2>4 DEF vars, svc, main, IInv, TypeOK, StartInv, ChildrenTracked,
       BeingRecorded, Exists
  <2> QED BY <1>1, <2>1, <2>2, <2>3, <2>4 DEF Next
<1> QED BY <1>1, InitInv, PTL DEF Spec

(***************************************************************************)
(* The records of Kindle are well formed whatever the handler interrupts.  *)
(***************************************************************************)
THEOREM TypeCorrect == Spec => []TypeOK
  BY Inductive, PTL DEF IInv

(***************************************************************************)
(* supervise never loses track of a living service (ChildrenTracked).      *)
(***************************************************************************)
THEOREM ChildrenTrackedHolds == Spec => []ChildrenTracked
  BY Inductive, PTL DEF IInv

(***************************************************************************)
(* No service ever has two processes (OneInstance).                        *)
(***************************************************************************)
THEOREM OneInstanceHolds == Spec => []OneInstance
<1>1. IInv => OneInstance
  <2> SUFFICES ASSUME IInv, NEW p \in Pids, NEW q \in Pids,
                      Exists(p), Exists(q), owner[p] = owner[q]
               PROVE  p = q
    BY DEF OneInstance, Exists
  <2>1. CASE BeingRecorded(p) \/ BeingRecorded(q)
    BY <2>1 DEF IInv, StartInv, BeingRecorded
  <2>2. CASE ~BeingRecorded(p) /\ ~BeingRecorded(q)
    BY <2>2 DEF IInv, ChildrenTracked, Exists
  <2> QED BY <2>1, <2>2
<1> QED BY <1>1, Inductive, PTL

----------------------------------------------------------------------------
(* The service monitor *)

\* Definitions and their dependencies are sequences.
LEMMA DefsFacts ==
  ASSUME NEW d \in ServiceDirs
  PROVE  /\ Len(d) \in Nat
         /\ \A i \in Index(d) : Len(d[i].depends) \in Nat
<1> DEFINE Def == [name : STRING, restart : STRING, depends : Seq(STRING)]
<1>1. d \in Seq(Def)
  BY SvcmonAssumption
<1> HIDE DEF Def
<1>2. \A i \in Index(d) : d[i] \in Def
  BY <1>1 DEF Index
<1>3. ASSUME NEW i \in Index(d) PROVE Len(d[i].depends) \in Nat
  <2>1. d[i].depends \in Seq(STRING)
    BY <1>2 DEF Def
  <2> QED BY <2>1
<1> QED BY <1>1, <1>3

\* A name leads to at most one definition.
LEMMA OneIndex ==
  ASSUME NEW d \in ServiceDirs, NEW name
  PROVE  /\ IdxOf(d, name) \subseteq Index(d)
         /\ \A i, j \in IdxOf(d, name) : i = j
<1>1. Index(d) \subseteq Nat
  BY DefsFacts DEF Index
<1> QED BY <1>1 DEF IdxOf

\* The dependencies of i, one by one.
LEMMA DepsFacts ==
  ASSUME NEW d \in ServiceDirs, NEW i
  PROVE  /\ Deps(d, i) \subseteq Index(d)
         /\ \A n \in 1 .. Len(d[i].depends) : IdxOf(d, d[i].depends[n]) \subseteq Deps(d, i)
         /\ \A j \in Deps(d, i) : \E n \in 1 .. Len(d[i].depends) :
              j \in IdxOf(d, d[i].depends[n])
  BY OneIndex DEF Deps

\* Needs holds of direct dependencies and goes on along them.
LEMMA NeedsFacts ==
  ASSUME NEW d, NEW i, NEW j
  PROVE  /\ j \in Deps(d, i) => Needs(d, i, j)
         /\ \A m : Needs(d, i, m) /\ j \in Deps(d, m) => Needs(d, i, j)
  BY Zenon DEF Needs

\* Nothing is sorted or started at the beginning.
LEMMA SvcInit == ASSUME InitSvc PROVE SortInv
<1>1. /\ defs \in ServiceDirs /\ order = <<>> /\ visited = {} /\ calls = <<>>
      /\ mon = [pc |-> "topo_sort", i |-> 1] /\ starts = <<>>
  BY DEF InitSvc
<1>2. Len(defs) \in Nat
  BY <1>1, DefsFacts
<1>3. VisitInv /\ MonInv
  BY <1>1, <1>2 DEF VisitInv, MonInv, Sorted, Calling, Index
<1>4. PathInv /\ OrderInv
  BY <1>1 DEF PathInv, OrderInv
<1>5. StartsInv
  BY <1>1 DEF StartsInv
<1> QED BY <1>3, <1>4, <1>5 DEF SortInv

\* Steps that leave the sort alone.
LEMMA SortKept ==
  ASSUME SortInv, UNCHANGED <<defs, order, visited, calls>>
  PROVE  VisitInv' /\ PathInv' /\ OrderInv'
<1>1. Sorted' = Sorted /\ Calling' = Calling
  BY DEF Sorted, Calling
<1>2. VisitInv'
  BY <1>1 DEF SortInv, VisitInv
<1>3. PathInv'
  BY <1>1 DEF SortInv, PathInv
<1>4. OrderInv'
  BY DEF SortInv, OrderInv
<1> QED BY <1>2, <1>3, <1>4

\* Steps that leave the sort and the starts alone.
LEMMA SvcStutter ==
  ASSUME SortInv, UNCHANGED <<defs, order, visited, calls, mon, starts>>
  PROVE  SortInv'
<1>1. VisitInv' /\ PathInv' /\ OrderInv'
  BY SortKept
<1>2. MonInv'
  BY DEF SortInv, MonInv
<1>3. StartsInv'
  BY DEF SortInv, StartsInv
<1> QED BY <1>1, <1>2, <1>3 DEF SortInv

\* What is visited are services.
LEMMA VisitedIndex == ASSUME VisitInv PROVE visited \subseteq Index(defs)
<1> DEFINE Frame == [idx : Index(defs), k : Nat \ {0}]
<1>1. order \in Seq(Index(defs)) /\ calls \in Seq(Frame)
  BY DEF VisitInv
<1>2. \A f \in Frame : f.idx \in Index(defs)
  OBVIOUS
<1> HIDE DEF Frame
<1>3. Sorted \subseteq Index(defs)
  BY <1>1 DEF Sorted
<1>4. Calling \subseteq Index(defs)
  BY <1>1, <1>2 DEF Calling
<1> QED BY <1>3, <1>4 DEF VisitInv

\* A new call, on top of calls with the indices there were.
LEMMA Called ==
  ASSUME VisitInv, NEW idx \in Index(defs) \ visited, NEW under,
         under \in Seq([idx : Index(defs), k : Nat \ {0}]), Len(under) = Len(calls),
         \A p \in 1 .. Len(calls) : under[p].idx = calls[p].idx,
         calls' = Append(under, [idx |-> idx, k |-> 1])
  PROVE  /\ calls' \in Seq([idx : Index(defs), k : Nat \ {0}])
         /\ Len(calls') = Len(calls) + 1 /\ Len(calls) \in Nat
         /\ \A p \in 1 .. Len(calls) : calls'[p] = under[p] /\ calls'[p].idx = calls[p].idx
         /\ calls'[Len(calls) + 1].idx = idx /\ calls'[Len(calls) + 1].k = 1
         /\ \A p \in 1 .. Len(calls') : p \in 1 .. Len(calls) \/ p = Len(calls) + 1
         /\ Calling' = Calling \cup {idx}
<1> DEFINE Frame == [idx : Index(defs), k : Nat \ {0}]
           new == [idx |-> idx, k |-> 1]
<1>1. new \in Frame /\ new.idx = idx /\ new.k = 1
  OBVIOUS
<1> HIDE DEF Frame, new
<1>2. calls \in Seq(Frame) /\ under \in Seq(Frame) /\ calls' = Append(under, new)
  BY DEF VisitInv, MonInv, Frame, new
<1>3. /\ calls' \in Seq(Frame) /\ Len(calls') = Len(calls) + 1 /\ Len(calls) \in Nat
      /\ \A p \in 1 .. Len(calls) : calls'[p] = under[p]
      /\ calls'[Len(calls) + 1] = new
  BY <1>1, <1>2
<1>4. \A p \in 1 .. Len(calls') : p \in 1 .. Len(calls) \/ p = Len(calls) + 1
  BY <1>3
<1>5. \A p \in 1 .. Len(calls) : p \in 1 .. Len(calls')
  BY <1>3
<1>6. Len(calls) + 1 \in 1 .. Len(calls')
  BY <1>3
<1>7. Calling' = Calling \cup {idx}
  <2>1. ASSUME NEW x \in Calling' PROVE x \in Calling \cup {idx}
    <3>1. PICK p \in 1 .. Len(calls') : x = calls'[p].idx
      BY <2>1 DEF Calling
    <3> QED BY <3>1, <1>1, <1>3, <1>4 DEF Calling
  <2>2. ASSUME NEW x \in Calling PROVE x \in Calling'
    <3>1. PICK p \in 1 .. Len(calls) : x = calls[p].idx
      BY <2>2 DEF Calling
    <3>2. p \in 1 .. Len(calls') /\ x = calls'[p].idx
      BY <3>1, <1>3, <1>5
    <3> QED BY <3>2 DEF Calling
  <2>3. idx \in Calling'
    BY <1>1, <1>3, <1>6 DEF Calling
  <2> QED BY <2>1, <2>2, <2>3
<1> QED BY <1>1, <1>3, <1>4, <1>7 DEF Frame

\* The parts of the invariant that speak of the calls, after such a call.
LEMMA CalledInv ==
  ASSUME SortInv, NEW idx \in Index(defs) \ visited, NEW under,
         under \in Seq([idx : Index(defs), k : Nat \ {0}]), Len(under) = Len(calls),
         \A p \in 1 .. Len(calls) : under[p].idx = calls[p].idx,
         \A p \in 1 .. Len(calls) : p < Len(calls) => under[p].k = calls[p].k,
         calls # <<>> =>
           LET c == calls[Len(calls)]
           IN  /\ under[Len(calls)].k = c.k + 1
               /\ c.k \in 1 .. Len(defs[c.idx].depends)
               /\ idx \in IdxOf(defs, defs[c.idx].depends[c.k]),
         calls' = Append(under, [idx |-> idx, k |-> 1]),
         visited' = visited \cup {idx}, defs' = defs, order' = order
  PROVE  /\ calls' \in Seq([idx : Index(defs), k : Nat \ {0}])
         /\ visited' = Sorted' \cup Calling'
         /\ \A k \in 1 .. Len(order') : order'[k] \notin Calling'
         /\ \A p, q \in 1 .. Len(calls') : calls'[p].idx = calls'[q].idx => p = q
         /\ PathInv'
<1> DEFINE n == Len(calls)
<1>1. /\ calls' \in Seq([idx : Index(defs), k : Nat \ {0}])
      /\ Len(calls') = n + 1 /\ n \in Nat
      /\ \A p \in 1 .. n : calls'[p] = under[p] /\ calls'[p].idx = calls[p].idx
      /\ calls'[n + 1].idx = idx /\ calls'[n + 1].k = 1
      /\ \A p \in 1 .. Len(calls') : p \in 1 .. n \/ p = n + 1
      /\ Calling' = Calling \cup {idx}
  BY Called DEF SortInv
<1>2. Sorted' = Sorted
  BY DEF Sorted
<1>3. visited = Sorted \cup Calling
  BY DEF SortInv, VisitInv, MonInv
<1>4. visited' = Sorted' \cup Calling'
  BY <1>1, <1>2, <1>3
<1>5. \A k \in 1 .. Len(order') : order'[k] \notin Calling'
  <2>1. \A k \in 1 .. Len(order) : order[k] # idx
    BY <1>3 DEF Sorted
  <2> QED BY <2>1, <1>1 DEF SortInv, VisitInv, MonInv
<1>6. \A p \in 1 .. n : calls[p].idx # idx
  BY <1>3 DEF Calling
<1>7. \A p, q \in 1 .. Len(calls') : calls'[p].idx = calls'[q].idx => p = q
  <2>1. ASSUME NEW p \in 1 .. n, NEW q \in 1 .. n, calls'[p].idx = calls'[q].idx
        PROVE  p = q
    <3>1. calls[p].idx = calls[q].idx
      BY <2>1, <1>1
    <3> QED BY <3>1 DEF SortInv, VisitInv, MonInv
  <2>2. \A p \in 1 .. n : calls'[p].idx # calls'[n + 1].idx
    BY <1>1, <1>6
  <2> QED BY <2>1, <2>2, <1>1
<1>8. calls # <<>> <=> n \in 1 .. n
  <2>1. calls \in Seq([idx : Index(defs), k : Nat \ {0}])
    BY DEF SortInv, VisitInv, MonInv
  <2> QED BY <2>1
<1>9. ASSUME NEW p \in 1 .. n PROVE Needs(defs, calls[p].idx, idx)
  <2>1. n \in 1 .. n /\ calls # <<>>
    BY <1>1, <1>8
  <2> DEFINE c == calls[n]
  <2>2. /\ c.k \in 1 .. Len(defs[c.idx].depends)
        /\ idx \in IdxOf(defs, defs[c.idx].depends[c.k])
    BY <2>1
  <2>3. defs \in ServiceDirs
    BY DEF SortInv, VisitInv, MonInv
  <2>4. idx \in Deps(defs, c.idx)
    BY <2>2, <2>3, DepsFacts
  <2>5. CASE p = n
    BY <2>4, <2>5, NeedsFacts
  <2>6. CASE p < n
    <3>1. Needs(defs, calls[p].idx, c.idx)
      BY <2>1, <2>6 DEF SortInv, PathInv
    <3> QED BY <3>1, <2>4, NeedsFacts
  <2> QED BY <2>5, <2>6, <1>1
<1>10. ASSUME NEW p \in 1 .. Len(calls'), NEW q \in 1 .. Len(calls'), p < q
       PROVE  Needs(defs', calls'[p].idx, calls'[q].idx)
  <2>1. p \in 1 .. n
    BY <1>1, <1>10
  <2>2. CASE q \in 1 .. n
    BY <2>1, <2>2, <1>1, <1>10 DEF SortInv, PathInv
  <2>3. CASE q = n + 1
    BY <2>1, <2>3, <1>1, <1>9
  <2> QED BY <2>2, <2>3, <1>1
<1>11. ASSUME NEW q \in 1 .. Len(calls'),
              NEW m \in 1 .. Len(defs'[calls'[q].idx].depends), m < calls'[q].k,
              NEW j \in IdxOf(defs', defs'[calls'[q].idx].depends[m])
       PROVE  j \in Sorted' \/ \E p \in 1 .. Len(calls') : p <= q + 1 /\ calls'[p].idx = j
  <2>1. CASE q = n + 1
    <3>1. m \in Int /\ m >= 1 /\ m < 1
      BY <2>1, <1>1, <1>11
    <3> QED BY <3>1
  <2>2. CASE q \in 1 .. n
    <3>1. /\ m \in 1 .. Len(defs[calls[q].idx].depends)
          /\ j \in IdxOf(defs, defs[calls[q].idx].depends[m])
          /\ m < under[q].k
      BY <2>2, <1>1, <1>11
    <3>2. CASE m < calls[q].k
      <4>1. j \in Sorted \/ \E p \in 1 .. n : p <= q + 1 /\ calls[p].idx = j
        BY <3>1, <3>2, <2>2 DEF SortInv, PathInv
      <4>2. \A p \in 1 .. n : p \in 1 .. Len(calls') /\ calls'[p].idx = calls[p].idx
        BY <1>1
      <4> QED BY <4>1, <4>2, <1>2
    <3>3. CASE ~(m < calls[q].k)
      <4>1. q = n
        <5>1. q < n => under[q].k = calls[q].k
          BY <2>2
        <5>2. q = n \/ q < n
          BY <2>2, <1>1
        <5> QED BY <5>1, <5>2, <3>1, <3>3
      <4>2. calls # <<>>
        BY <4>1, <2>2, <1>8
      <4>3. /\ under[n].k = calls[n].k + 1
            /\ idx \in IdxOf(defs, defs[calls[n].idx].depends[calls[n].k])
            /\ calls[n].k \in Nat
        BY <4>2
      <4>4. m = calls[n].k
        BY <3>1, <3>3, <4>1, <4>3
      <4>5. defs \in ServiceDirs
        BY DEF SortInv, VisitInv, MonInv
      <4>6. j = idx
        BY <3>1, <4>1, <4>3, <4>4, <4>5, OneIndex
      <4>7. n + 1 \in 1 .. Len(calls') /\ n + 1 <= q + 1 /\ calls'[n + 1].idx = j
        BY <4>1, <4>6, <1>1
      <4> QED BY <4>7
    <3> QED BY <3>2, <3>3
  <2> QED BY <2>1, <2>2, <1>1
<1>12. PathInv'
  BY <1>10, <1>11 DEF PathInv
<1> QED BY <1>1, <1>4, <1>5, <1>7, <1>12

\* dfs is called for the services in turn.
LEMMA TopoSortInv == ASSUME SortInv, topo_sort PROVE SortInv'
<1>1. /\ mon.pc = "topo_sort" /\ calls = <<>> /\ mon.i <= Len(defs)
      /\ mon' = [mon EXCEPT !.i = @ + 1]
      /\ UNCHANGED <<defs, order, starts>> /\ visited' = visited \cup {mon.i}
  BY DEF topo_sort, SortStep, dfs
<1>2. /\ defs \in ServiceDirs /\ mon.i \in Nat \ {0} /\ Len(calls) = 0
      /\ mon'.pc = "topo_sort" /\ mon'.i = mon.i + 1
      /\ mon' \in [pc : {"topo_sort", "start_all", "tick", "restart"}, i : Nat \ {0}]
  BY <1>1 DEF SortInv, VisitInv, MonInv
<1>3. Len(defs) \in Nat /\ mon.i \in Index(defs)
  BY <1>1, <1>2, DefsFacts DEF Index
<1>4. /\ order' \in Seq(Index(defs'))
      /\ \A k, m \in 1 .. Len(order') : order'[k] = order'[m] => k = m
  BY <1>1 DEF SortInv, VisitInv, MonInv
<1>5. \A i \in Index(defs') : i < mon'.i => i \in visited'
  <2>1. \A i \in Index(defs) : i < mon.i => i \in visited
    BY <1>1 DEF SortInv, VisitInv, MonInv
  <2>2. \A i \in Index(defs) : i < mon.i + 1 => i < mon.i \/ i = mon.i
    BY <1>2, <1>3 DEF Index
  <2> QED BY <2>1, <2>2, <1>1, <1>2
<1>6. StartsInv' /\ OrderInv'
  BY <1>1, <1>2 DEF SortInv, StartsInv, OrderInv
<1>7. CASE mon.i \in visited
  <2>1. calls' = calls /\ visited' = visited
    BY <1>1, <1>7 DEF topo_sort, dfs
  <2>2. PathInv'
    BY <2>1, <1>1, SortKept
  <2>3. VisitInv'
    BY <2>1, <1>1, SortKept
  <2>4. MonInv'
    BY <1>2, <1>5 DEF MonInv
  <2> QED BY <2>2, <2>3, <2>4, <1>6 DEF SortInv
<1>8. CASE mon.i \notin visited
  <2>1. mon.i \in Index(defs) \ visited
    BY <1>3, <1>8
  <2>2. calls' = Append(calls, [idx |-> mon.i, k |-> 1])
    <3>1. (CHOOSE idx \in {mon.i} : TRUE) = mon.i
      OBVIOUS
    <3> QED BY <1>8, <3>1 DEF topo_sort, dfs
  <2>3. calls \in Seq([idx : Index(defs), k : Nat \ {0}])
    BY DEF SortInv, VisitInv, MonInv
  <2>4. /\ calls' \in Seq([idx : Index(defs), k : Nat \ {0}])
        /\ visited' = Sorted' \cup Calling'
        /\ \A k \in 1 .. Len(order') : order'[k] \notin Calling'
        /\ \A p, q \in 1 .. Len(calls') : calls'[p].idx = calls'[q].idx => p = q
        /\ PathInv'
    BY <2>1, <2>2, <2>3, <1>1, CalledInv
  <2>5. VisitInv' /\ MonInv'
    BY <2>4, <1>1, <1>2, <1>4, <1>5 DEF VisitInv, MonInv
  <2> QED BY <2>4, <2>5, <1>6 DEF SortInv
<1> QED BY <1>7, <1>8

\* The call on top goes on to its next dependency.
LEMMA DfsDepInv == ASSUME SortInv, dfs_dep PROVE SortInv'
<1> DEFINE n == Len(calls)
           c == calls[n]
           Frame == [idx : Index(defs), k : Nat \ {0}]
           D == IdxOf(defs, defs[c.idx].depends[c.k])
           under == [calls EXCEPT ![n].k = @ + 1]
<1>1. /\ calls # <<>> /\ c.k <= Len(defs[c.idx].depends)
      /\ visited' = visited \cup D
      /\ calls' = IF D \subseteq visited THEN under
                  ELSE Append(under, [idx |-> CHOOSE idx \in D : TRUE, k |-> 1])
      /\ UNCHANGED <<defs, order, mon, starts>>
  BY DEF dfs_dep, dfs, SortStep, top, TopDepends
<1>2. calls \in Seq(Frame) /\ defs \in ServiceDirs
  BY DEF SortInv, VisitInv
<1>3. n \in Nat /\ n \in 1 .. n
  BY <1>1, <1>2
<1>4. c \in Frame
  <2> HIDE DEF Frame
  <2> QED BY <1>2, <1>3
<1>5. c.idx \in Index(defs) /\ c.k \in Nat \ {0}
  BY <1>4
<1>6. c.k \in 1 .. Len(defs[c.idx].depends)
  BY <1>1, <1>2, <1>5, DefsFacts
<1>7. /\ under \in Seq(Frame) /\ Len(under) = n
      /\ \A p \in 1 .. n : under[p].idx = calls[p].idx
      /\ \A p \in 1 .. n : p < n => under[p].k = calls[p].k
      /\ under[n].k = c.k + 1
  <2> DEFINE c2 == [c EXCEPT !.k = @ + 1]
  <2>1. c2 \in Frame /\ c2.idx = c.idx /\ c2.k = c.k + 1
    BY <1>4, <1>5
  <2>2. under = [calls EXCEPT ![n] = c2]
    OBVIOUS
  <2> HIDE DEF c2, Frame, c, under
  <2>3. under \in Seq(Frame) /\ Len(under) = n
    BY <1>2, <1>3, <2>1, <2>2
  <2>4. \A p \in 1 .. n : under[p] = IF p = n THEN c2 ELSE calls[p]
    BY <1>2, <1>3, <2>2
  <2> QED BY <1>3, <2>1, <2>3, <2>4 DEF c
<1>8. mon.pc = "topo_sort"
  BY <1>1 DEF SortInv, MonInv
<1>9. StartsInv' /\ OrderInv'
  BY <1>1 DEF SortInv, StartsInv, OrderInv
<1>10. MonInv'
  BY <1>1, <1>8 DEF SortInv, MonInv
<1>11. /\ order' \in Seq(Index(defs')) /\ defs' \in ServiceDirs
       /\ \A k, m \in 1 .. Len(order') : order'[k] = order'[m] => k = m
  BY <1>1 DEF SortInv, VisitInv
<1>12. CASE D \subseteq visited
  <2>1. calls' = under /\ visited' = visited
    BY <1>1, <1>12
  <2>2. Len(calls') = n /\ \A p \in 1 .. n : calls'[p].idx = calls[p].idx
    BY <2>1, <1>7
  <2>3. Sorted' = Sorted /\ Calling' = Calling
    BY <1>1, <2>2 DEF Sorted, Calling
  <2>4. /\ \A k \in 1 .. Len(order) : order[k] \notin Calling
        /\ \A p, q \in 1 .. n : calls[p].idx = calls[q].idx => p = q
        /\ visited = Sorted \cup Calling
    BY DEF SortInv, VisitInv
  <2>5. VisitInv'
    BY <1>1, <1>7, <1>11, <2>1, <2>2, <2>3, <2>4 DEF VisitInv
  <2>6. \A p, q \in 1 .. Len(calls') : p < q => Needs(defs', calls'[p].idx, calls'[q].idx)
    <3>1. \A p, q \in 1 .. n : p < q => Needs(defs, calls[p].idx, calls[q].idx)
      BY DEF SortInv, PathInv
    <3> QED BY <3>1, <2>2, <1>1
  <2>7. ASSUME NEW q \in 1 .. Len(calls'),
              NEW m \in 1 .. Len(defs'[calls'[q].idx].depends), m < calls'[q].k,
              NEW j \in IdxOf(defs', defs'[calls'[q].idx].depends[m])
        PROVE  j \in Sorted' \/ \E p \in 1 .. Len(calls') : p <= q + 1 /\ calls'[p].idx = j
    <3>1. /\ q \in 1 .. n
          /\ m \in 1 .. Len(defs[calls[q].idx].depends)
          /\ j \in IdxOf(defs, defs[calls[q].idx].depends[m])
      BY <2>2, <2>7, <1>1
    <3>2. CASE m < calls[q].k
      <4>1. j \in Sorted \/ \E p \in 1 .. n : p <= q + 1 /\ calls[p].idx = j
        BY <3>1, <3>2 DEF SortInv, PathInv
      <4> QED BY <4>1, <2>2, <2>3
    <3>3. CASE ~(m < calls[q].k)
      <4>1. q = n
        <5>1. q < n => calls'[q].k = calls[q].k
          BY <3>1, <2>1, <1>7
        <5>2. q = n \/ q < n
          BY <3>1, <1>3
        <5> QED BY <5>1, <5>2, <3>3, <2>7
      <4>2. m = c.k
        BY <4>1, <3>1, <3>3, <2>1, <2>7, <1>5, <1>7
      <4>3. j \in D
        BY <4>1, <4>2, <3>1
      <4>4. j \in Sorted \/ \E p \in 1 .. n : calls[p].idx = j
        BY <4>3, <1>12, <2>4 DEF Calling
      <4>5. \A p \in 1 .. n : p <= q + 1
        BY <4>1, <1>3
      <4> QED BY <4>4, <4>5, <2>2, <2>3
    <3> QED BY <3>2, <3>3
  <2>8. PathInv'
    BY <2>6, <2>7 DEF PathInv
  <2> QED BY <2>5, <2>8, <1>9, <1>10 DEF SortInv
<1>13. CASE ~(D \subseteq visited)
  <2>1. PICK idx \in D : idx \notin visited
    BY <1>13
  <2>2. D = {idx} /\ idx \in Index(defs)
    BY <1>2, <2>1, OneIndex
  <2>3. (CHOOSE i \in D : TRUE) = idx
    BY <2>2
  <2>4. /\ calls' = Append(under, [idx |-> idx, k |-> 1])
        /\ visited' = visited \cup {idx} /\ idx \in Index(defs) \ visited
    BY <1>1, <1>13, <2>1, <2>2, <2>3
  <2>5. /\ calls' \in Seq([idx : Index(defs), k : Nat \ {0}])
        /\ visited' = Sorted' \cup Calling'
        /\ \A k \in 1 .. Len(order') : order'[k] \notin Calling'
        /\ \A p, q \in 1 .. Len(calls') : calls'[p].idx = calls'[q].idx => p = q
        /\ PathInv'
    <3> HIDE DEF under
    <3> QED BY <2>1, <2>4, <1>1, <1>6, <1>7, CalledInv
  <2>6. VisitInv'
    BY <2>5, <1>1, <1>11 DEF VisitInv
  <2> QED BY <2>5, <2>6, <1>9, <1>10 DEF SortInv
<1> QED BY <1>12, <1>13

\* The call on top returns.
LEMMA DfsReturnInv == ASSUME SortInv, dfs_return PROVE SortInv'
<1> DEFINE n == Len(calls)
           c == calls[n]
           N == Len(order)
           Frame == [idx : Index(defs), k : Nat \ {0}]
<1>1. /\ calls # <<>> /\ c.k > Len(defs[c.idx].depends)
      /\ order' = Append(order, c.idx) /\ calls' = SubSeq(calls, 1, n - 1)
      /\ UNCHANGED <<defs, visited, mon, starts>>
  BY DEF dfs_return, SortStep, top, TopDepends
<1>2. calls \in Seq(Frame) /\ order \in Seq(Index(defs)) /\ defs \in ServiceDirs
  BY DEF SortInv, VisitInv
<1>3. n \in Nat /\ n \in 1 .. n /\ N \in Nat
  BY <1>1, <1>2
<1>4. c.idx \in Index(defs) /\ c.k \in Nat \ {0}
  <2>1. c \in Frame
    <3> HIDE DEF Frame
    <3> QED BY <1>2, <1>3
  <2> QED BY <2>1
<1>5. /\ calls' \in Seq(Frame) /\ Len(calls') = n - 1
      /\ \A p \in 1 .. n - 1 : calls'[p] = calls[p] /\ p \in 1 .. n
  <2> HIDE DEF Frame
  <2>1. n - 1 \in 0 .. n /\ \A p \in 1 .. n - 1 : p \in 1 .. n
    BY <1>3
  <2>2. calls' = [p \in 1 .. n - 1 |-> calls[p]]
    BY <1>1, <1>2, <1>3, <2>1
  <2>3. \A p \in 1 .. n - 1 : calls[p] \in Frame
    BY <1>2, <2>1
  <2> QED BY <1>3, <2>1, <2>2, <2>3
<1>6. /\ order' \in Seq(Index(defs)) /\ Len(order') = N + 1 /\ order'[N + 1] = c.idx
      /\ \A k \in 1 .. N : order'[k] = order[k] /\ k \in 1 .. Len(order')
      /\ \A k \in 1 .. Len(order') : k \in 1 .. N \/ k = N + 1
  BY <1>1, <1>2, <1>3, <1>4
<1>7. /\ \A k \in 1 .. N : order[k] \notin Calling
      /\ \A k, m \in 1 .. N : order[k] = order[m] => k = m
      /\ \A p, q \in 1 .. n : calls[p].idx = calls[q].idx => p = q
      /\ visited = Sorted \cup Calling
  BY DEF SortInv, VisitInv
<1>8. \A p \in 1 .. n - 1 : calls[p].idx # c.idx /\ p < n
  <2>1. \A p \in 1 .. n - 1 : p \in 1 .. n /\ p # n /\ p < n
    BY <1>3
  <2> QED BY <2>1, <1>3, <1>7
<1>9. Sorted' = Sorted \cup {c.idx}
  <2>1. ASSUME NEW x \in Sorted' PROVE x \in Sorted \cup {c.idx}
    <3>1. PICK k \in 1 .. Len(order') : x = order'[k]
      BY <2>1 DEF Sorted
    <3> QED BY <3>1, <1>6 DEF Sorted
  <2>2. ASSUME NEW x \in Sorted PROVE x \in Sorted'
    <3>1. PICK k \in 1 .. N : x = order[k]
      BY <2>2 DEF Sorted
    <3> QED BY <3>1, <1>6 DEF Sorted
  <2>3. c.idx \in Sorted'
    <3>1. N + 1 \in 1 .. Len(order')
      BY <1>3, <1>6
    <3> QED BY <3>1, <1>6 DEF Sorted
  <2> QED BY <2>1, <2>2, <2>3
<1>10. Calling' = Calling \ {c.idx}
  <2>1. ASSUME NEW x \in Calling' PROVE x \in Calling \ {c.idx}
    <3>1. PICK p \in 1 .. Len(calls') : x = calls'[p].idx
      BY <2>1 DEF Calling
    <3>2. p \in 1 .. n - 1 /\ p \in 1 .. n /\ x = calls[p].idx
      BY <3>1, <1>5
    <3> QED BY <3>2, <1>8 DEF Calling
  <2>2. ASSUME NEW x \in Calling \ {c.idx} PROVE x \in Calling'
    <3>1. PICK p \in 1 .. n : x = calls[p].idx
      BY <2>2 DEF Calling
    <3>2. p # n
      BY <3>1, <2>2
    <3>3. p \in 1 .. n - 1
      BY <3>2, <1>3
    <3> QED BY <3>1, <3>3, <1>5 DEF Calling
  <2> QED BY <2>1, <2>2
<1>11. c.idx \in Calling
  BY <1>3 DEF Calling
<1>12. VisitInv'
  <2>1. visited' = Sorted' \cup Calling'
    BY <1>1, <1>7, <1>9, <1>10, <1>11
  <2>2. \A k \in 1 .. Len(order') : order'[k] \notin Calling'
    BY <1>6, <1>7, <1>10
  <2>3. ASSUME NEW k \in 1 .. Len(order'), NEW m \in 1 .. Len(order'), order'[k] = order'[m]
        PROVE  k = m
    <3>1. \A i \in 1 .. N : order[i] # c.idx
      BY <1>7, <1>11
    <3> QED BY <3>1, <2>3, <1>6, <1>7
  <2>4. \A p, q \in 1 .. Len(calls') : calls'[p].idx = calls'[q].idx => p = q
    BY <1>5, <1>7
  <2> QED BY <2>1, <2>2, <2>3, <2>4, <1>1, <1>2, <1>5, <1>6 DEF VisitInv
<1>13. MonInv'
  <2>1. mon.pc = "topo_sort"
    BY <1>1 DEF SortInv, MonInv
  <2> QED BY <2>1, <1>1 DEF SortInv, MonInv
<1>14. PathInv'
  <2>1. \A p, q \in 1 .. Len(calls') : p < q => Needs(defs', calls'[p].idx, calls'[q].idx)
    <3>1. \A p, q \in 1 .. n : p < q => Needs(defs, calls[p].idx, calls[q].idx)
      BY DEF SortInv, PathInv
    <3> QED BY <3>1, <1>1, <1>5
  <2>2. ASSUME NEW q \in 1 .. Len(calls'),
              NEW m \in 1 .. Len(defs'[calls'[q].idx].depends), m < calls'[q].k,
              NEW j \in IdxOf(defs', defs'[calls'[q].idx].depends[m])
        PROVE  j \in Sorted' \/ \E p \in 1 .. Len(calls') : p <= q + 1 /\ calls'[p].idx = j
    <3>1. /\ q \in 1 .. n
          /\ m \in 1 .. Len(defs[calls[q].idx].depends)
          /\ j \in IdxOf(defs, defs[calls[q].idx].depends[m])
          /\ m < calls[q].k
      BY <2>2, <1>1, <1>5
    <3>2. j \in Sorted \/ \E p \in 1 .. n : p <= q + 1 /\ calls[p].idx = j
      BY <3>1 DEF SortInv, PathInv
    <3>3. CASE j \in Sorted
      BY <3>3, <1>9
    <3>4. ASSUME NEW p \in 1 .. n, p <= q + 1, calls[p].idx = j
          PROVE  j \in Sorted' \/ \E r \in 1 .. Len(calls') : r <= q + 1 /\ calls'[r].idx = j
      <4>1. CASE p = n
        BY <4>1, <3>4, <1>9
      <4>2. CASE p # n
        <5>1. p \in 1 .. n - 1
          BY <4>2, <1>3
        <5>2. p \in 1 .. Len(calls') /\ calls'[p].idx = j
          BY <5>1, <3>4, <1>5
        <5> QED BY <5>2, <3>4
      <4> QED BY <4>1, <4>2
    <3> QED BY <3>2, <3>3, <3>4
  <2> QED BY <2>1, <2>2 DEF PathInv
<1>15. OrderInv'
  <2> SUFFICES ASSUME NEW k \in 1 .. Len(order'), NEW j \in Deps(defs', order'[k])
               PROVE  Needs(defs', j, order'[k]) \/ \E m \in 1 .. k - 1 : order'[m] = j
    BY DEF OrderInv
  <2>1. CASE k \in 1 .. N
    <3>1. j \in Deps(defs, order[k])
      BY <2>1, <1>1, <1>6
    <3>2. Needs(defs, j, order[k]) \/ \E m \in 1 .. k - 1 : order[m] = j
      BY <2>1, <3>1 DEF SortInv, OrderInv
    <3>3. \A m \in 1 .. k - 1 : m \in 1 .. N
      BY <2>1, <1>3
    <3> QED BY <2>1, <3>2, <3>3, <1>1, <1>6
  <2>2. CASE k = N + 1
    <3>1. j \in Deps(defs, c.idx)
      BY <2>2, <1>1, <1>6
    <3>2. PICK m \in 1 .. Len(defs[c.idx].depends) : j \in IdxOf(defs, defs[c.idx].depends[m])
      BY <3>1, <1>2, DepsFacts
    <3>3. m < c.k
      BY <3>2, <1>1, <1>2, <1>4, DefsFacts
    <3>4. j \in Sorted \/ \E p \in 1 .. n : p <= n + 1 /\ calls[p].idx = j
      BY <3>2, <3>3, <1>3 DEF SortInv, PathInv
    <3>5. CASE j \in Sorted
      <4>1. PICK i \in 1 .. N : order[i] = j
        BY <3>5 DEF Sorted
      <4>2. i \in 1 .. k - 1 /\ order'[i] = j
        BY <4>1, <2>2, <1>3, <1>6
      <4> QED BY <4>2
    <3>6. ASSUME NEW p \in 1 .. n, calls[p].idx = j PROVE Needs(defs, j, c.idx)
      <4>1. CASE p = n
        BY <4>1, <3>1, <3>6, NeedsFacts
      <4>2. CASE p < n
        BY <4>2, <3>6, <1>3 DEF SortInv, PathInv
      <4> QED BY <4>1, <4>2, <1>3
    <3> QED BY <3>4, <3>5, <3>6, <2>2, <1>1, <1>6
  <2> QED BY <2>1, <2>2, <1>6
<1>16. StartsInv'
  <2>1. mon.pc = "topo_sort"
    BY <1>1 DEF SortInv, MonInv
  <2>2. starts = <<>>
    BY <2>1 DEF SortInv, StartsInv
  <2> QED BY <2>1, <2>2, <1>1 DEF StartsInv
<1> QED BY <1>12, <1>13, <1>14, <1>15, <1>16 DEF SortInv

\* Everything is visited.
LEMMA TopoSortReturnInv == ASSUME SortInv, topo_sort_return PROVE SortInv'
<1>1. /\ mon.pc = "topo_sort" /\ calls = <<>> /\ mon.i > Len(defs)
      /\ mon' = [pc |-> "start_all", i |-> 1]
      /\ UNCHANGED <<defs, order, visited, calls, starts>>
  BY DEF topo_sort_return, SortStep, sortVars
<1>2. defs \in ServiceDirs /\ visited \subseteq Index(defs)
  BY VisitedIndex DEF SortInv, VisitInv
<1>3. Index(defs) \subseteq visited
  BY <1>1, <1>2, DefsFacts DEF SortInv, VisitInv, MonInv, Index
<1>4. VisitInv' /\ MonInv'
  <2>1. VisitInv'
    BY <1>1, SortKept
  <2>2. /\ mon' \in [pc : {"topo_sort", "start_all", "tick", "restart"}, i : Nat \ {0}]
        /\ mon'.pc = "start_all"
    BY <1>1
  <2>3. visited' = Index(defs') /\ calls' = <<>>
    BY <1>1, <1>2, <1>3
  <2> QED BY <2>1, <2>2, <2>3 DEF MonInv
<1>5. order \in Seq(Index(defs))
  BY DEF SortInv, VisitInv, MonInv
<1>6. PathInv' /\ OrderInv'
  BY <1>1, SortKept
<1>7. StartsInv'
  BY <1>1, <1>5 DEF SortInv, StartsInv
<1> QED BY <1>4, <1>6, <1>7 DEF SortInv

\* start_all takes the next of order.
LEMMA StartAllInv == ASSUME SortInv, NEW ok, start_all(ok) PROVE SortInv'
<1>1. /\ mon.pc = "start_all" /\ mon.i <= Len(order)
      /\ mon' = [mon EXCEPT !.i = @ + 1] /\ starts' = Append(starts, order[mon.i])
      /\ UNCHANGED <<defs, order, visited, calls>>
  BY DEF start_all, start, sortVars
<1>2. /\ mon.i \in Nat \ {0} /\ mon'.pc = "start_all" /\ mon'.i = mon.i + 1
      /\ mon' \in [pc : {"topo_sort", "start_all", "tick", "restart"}, i : Nat \ {0}]
      /\ order \in Seq(Index(defs))
  <2>1. mon \in [pc : {"topo_sort", "start_all", "tick", "restart"}, i : Nat \ {0}]
    BY DEF SortInv, MonInv
  <2>2. order \in Seq(Index(defs))
    BY DEF SortInv, VisitInv
  <2> QED BY <2>1, <2>2, <1>1
<1>3. VisitInv' /\ MonInv'
  BY <1>1, <1>2, SortKept DEF SortInv, MonInv
<1>4. PathInv' /\ OrderInv'
  BY <1>1, SortKept
<1>5. starts \in Seq(Index(defs)) /\ Len(starts) = mon.i - 1
  BY <1>1 DEF SortInv, StartsInv
<1>6. order[mon.i] \in Index(defs) /\ Len(order) \in Nat
  BY <1>1, <1>2
<1>7. /\ starts' \in Seq(Index(defs)) /\ Len(starts') = mon.i
      /\ \A k \in 1 .. Len(starts') : k <= Len(order) => starts'[k] = order[k]
  <2>1. \A k \in 1 .. Len(starts) : k <= Len(order) => starts[k] = order[k]
    BY DEF SortInv, StartsInv
  <2> QED BY <2>1, <1>1, <1>2, <1>5, <1>6
<1>8. StartsInv'
  BY <1>1, <1>2, <1>6, <1>7 DEF StartsInv
<1> QED BY <1>3, <1>4, <1>8 DEF SortInv

\* A restart comes after all of start_all.
LEMMA RelaunchInv == ASSUME SortInv, NEW ok, Relaunch(ok) PROVE SortInv'
<1>1. /\ mon.pc = "restart" /\ mon' = [pc |-> "tick", i |-> mon.i + 1]
      /\ starts' = Append(starts, mon.i) /\ UNCHANGED <<defs, order, visited, calls>>
  BY DEF Relaunch, start, sortVars
<1>2. /\ mon.i \in Nat \ {0} /\ defs \in ServiceDirs /\ order \in Seq(Index(defs))
      /\ starts \in Seq(Index(defs)) /\ Len(starts) >= Len(order) /\ mon.i <= Len(defs)
  BY <1>1 DEF SortInv, VisitInv, MonInv, StartsInv
<1>3. mon.i \in Index(defs)
  BY <1>2, DefsFacts DEF Index
<1>4. VisitInv' /\ MonInv'
  BY <1>1, <1>2, SortKept DEF SortInv, MonInv
<1>5. PathInv' /\ OrderInv'
  BY <1>1, SortKept
<1>6. /\ starts' \in Seq(Index(defs)) /\ Len(starts') >= Len(order)
      /\ \A k \in 1 .. Len(starts') : k <= Len(order) => starts'[k] = order[k]
  <2>1. \A k \in 1 .. Len(starts) : k <= Len(order) => starts[k] = order[k]
    BY DEF SortInv, StartsInv
  <2> QED BY <2>1, <1>1, <1>2, <1>3
<1>7. StartsInv'
  BY <1>1, <1>6 DEF StartsInv
<1> QED BY <1>4, <1>5, <1>7 DEF SortInv

\* The ticks look at services that exist.
LEMMA TickInv == ASSUME SortInv, BeginTick \/ tick PROVE SortInv'
<1>1. UNCHANGED <<defs, order, visited, calls, starts>>
  BY DEF BeginTick, tick, sortVars
<1>2. mon \in [pc : {"topo_sort", "start_all", "tick", "restart"}, i : Nat \ {0}]
  BY DEF SortInv, VisitInv, MonInv
<1>3. /\ mon' \in [pc : {"tick", "restart"}, i : Nat \ {0}]
      /\ mon'.pc = "restart" => mon'.i <= Len(defs)
      /\ mon.pc \in {"start_all", "tick"}
  BY <1>2 DEF BeginTick, tick
<1>4. Len(starts) >= Len(order)
  <2>1. CASE mon.pc = "tick"
    BY <2>1 DEF SortInv, StartsInv
  <2>2. CASE mon.pc = "start_all"
    <3>1. mon.i > Len(order) /\ Len(starts) = mon.i - 1 /\ order \in Seq(Index(defs))
      BY <2>2 DEF BeginTick, tick, SortInv, VisitInv, MonInv, StartsInv
    <3> QED BY <3>1, <1>2
  <2> QED BY <2>1, <2>2, <1>3
<1>5. VisitInv' /\ MonInv'
  BY <1>1, <1>3, SortKept DEF SortInv, MonInv
<1>6. PathInv' /\ OrderInv'
  BY <1>1, SortKept
<1>7. StartsInv'
  BY <1>1, <1>3, <1>4 DEF SortInv, StartsInv
<1> QED BY <1>5, <1>6, <1>7 DEF SortInv

\* SortInv holds in every reachable state, whatever sessions and services do.
THEOREM SortInductive == SupSpec => []SortInv
<1>1. SupInit => SortInv
  BY SvcInit DEF SupInit
<1>2. ASSUME SortInv, [SupNext]_supVars PROVE SortInv'
  <2>1. ASSUME NEW ok, start_all(ok) PROVE SortInv'
    BY <1>2, <2>1, StartAllInv
  <2>2. ASSUME NEW ok, Relaunch(ok) PROVE SortInv'
    BY <1>2, <2>2, RelaunchInv
  <2>3. CASE Watch
    BY <1>2, <2>3, TopoSortInv, DfsDepInv, DfsReturnInv, TopoSortReturnInv, TickInv
       DEF Watch, Sort
  <2>4. CASE UNCHANGED svcVars
    BY <1>2, <2>4, SvcStutter DEF svcVars, sortVars
  <2>5. ASSUME NEW i, NEW code, ServiceExits(i, code) PROVE SortInv'
    BY <1>2, <2>5, SvcStutter DEF ServiceExits, sortVars
  <2>6. CASE System
    BY <2>1, <2>2, <2>3, <2>4, <2>6 DEF System, Launch
  <2>7. CASE SessionEnds
    BY <2>5, <2>7 DEF SessionEnds
  <2>8. CASE Environment
    BY <2>4, <2>5, <2>8 DEF Environment, OtherExits, SessionCrashes
  <2>9. CASE UNCHANGED supVars
    BY <2>4, <2>9 DEF supVars
  <2> QED BY <1>2, <2>6, <2>7, <2>8, <2>9 DEF SupNext
<1> QED BY <1>1, <1>2, PTL DEF SupSpec

(***************************************************************************)
(* The monitor starts every service once and after what it depends on, for *)
(* any directory: cycles, unknown names and names used twice included      *)
(* (DependenciesFirst).                                                    *)
(***************************************************************************)
THEOREM DependenciesFirstHolds == SupSpec => []DependenciesFirst
<1>1. ASSUME SortInv PROVE DependenciesFirst
  <2>1. /\ defs \in ServiceDirs /\ order \in Seq(Index(defs)) /\ starts \in Seq(Index(defs))
        /\ \A k \in 1 .. Len(starts) : k <= Len(order) => starts[k] = order[k]
        /\ mon \in [pc : {"topo_sort", "start_all", "tick", "restart"}, i : Nat \ {0}]
    BY <1>1 DEF SortInv, VisitInv, StartsInv, MonInv
  <2>2. Len(order) \in Nat /\ Len(starts) \in Nat
    BY <2>1
  <2>3. mon.pc # "topo_sort" => Index(defs) = Sorted
    <3>1. calls = <<>> => Calling = {}
      BY DEF Calling
    <3> QED BY <3>1, <1>1 DEF SortInv, MonInv, VisitInv
  <2>4. Len(starts) > 0 => mon.pc # "topo_sort"
    BY <1>1 DEF SortInv, StartsInv
  <2>5. ASSUME NEW k \in 1 .. Len(starts), NEW j \in Deps(defs, starts[k])
        PROVE  Needs(defs, j, starts[k]) \/ \E m \in 1 .. k - 1 : starts[m] = j
    <3>1. CASE k <= Len(order)
      <4>1. k \in 1 .. Len(order) /\ starts[k] = order[k]
        BY <3>1, <2>1, <2>2
      <4>2. Needs(defs, j, order[k]) \/ \E m \in 1 .. k - 1 : order[m] = j
        BY <4>1, <1>1, <2>5 DEF SortInv, OrderInv
      <4>3. \A m \in 1 .. k - 1 : starts[m] = order[m]
        BY <4>1, <2>1, <2>2
      <4> QED BY <4>1, <4>2, <4>3
    <3>2. CASE k > Len(order)
      <4>1. j \in Sorted
        BY <2>1, <2>2, <2>3, <2>4, <2>5, DepsFacts
      <4>2. PICK m \in 1 .. Len(order) : order[m] = j
        BY <4>1 DEF Sorted
      <4>3. m \in 1 .. k - 1 /\ starts[m] = j
        BY <4>2, <3>2, <2>1, <2>2
      <4> QED BY <4>3
    <3> QED BY <3>1, <3>2, <2>2
  <2>6. ASSUME (mon.pc = "start_all" /\ mon.i > Len(order)) \/ mon.pc \in {"tick", "restart"}
        PROVE  {starts[k] : k \in 1 .. Len(starts)} = Index(defs)
    <3>1. Len(starts) >= Len(order) /\ mon.pc # "topo_sort"
      BY <1>1, <2>1, <2>2, <2>6 DEF SortInv, StartsInv
    <3>2. \A k \in 1 .. Len(starts) : starts[k] \in Index(defs)
      BY <2>1
    <3>3. ASSUME NEW x \in Index(defs) PROVE \E k \in 1 .. Len(starts) : starts[k] = x
      <4>1. PICK k \in 1 .. Len(order) : order[k] = x
        BY <3>1, <2>3 DEF Sorted
      <4>2. k \in 1 .. Len(starts) /\ starts[k] = x
        BY <4>1, <3>1, <2>1, <2>2
      <4> QED BY <4>2
    <3> QED BY <3>2, <3>3
  <2>7. ASSUME mon.pc = "start_all", NEW k \in 1 .. Len(starts), NEW m \in 1 .. Len(starts),
               starts[k] = starts[m]
        PROVE  k = m
    <3>1. Len(starts) <= Len(order)
      BY <1>1, <2>1, <2>2, <2>7 DEF SortInv, StartsInv
    <3>2. /\ k \in 1 .. Len(order) /\ m \in 1 .. Len(order)
          /\ starts[k] = order[k] /\ starts[m] = order[m]
      BY <3>1, <2>1, <2>2
    <3> QED BY <3>2, <2>7, <1>1 DEF SortInv, VisitInv
  <2> QED BY <2>5, <2>6, <2>7 DEF DependenciesFirst
<1> QED BY <1>1, SortInductive, PTL
=============================================================================
