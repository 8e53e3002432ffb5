------------------------------- MODULE Svcmon -------------------------------
(***************************************************************************)
(* phx-svcmon (userspace/services/phx-svcmon/src/main.rs): loads the       *)
(* service definitions, sorts them by their dependencies, starts them in   *)
(* that order and then looks after them in ticks.  One step of the monitor *)
(* is one service: between two of them services exit on their own.  The    *)
(* processes (procs) and what the directory holds are external.            *)
(***************************************************************************)
EXTENDS Integers, Sequences, FiniteSets

CONSTANTS
  ServiceDirs,   \* what load_services may find: sequences of definitions
                 \* [name, restart, depends], restart as written
  MaxExits,      \* bound on service exits
  MaxSpawnFails  \* bound on launch_service failing

ASSUME SvcmonAssumption ==
  ServiceDirs \subseteq Seq([name : STRING, restart : STRING, depends : Seq(STRING)])

VARIABLES
  defs,          \* the definitions
  order,         \* topo_sort's result: indices of definitions
  visited,       \* its array, as a set
  calls,         \* the calls of dfs under way, outermost first:
                 \* [idx, k], k the dependency the loop comes to next
  states,        \* ServiceState of each: state and exit_code
  procs,         \* its process: "none", "alive" or "zombie"
  mon,           \* the monitor's place: pc, position i
  starts,        \* history: indices in the order start was called
  exits, spawnFails

sortVars == <<order, visited, calls>>
svcVars == <<defs, sortVars, states, procs, mon, starts, exits, spawnFails>>

Index(d) == 1 .. Len(d)
\* name_to_idx: of two definitions with one name the later one counts.
IdxOf(d, name) ==
  {i \in Index(d) : d[i].name = name /\ \A j \in Index(d) : d[j].name = name => j <= i}

InitSvc ==
  /\ defs \in ServiceDirs
  /\ order = <<>> /\ visited = {} /\ calls = <<>>
  /\ states = [i \in Index(defs) |-> [state |-> "Stopped", exit_code |-> 0]]
  /\ procs = [i \in Index(defs) |-> "none"]
  /\ mon = [pc |-> "topo_sort", i |-> 1]
  /\ starts = <<>> /\ exits = 0 /\ spawnFails = 0

----------------------------------------------------------------------------
(* topo_sort, one step per call or return of dfs *)

\* A call of dfs for each of S (at most one); what is visited returns at once.
dfs(S, under) ==
  /\ visited' = visited \cup S
  /\ calls' = IF S \subseteq visited THEN under
              ELSE Append(under, [idx |-> CHOOSE idx \in S : TRUE, k |-> 1])

SortStep == UNCHANGED <<defs, states, procs, starts, exits, spawnFails>>

\* for i in 0..n
topo_sort ==
  /\ mon.pc = "topo_sort" /\ calls = <<>> /\ mon.i <= Len(defs)
  /\ dfs({mon.i}, calls)
  /\ mon' = [mon EXCEPT !.i = @ + 1]
  /\ SortStep /\ UNCHANGED order

\* The innermost call, and the names its loop goes through.
top == Len(calls)
TopDepends == defs[calls[top].idx].depends

\* Mutant: the dependencies are gone through without a call.
dfs_dep_skipped ==
  /\ calls # <<>> /\ calls[top].k <= Len(TopDepends)
  /\ calls' = [calls EXCEPT ![top].k = @ + 1]
  /\ SortStep /\ UNCHANGED <<order, visited, mon>>

\* for dep in depends: a name that nobody has is passed over.
dfs_dep ==
  /\ calls # <<>> /\ calls[top].k <= Len(TopDepends)
  /\ dfs(IdxOf(defs, TopDepends[calls[top].k]), [calls EXCEPT ![top].k = @ + 1])
  /\ SortStep /\ UNCHANGED <<order, mon>>

\* order.push(idx)
dfs_return ==
  /\ calls # <<>> /\ calls[top].k > Len(TopDepends)
  /\ order' = Append(order, calls[top].idx)
  /\ calls' = SubSeq(calls, 1, top - 1)
  /\ SortStep /\ UNCHANGED <<visited, mon>>

topo_sort_return ==
  /\ mon.pc = "topo_sort" /\ calls = <<>> /\ mon.i > Len(defs)
  /\ mon' = [pc |-> "start_all", i |-> 1]
  /\ SortStep /\ UNCHANGED sortVars

Sort == topo_sort \/ dfs_dep \/ dfs_return \/ topo_sort_return

----------------------------------------------------------------------------
\* start: launch_service gives a child or an error.
start(idx, ok) ==
  /\ starts' = Append(starts, idx)
  /\ ok \/ spawnFails < MaxSpawnFails
  /\ spawnFails' = IF ok THEN spawnFails ELSE spawnFails + 1
  /\ procs' = IF ok THEN [procs EXCEPT ![idx] = "alive"] ELSE procs
  /\ states' = [states EXCEPT ![idx] =
                  IF ok THEN [state |-> "Running", exit_code |-> 0]
                        ELSE [state |-> "Failed", exit_code |-> -1]]
  /\ UNCHANGED <<defs, sortVars, exits>>

start_all(ok) ==
  /\ mon.pc = "start_all" /\ mon.i <= Len(order)
  /\ start(order[mon.i], ok)
  /\ mon' = [mon EXCEPT !.i = @ + 1]

\* The main loop sleeps and takes the monitor's lock for the next tick.
BeginTick ==
  /\ \/ mon.pc = "start_all" /\ mon.i > Len(order)
     \/ mon.pc = "tick" /\ mon.i > Len(defs)
  /\ mon' = [pc |-> "tick", i |-> 1]
  /\ UNCHANGED <<defs, sortVars, states, procs, starts, exits, spawnFails>>

\* parse_svc_file: any other text means never.
RestartPolicy(val) == IF val \in {"always", "on-failure"} THEN val ELSE "never"

\* Mutant: what has just been found dead is taken for a stopped service.
RestartsNone(policy, code) == FALSE

ShouldRestart(policy, code) ==
  RestartPolicy(policy) = "always" \/ (RestartPolicy(policy) = "on-failure" /\ code # 0)

\* tick at service mon.i: try_wait, and the policy on what it exited with.
tick ==
  LET idx == mon.i
      gone == states[idx].state = "Running" /\ procs[idx] = "zombie"
  IN  /\ mon.pc = "tick" /\ idx <= Len(defs)
      /\ states' = IF gone THEN [states EXCEPT ![idx].state = "Failed"]
                           ELSE states
      /\ procs' = IF gone THEN [procs EXCEPT ![idx] = "none"] ELSE procs
      /\ mon' = IF gone /\ ShouldRestart(defs[idx].restart,
                                         states[idx].exit_code)
                THEN [mon EXCEPT !.pc = "restart"]
                ELSE [mon EXCEPT !.i = @ + 1]
      /\ UNCHANGED <<defs, sortVars, starts, exits, spawnFails>>

\* Two seconds later.
Relaunch(ok) ==
  /\ mon.pc = "restart" /\ start(mon.i, ok)
  /\ mon' = [pc |-> "tick", i |-> mon.i + 1]

\* External: a service ends.  Its status is kept for try_wait.
ServiceExits(idx, code) ==
  /\ procs[idx] = "alive" /\ exits < MaxExits
  /\ procs' = [procs EXCEPT ![idx] = "zombie"]
  /\ states' = [states EXCEPT ![idx].exit_code = code]
  /\ exits' = exits + 1
  /\ UNCHANGED <<defs, sortVars, mon, starts, spawnFails>>

\* What the monitor does with a process it starts: ok of start.
Monitor(ok) == start_all(ok) \/ Relaunch(ok)
Watch == Sort \/ BeginTick \/ tick

----------------------------------------------------------------------------
Deps(d, i) == UNION {IdxOf(d, d[i].depends[k]) : k \in 1 .. Len(d[i].depends)}

\* i needs j, directly or through others: j is in every set that has what i
\* depends on and what its members depend on.
Needs(d, i, j) ==
  \A S \in SUBSET Index(d) :
    (\A m \in S \cup {i} : Deps(d, m) \subseteq S) => j \in S

(* topo_sort and start_all ("starts them in dependency order"): nothing is *)
(* started before what it depends on, unless the two depend on each other; *)
(* and everything gets its one turn, cycles and unknown names included.    *)
DependenciesFirst ==
  /\ \A k \in 1 .. Len(starts) : \A j \in Deps(defs, starts[k]) :
       Needs(defs, j, starts[k]) \/ \E m \in 1 .. k - 1 : starts[m] = j
  /\ (mon.pc = "start_all" /\ mon.i > Len(order)) \/ mon.pc \in {"tick", "restart"} =>
       {starts[k] : k \in 1 .. Len(starts)} = Index(defs)
  /\ mon.pc = "start_all" =>
       \A k, m \in 1 .. Len(starts) : starts[k] = starts[m] => k = m

\* The inductive invariant of DependenciesFirst.  What is visited is in order or
\* being visited, and nothing is in either twice.
Sorted == {order[k] : k \in 1 .. Len(order)}
Calling == {calls[p].idx : p \in 1 .. Len(calls)}

VisitInv ==
  /\ defs \in ServiceDirs
  /\ order \in Seq(Index(defs)) /\ calls \in Seq([idx : Index(defs), k : Nat \ {0}])
  /\ visited = Sorted \cup Calling
  /\ \A k \in 1 .. Len(order) : order[k] \notin Calling
  /\ \A k, m \in 1 .. Len(order) : order[k] = order[m] => k = m
  /\ \A p, q \in 1 .. Len(calls) : calls[p].idx = calls[q].idx => p = q

\* How far the monitor is.
MonInv ==
  /\ mon \in [pc : {"topo_sort", "start_all", "tick", "restart"}, i : Nat \ {0}]
  /\ mon.pc = "topo_sort" => \A i \in Index(defs) : i < mon.i => i \in visited
  /\ mon.pc # "topo_sort" => calls = <<>> /\ visited = Index(defs)

\* The calls form a path, and a dependency gone through is in order, or is the
\* service of this call, of an earlier one, or of the one it made last.
PathInv ==
  /\ \A p, q \in 1 .. Len(calls) : p < q => Needs(defs, calls[p].idx, calls[q].idx)
  /\ \A q \in 1 .. Len(calls) : \A n \in 1 .. Len(defs[calls[q].idx].depends) :
       n < calls[q].k =>
         \A j \in IdxOf(defs, defs[calls[q].idx].depends[n]) :
           j \in Sorted \/ \E p \in 1 .. Len(calls) : p <= q + 1 /\ calls[p].idx = j

\* What DependenciesFirst says of starts, of order.
OrderInv ==
  \A k \in 1 .. Len(order) : \A j \in Deps(defs, order[k]) :
    Needs(defs, j, order[k]) \/ \E m \in 1 .. k - 1 : order[m] = j

\* start_all has come to mon.i; later starts are restarts.
StartsInv ==
  /\ starts \in Seq(Index(defs))
  /\ mon.pc = "topo_sort" => starts = <<>>
  /\ mon.pc = "start_all" => Len(starts) = mon.i - 1 /\ mon.i <= Len(order) + 1
  /\ mon.pc \in {"tick", "restart"} => Len(starts) >= Len(order)
  /\ mon.pc = "restart" => mon.i <= Len(defs)
  /\ \A k \in 1 .. Len(starts) : k <= Len(order) => starts[k] = order[k]

SortInv == VisitInv /\ MonInv /\ PathInv /\ OrderInv /\ StartsInv

(* tick ("restarts them if they exit"): a service that exits is run again  *)
(* whenever its policy says so, unless it could not be launched.           *)
ServiceComesBack ==
  \A i \in 1 .. 3 :
    (i \in Index(defs) /\ procs[i] = "zombie"
       /\ \/ defs[i].restart = "always"
          \/ defs[i].restart = "on-failure" /\ states[i].exit_code # 0)
    ~> (procs[i] = "alive" \/ (states[i].state = "Failed" /\ spawnFails > 0))
=============================================================================
