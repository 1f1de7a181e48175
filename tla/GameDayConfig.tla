--------------------------- MODULE GameDayConfig ---------------------------
(***************************************************************************)
(* cycleMembers of internal/config/gameday.go: Kahn's algorithm over the   *)
(* members' depends_on, which decides at load time whether a game-day can  *)
(* be scheduled at all. Members are numbered in file order; duplicate and  *)
(* self dependencies are rejected before it runs.                          *)
(***************************************************************************)
EXTENDS GameDayGraph, Sequences, FiniteSets

VARIABLES
  deps,       (* depends_on of each member                                  *)
  indegree,   (* dependencies not yet removed                               *)
  queue,      (* members whose dependencies are all removed                 *)
  removed,    (* how many members have left the queue                       *)
  answered,   (* the loop is over                                           *)
  stuck       (* the members reported then                                  *)

kahnVars == <<deps, indegree, queue, removed, answered, stuck>>

(* Enqueue those of s, in file order: the i-th has i - 1 of them before it.*)
InFileOrder(s) ==
  [i \in 1 .. Cardinality(s) |-> CHOOSE m \in s : Cardinality({k \in s : k < m}) = i - 1]

CountDependencies ==
  /\ deps \in Graphs
  /\ indegree = [m \in Members |-> Cardinality(deps[m])]
  /\ queue = InFileOrder({m \in Members : deps[m] = {}})
  /\ removed = 0
  /\ answered = FALSE /\ stuck = {}

DequeueOff1 ==   (* mutant: a dependent is released one dependency early *)
  /\ ~ answered /\ queue # <<>>
  /\ LET name == Head(queue)
         dependents == {m \in Members : name \in deps[m]}
     IN  /\ indegree' = [m \in Members |->
                           IF m \in dependents THEN indegree[m] - 1 ELSE indegree[m]]
         /\ queue' = Tail(queue) \o InFileOrder({m \in dependents : indegree'[m] = 1})
  /\ removed' = removed + 1
  /\ UNCHANGED <<deps, answered, stuck>>

Dequeue ==
  /\ ~ answered /\ queue # <<>>
  /\ LET name == Head(queue)
         dependents == {m \in Members : name \in deps[m]}
     IN  /\ indegree' = [m \in Members |->
                           IF m \in dependents THEN indegree[m] - 1 ELSE indegree[m]]
         /\ queue' = Tail(queue) \o InFileOrder({m \in dependents : indegree'[m] = 0})
  /\ removed' = removed + 1
  /\ UNCHANGED <<deps, answered, stuck>>

Report ==
  /\ ~ answered /\ queue = <<>>
  /\ answered' = TRUE
  /\ stuck' = IF removed = NumMembers THEN {} ELSE {m \in Members : indegree[m] > 0}
  /\ UNCHANGED <<deps, indegree, queue, removed>>

CycleMembers == Dequeue \/ Report

-----------------------------------------------------------------------------
(* cycleMembers reports exactly the members that could never start: none   *)
(* when the graph has no cycle, else the ones in or behind one.            *)
ReportsDeadlocked == answered => stuck = Deadlocked(deps)

(* The inductive invariant behind it. Done are the members that have left  *)
(* the queue.                                                              *)
Queued == {queue[i] : i \in 1 .. Len(queue)}
Done == {m \in Members : indegree[m] = 0} \ Queued

KahnInv ==
  /\ deps \in Graphs /\ indegree \in [Members -> Nat] /\ queue \in Seq(Members)
  /\ removed \in Nat /\ answered \in BOOLEAN /\ stuck \subseteq Members
  /\ \A i, j \in 1 .. Len(queue) : queue[i] = queue[j] => i = j
  /\ \A m \in Queued : indegree[m] = 0
  /\ \A m \in Members : indegree[m] = Cardinality(deps[m] \ Done)
  /\ removed = Cardinality(Done)
  /\ \A s \in SUBSET Members : Waits(deps, s) => s \cap Done = {}
  /\ answered => queue = <<>> /\ stuck = Members \ Done
=============================================================================
