--------------------------- MODULE GameDayGraph ----------------------------
(***************************************************************************)
(* The depends_on graph of a game-day file. Members are numbered in file   *)
(* order.                                                                  *)
(***************************************************************************)
EXTENDS Integers

CONSTANT NumMembers

ASSUME NumMembersAssumption == NumMembers \in Nat \ {0}

Members == 1 .. NumMembers

(* The graphs that validateMembers and validateDependencies let through:   *)
(* known members, none of them its own dependency.                         *)
Graphs == {g \in [Members -> SUBSET Members] : \A m \in Members : m \notin g[m]}

(* Members every one of which waits for another of them can never start.   *)
Waits(g, s) == \A m \in s : g[m] \cap s # {}
Deadlocked(g) == UNION {s \in SUBSET Members : Waits(g, s)}
Acyclic(g) == \A s \in (SUBSET Members) \ {{}} : ~ Waits(g, s)
=============================================================================
