--------------------------- MODULE GameDayProofs ---------------------------
(***************************************************************************)
(* Proofs about GameDay and GameDayConfig for any number of members, any   *)
(* depends_on graph, any max_parallel and any assignment of evidence logs. *)
(***************************************************************************)
EXTENDS GameDay, FiniteSetTheorems, SequenceTheorems, TLAPS

-----------------------------------------------------------------------------
(* Members are finite in number, and any of them have a first and a last   *)
(* in file order.                                                          *)
LEMMA NatLeast ==
  ASSUME NEW T, T \subseteq Nat, T # {}
  PROVE  \E x \in T : \A y \in T : x <= y
<1>1. IsWellFoundedOn(OpToRel(<, Nat), Nat)
  BY NatLessThanWellFounded
<1>2. PICK x \in T : \A y \in T : ~ (<<y, x>> \in OpToRel(<, Nat))
  BY <1>1, WFMin, Zenon
<1>3. \A y \in T : <<y, x>> \in OpToRel(<, Nat) <=> y < x
  BY DEF OpToRel
<1>4. \A y \in T : x \in Nat /\ y \in Nat /\ ~ (y < x)
  BY <1>2, <1>3
<1>5. \A y \in T : x <= y
  BY <1>4
<1>6. QED
  BY <1>5

LEMMA NatGreatest ==
  ASSUME NEW N \in Nat, NEW T, T \subseteq 0 .. N, T # {}
  PROVE  \E x \in T : \A y \in T : y <= x
<1> DEFINE U == {k \in 0 .. N : N - k \in T}
<1>1. U \subseteq Nat /\ U # {}
  <2>1. PICK x \in T : TRUE
    OBVIOUS
  <2>2. x \in 0 .. N /\ N - x \in 0 .. N /\ N - (N - x) = x
    BY <2>1
  <2>3. N - x \in U
    BY <2>1, <2>2
  <2>4. U \subseteq Nat
    OBVIOUS
  <2>5. QED
    BY <2>3, <2>4
<1> HIDE DEF U
<1>2. PICK u \in U : \A v \in U : u <= v
  BY <1>1, NatLeast
<1>3. u \in 0 .. N /\ N - u \in T
  BY <1>2 DEF U
<1>4. \A y \in T : N - y \in U
  BY DEF U
<1>5. QED
  BY <1>2, <1>3, <1>4

LEMMA MembersFinite ==
  /\ IsFiniteSet(Members) /\ Cardinality(Members) = NumMembers
  /\ \A s \in SUBSET Members : IsFiniteSet(s) /\ Cardinality(s) \in Nat
<1>1. IsFiniteSet(Members) /\ Cardinality(Members) = NumMembers
  BY FS_Interval, NumMembersAssumption DEF Members
<1>2. QED
  BY <1>1, FS_Subset, FS_CardinalityType

(* InFileOrder lists every member of s once: each has another number of    *)
(* members of s before it, and there are as many numbers as members.       *)
LEMMA InFileOrderLists ==
  ASSUME NEW s \in SUBSET Members
  PROVE  /\ InFileOrder(s) \in Seq(Members) /\ Len(InFileOrder(s)) = Cardinality(s)
         /\ \A m : m \in s <=> \E i \in 1 .. Cardinality(s) : InFileOrder(s)[i] = m
         /\ \A i, j \in 1 .. Cardinality(s) :
              InFileOrder(s)[i] = InFileOrder(s)[j] => i = j
<1> DEFINE Before(m) == {k \in s : k < m}
           rank == [m \in s |-> Cardinality(Before(m)) + 1]
           n == Cardinality(s)
<1>1. IsFiniteSet(s) /\ n \in Nat
  BY MembersFinite
<1>2. \A m \in s : rank[m] \in 1 .. n
  <2> TAKE m \in s
  <2>1. Before(m) \in SUBSET (s \ {m})
    BY DEF Members
  <2>2. IsFiniteSet(s \ {m}) /\ Cardinality(s \ {m}) = n - 1
    BY <1>1, FS_RemoveElement
  <2>3. IsFiniteSet(Before(m)) /\ Cardinality(Before(m)) <= n - 1
    BY <2>1, <2>2, FS_Subset
  <2>4. Cardinality(Before(m)) \in Nat
    BY <2>3, FS_CardinalityType
  <2>5. QED
    BY <2>3, <2>4, <1>1
<1>3. \A m, k \in s : k < m => rank[k] < rank[m]
  <2> TAKE m, k \in s
  <2> HAVE k < m
  <2>0. \A x \in s : x \in Int
    BY DEF Members
  <2>1. Before(k) \subseteq Before(m) \ {k} /\ k \in Before(m)
    BY <2>0
  <2>2. IsFiniteSet(Before(m)) /\ IsFiniteSet(Before(k))
    <3>1. Before(m) \in SUBSET s /\ Before(k) \in SUBSET s
      OBVIOUS
    <3>2. QED
      BY <3>1, <1>1, FS_Subset
  <2>3. IsFiniteSet(Before(m) \ {k})
        /\ Cardinality(Before(m) \ {k}) = Cardinality(Before(m)) - 1
    BY <2>1, <2>2, FS_RemoveElement
  <2>4. Cardinality(Before(k)) <= Cardinality(Before(m) \ {k})
    BY <2>1, <2>3, FS_Subset
  <2>5. Cardinality(Before(k)) \in Nat /\ Cardinality(Before(m)) \in Nat
    BY <2>2, FS_CardinalityType
  <2>6. QED
    BY <2>3, <2>4, <2>5
<1>4. \A m, k \in s : rank[k] = rank[m] => k = m
  <2> TAKE m, k \in s
  <2> HAVE rank[k] = rank[m]
  <2>1. k \in Int /\ m \in Int /\ rank[k] \in Int /\ rank[m] \in Int
    BY <1>1, <1>2 DEF Members
  <2> HIDE DEF rank
  <2>2. QED
    BY <1>3, <2>1
<1>5. rank \in Injection(s, 1 .. n)
  <2>1. rank \in [s -> 1 .. n]
    BY <1>2
  <2> HIDE DEF rank
  <2>2. QED
    BY <1>4, <2>1 DEF Injection, IsInjective
<1>6. rank \in Surjection(s, 1 .. n)
  <2>1. IsFiniteSet(1 .. n) /\ Cardinality(1 .. n) = n
    BY <1>1, FS_Interval
  <2> HIDE DEF rank, n
  <2>2. n = Cardinality(s)
    BY DEF n
  <2>3. QED
    BY <1>5, <2>1, <2>2, FS_Injection
<1>7. \A i \in 1 .. n : \E m \in s : rank[m] = i
  <2> HIDE DEF rank, n
  <2> QED BY <1>6 DEF Surjection
<1>8. \A i \in 1 .. n : InFileOrder(s)[i] \in s /\ rank[InFileOrder(s)[i]] = i
  <2> TAKE i \in 1 .. n
  <2>1. \E m \in s : Cardinality(Before(m)) = i - 1
    <3>1. PICK m \in s : rank[m] = i
      BY <1>7
    <3>2. Before(m) \in SUBSET s
      OBVIOUS
    <3>3. Cardinality(Before(m)) \in Nat
      BY <3>2, <1>1, FS_Subset, FS_CardinalityType
    <3>4. Cardinality(Before(m)) = i - 1
      BY <3>1, <3>3
    <3>5. QED
      BY <3>4
  <2>2. InFileOrder(s)[i] = CHOOSE m \in s : Cardinality(Before(m)) = i - 1
    BY DEF InFileOrder
  <2>3. InFileOrder(s)[i] \in s /\ Cardinality(Before(InFileOrder(s)[i])) = i - 1
    BY <2>1, <2>2
  <2>4. QED
    BY <2>3, <1>1
<1> HIDE DEF rank
<1>9. \A i, j \in 1 .. n : InFileOrder(s)[i] = InFileOrder(s)[j] => i = j
  BY <1>8
<1>10. \A m : m \in s <=> \E i \in 1 .. n : InFileOrder(s)[i] = m
  BY <1>2, <1>4, <1>8
<1>11. InFileOrder(s) \in Seq(Members) /\ Len(InFileOrder(s)) = n
  <2>1. InFileOrder(s) \in [1 .. n -> Members]
    BY <1>8 DEF InFileOrder
  <2> HIDE DEF n
  <2>2. QED
    BY <2>1, <1>1
<1>12. QED
  BY <1>9, <1>10, <1>11
-----------------------------------------------------------------------------
(* cycleMembers. What Kahn's algorithm has removed, Done, has only         *)
(* dependencies it removed before; the degrees count the others.           *)
LEMMA DepsFinite ==
  ASSUME deps \in Graphs, NEW m \in Members, NEW s
  PROVE  /\ deps[m] \subseteq Members
         /\ IsFiniteSet(deps[m] \ s) /\ Cardinality(deps[m] \ s) \in Nat
         /\ Cardinality(deps[m] \ s) = 0 <=> deps[m] \subseteq s
<1>1. deps[m] \subseteq Members
  BY DEF Graphs
<1>2. deps[m] \ s \in SUBSET Members
  BY <1>1
<1>3. IsFiniteSet(deps[m] \ s) /\ Cardinality(deps[m] \ s) \in Nat
  BY <1>2, MembersFinite
<1>4. Cardinality(deps[m] \ s) = 0 <=> deps[m] \ s = {}
  BY <1>3, FS_EmptySet
<1>5. QED
  BY <1>1, <1>3, <1>4

LEMMA KahnInit == CountDependencies => KahnInv
<1> SUFFICES ASSUME CountDependencies PROVE KahnInv
  OBVIOUS
<1> DEFINE free == {m \in Members : deps[m] = {}}
<1>1. deps \in Graphs /\ queue = InFileOrder(free) /\ removed = 0
      /\ indegree = [m \in Members |-> Cardinality(deps[m])]
      /\ answered = FALSE /\ stuck = {}
  BY DEF CountDependencies
<1>2. free \in SUBSET Members
  OBVIOUS
<1>3. \A m \in Members : deps[m] \ {} = deps[m]
  OBVIOUS
<1>4. \A m \in Members : indegree[m] \in Nat /\ (indegree[m] = 0 <=> m \in free)
  BY <1>1, <1>3, DepsFinite
<1> HIDE DEF free
<1>5. queue \in Seq(Members) /\ Queued = free
      /\ \A i, j \in 1 .. Len(queue) : queue[i] = queue[j] => i = j
  BY <1>1, <1>2, InFileOrderLists DEF Queued
<1>6. Done = {}
  BY <1>4, <1>5 DEF Done
<1>7. \A m \in Members : indegree[m] = Cardinality(deps[m] \ Done)
  BY <1>1, <1>3, <1>6
<1>8. removed = Cardinality(Done)
  BY <1>1, <1>6, FS_EmptySet
<1>9. indegree \in [Members -> Nat]
  BY <1>1, <1>4
<1>10. \A m \in Queued : indegree[m] = 0
  BY <1>2, <1>4, <1>5
<1>11. \A s \in SUBSET Members : Waits(deps, s) => s \cap Done = {}
  BY <1>6
<1>12. stuck \subseteq Members /\ removed \in Nat /\ answered \in BOOLEAN /\ ~ answered
  BY <1>1
<1>13. QED
  BY <1>1, <1>5, <1>7, <1>8, <1>9, <1>10, <1>11, <1>12 DEF KahnInv

(* What one round of the loop does to the queue and the degrees.           *)
LEMMA DequeueEffect ==
  ASSUME KahnInv, Dequeue
  PROVE  /\ queue \in Seq(Members) /\ queue # <<>> /\ Head(queue) \in Queued
         /\ Done' = Done \cup {Head(queue)} /\ Head(queue) \notin Done
         /\ queue' \in Seq(Members) /\ indegree' \in [Members -> Nat]
         /\ \A i, j \in 1 .. Len(queue') : queue'[i] = queue'[j] => i = j
         /\ \A m \in Queued' : indegree'[m] = 0
         /\ \A m \in Members : indegree'[m] = Cardinality(deps[m] \ Done')
<1> DEFINE name == Head(queue)
           dependents == {m \in Members : name \in deps[m]}
           new == {m \in dependents : indegree'[m] = 0}
           fresh == InFileOrder(new)
<1>1. queue \in Seq(Members) /\ queue # <<>> /\ name = queue[1] /\ 1 \in 1 .. Len(queue)
  BY HeadTailProperties DEF Dequeue, KahnInv
<1>2. name \in Members /\ name \in Queued /\ indegree[name] = 0 /\ name \notin Done
  BY <1>1 DEF KahnInv, Queued, Done
<1>3. deps \in Graphs /\ indegree \in [Members -> Nat]
      /\ \A m \in Members : indegree[m] = Cardinality(deps[m] \ Done)
  BY DEF KahnInv
<1>4. indegree' = [m \in Members |->
                     IF m \in dependents THEN indegree[m] - 1 ELSE indegree[m]]
      /\ queue' = Tail(queue) \o fresh
  BY DEF Dequeue
<1>5. \A m \in Members : indegree'[m] = Cardinality(deps[m] \ (Done \cup {name}))
                         /\ indegree'[m] \in Nat
                         /\ (m \in dependents => indegree[m] # 0)
  <2> TAKE m \in Members
  <2>1. IsFiniteSet(deps[m] \ Done) /\ IsFiniteSet(deps[m] \ (Done \cup {name}))
        /\ Cardinality(deps[m] \ (Done \cup {name})) \in Nat
        /\ Cardinality(deps[m] \ Done) \in Nat
    BY <1>3, DepsFinite
  <2>2. CASE m \in dependents
    <3>1. name \in deps[m] \ Done
          /\ deps[m] \ (Done \cup {name}) = (deps[m] \ Done) \ {name}
      BY <1>2, <2>2
    <3>2. Cardinality((deps[m] \ Done) \ {name}) = Cardinality(deps[m] \ Done) - 1
      BY <3>1, <2>1, FS_RemoveElement
    <3>3. Cardinality(deps[m] \ (Done \cup {name})) = indegree[m] - 1
      BY <3>1, <3>2, <1>3
    <3>4. indegree'[m] = indegree[m] - 1
      BY <2>2, <1>4
    <3>5. indegree[m] \in Nat /\ indegree[m] - 1 \in Nat
      BY <3>3, <2>1, <1>3
    <3>6. QED
      BY <3>3, <3>4, <3>5
  <2>3. CASE m \notin dependents
    <3>1. deps[m] \ (Done \cup {name}) = deps[m] \ Done
      BY <2>3
    <3>2. QED
      BY <3>1, <2>1, <2>3, <1>3, <1>4
  <2>4. QED
    BY <2>2, <2>3
<1>6. new \in SUBSET Members /\ new \cap Queued = {} /\ name \notin dependents
      /\ \A m \in new : indegree'[m] = 0
  <2>1. \A m \in Queued : indegree[m] = 0
    BY DEF KahnInv
  <2>2. \A m \in dependents : m \in Members /\ indegree[m] # 0
    BY <1>5
  <2>3. QED
    BY <2>1, <2>2, <1>2
<1>7. fresh \in Seq(Members) /\ Len(fresh) \in Nat
      /\ (\A m : m \in new <=> \E i \in 1 .. Len(fresh) : fresh[i] = m)
      /\ \A i, j \in 1 .. Len(fresh) : fresh[i] = fresh[j] => i = j
  <2> HIDE DEF new
  <2> QED BY <1>6, InFileOrderLists, MembersFinite
<1>8. \A m \in dependents : indegree'[m] # 0 \/ m \in new
  OBVIOUS
<1>9. \A m \in Members \ dependents : indegree'[m] = indegree[m]
  BY <1>4
<1>10. dependents \subseteq Members /\ new \subseteq dependents
  OBVIOUS
<1> HIDE DEF name, dependents, new, fresh
<1> DEFINE rest == Tail(queue)
<1>11. rest \in Seq(Members) /\ Len(queue) = Len(rest) + 1 /\ Len(rest) \in Nat
       /\ \A i \in 1 .. Len(rest) : rest[i] = queue[i + 1]
  BY <1>1, HeadTailProperties
<1>12. queue' \in Seq(Members) /\ Len(queue') = Len(rest) + Len(fresh)
       /\ \A i \in 1 .. Len(rest) + Len(fresh) :
            queue'[i] = IF i <= Len(rest) THEN rest[i] ELSE fresh[i - Len(rest)]
  BY <1>4, <1>7, <1>11, ConcatProperties
<1> HIDE DEF rest
<1>13. \A i, j \in 1 .. Len(queue) : queue[i] = queue[j] => i = j
  BY DEF KahnInv
<1>14. \A i \in 1 .. Len(rest) : rest[i] \in Queued /\ rest[i] # name
  BY <1>1, <1>11, <1>13 DEF Queued
<1>15. \A m : m \in Queued' <=> (m \in Queued /\ m # name) \/ m \in new
  <2> TAKE m
  <2>1. ASSUME m \in Queued' PROVE (m \in Queued /\ m # name) \/ m \in new
    <3>1. PICK i \in 1 .. Len(queue') : queue'[i] = m
      BY <2>1 DEF Queued
    <3>2. CASE i <= Len(rest)
      BY <3>1, <3>2, <1>11, <1>12, <1>14
    <3>3. CASE ~ (i <= Len(rest))
      <4>1. i - Len(rest) \in 1 .. Len(fresh)
        BY <3>1, <3>3, <1>7, <1>11, <1>12
      <4>2. QED
        BY <4>1, <3>1, <3>3, <1>7, <1>12
    <3>4. QED
      BY <3>2, <3>3
  <2>2. ASSUME m \in Queued, m # name PROVE m \in Queued'
    <3>1. PICK i \in 1 .. Len(queue) : queue[i] = m
      BY <2>2 DEF Queued
    <3>2. i # 1 /\ i - 1 \in 1 .. Len(rest) /\ (i - 1) + 1 = i
      BY <3>1, <2>2, <1>1, <1>11
    <3>3. i - 1 \in 1 .. Len(queue') /\ queue'[i - 1] = m
      BY <3>1, <3>2, <1>7, <1>11, <1>12
    <3>4. QED
      BY <3>3 DEF Queued
  <2>3. ASSUME m \in new PROVE m \in Queued'
    <3>1. PICK i \in 1 .. Len(fresh) : fresh[i] = m
      BY <2>3, <1>7
    <3>2. i + Len(rest) \in 1 .. Len(queue') /\ ~ (i + Len(rest) <= Len(rest))
          /\ (i + Len(rest)) - Len(rest) = i
      BY <3>1, <1>7, <1>11, <1>12
    <3>3. queue'[i + Len(rest)] = m
      BY <3>1, <3>2, <1>12
    <3>4. QED
      BY <3>2, <3>3 DEF Queued
  <2>4. QED
    BY <2>1, <2>2, <2>3
<1>16. Done' = Done \cup {name}
  <2>1. \A m \in Members : m \in Done' <=> indegree'[m] = 0 /\ m \notin Queued'
    BY DEF Done
  <2>2. \A m \in Members : m \in Done <=> indegree[m] = 0 /\ m \notin Queued
    BY DEF Done
  <2>3. \A m \in Members : m \in Done' <=> m \in Done \/ m = name
    <3> TAKE m \in Members
    <3>1. CASE m \in dependents
      <4>1. indegree[m] # 0 /\ m # name
        BY <3>1, <1>5, <1>6
      <4>2. indegree'[m] # 0 \/ m \in Queued'
        BY <3>1, <1>8, <1>15
      <4>3. QED
        BY <4>1, <4>2, <2>1, <2>2
    <3>2. CASE m \notin dependents
      <4>1. indegree'[m] = indegree[m] /\ m \notin new
        BY <3>2, <1>9, <1>10
      <4>2. m \in Queued' <=> m \in Queued /\ m # name
        BY <4>1, <1>15
      <4>3. QED
        BY <4>1, <4>2, <2>1, <2>2, <1>2
    <3>3. QED
      BY <3>1, <3>2
  <2>4. Done \subseteq Members /\ Done' \subseteq Members
    BY DEF Done
  <2>5. QED
    BY <2>3, <2>4, <1>2
<1>17. \A m \in Queued' : indegree'[m] = 0
  <2>1. \A m \in Queued : m \in Members /\ indegree[m] = 0
    BY <1>1 DEF KahnInv, Queued
  <2>2. \A m \in Queued : m \notin dependents
    <3>1. \A m \in dependents : m \in Members /\ indegree[m] # 0
      BY <1>5, <1>10
    <3>2. QED
      BY <3>1, <2>1
  <2>3. QED
    BY <2>1, <2>2, <1>6, <1>9, <1>15
<1>18. \A i, j \in 1 .. Len(queue') : queue'[i] = queue'[j] => i = j
  <2> TAKE i, j \in 1 .. Len(queue')
  <2> HAVE queue'[i] = queue'[j]
  <2>1. CASE i <= Len(rest) /\ j <= Len(rest)
    <3>1. i \in 1 .. Len(rest) /\ j \in 1 .. Len(rest) /\ rest[i] = rest[j]
      BY <2>1, <1>7, <1>11, <1>12
    <3>2. i + 1 \in 1 .. Len(queue) /\ j + 1 \in 1 .. Len(queue)
          /\ queue[i + 1] = queue[j + 1]
      BY <3>1, <1>11
    <3>3. i + 1 = j + 1
      BY <3>2, <1>13
    <3>4. QED
      BY <3>1, <3>3
  <2>2. CASE ~ (i <= Len(rest)) /\ ~ (j <= Len(rest))
    <3>1. i - Len(rest) \in 1 .. Len(fresh) /\ j - Len(rest) \in 1 .. Len(fresh)
          /\ fresh[i - Len(rest)] = fresh[j - Len(rest)]
      BY <2>2, <1>7, <1>11, <1>12
    <3>2. i - Len(rest) = j - Len(rest)
      BY <3>1, <1>7
    <3>3. QED
      BY <3>2, <1>7, <1>11, <1>12
  <2>3. ASSUME NEW a \in 1 .. Len(queue'), NEW b \in 1 .. Len(queue'),
               queue'[a] = queue'[b], a <= Len(rest), ~ (b <= Len(rest))
        PROVE  FALSE
    <3>1. queue'[a] \in Queued
      BY <2>3, <1>11, <1>12, <1>14
    <3>2. b - Len(rest) \in 1 .. Len(fresh)
      BY <2>3, <1>7, <1>11, <1>12
    <3>3. queue'[b] \in new
      BY <2>3, <3>2, <1>7, <1>12
    <3>4. QED
      BY <3>1, <3>3, <2>3, <1>6
  <2>4. QED
    BY <2>1, <2>2, <2>3
<1>19. indegree' \in [Members -> Nat]
  BY <1>4, <1>5
<1>20. \A m \in Members : indegree'[m] = Cardinality(deps[m] \ Done')
  BY <1>5, <1>16
<1>21. QED
  BY <1>1, <1>2, <1>12, <1>16, <1>17, <1>18, <1>19, <1>20 DEF name
LEMMA DequeueInv ==
  ASSUME KahnInv, Dequeue
  PROVE  KahnInv'
<1> DEFINE name == Head(queue)
<1>1. /\ Done' = Done \cup {name} /\ name \notin Done /\ name \in Queued
      /\ queue' \in Seq(Members) /\ indegree' \in [Members -> Nat]
      /\ \A i, j \in 1 .. Len(queue') : queue'[i] = queue'[j] => i = j
      /\ \A m \in Queued' : indegree'[m] = 0
      /\ \A m \in Members : indegree'[m] = Cardinality(deps[m] \ Done')
  BY DequeueEffect
<1>2. deps' = deps /\ removed' = removed + 1 /\ ~ answered' /\ stuck' = stuck
      /\ answered' \in BOOLEAN
  BY DEF Dequeue, KahnInv
<1>3. deps \in Graphs /\ removed \in Nat /\ removed = Cardinality(Done)
      /\ stuck \subseteq Members /\ queue \in Seq(Members)
      /\ (\A m \in Queued : indegree[m] = 0)
      /\ (\A m \in Members : indegree[m] = Cardinality(deps[m] \ Done))
      /\ \A s \in SUBSET Members : Waits(deps, s) => s \cap Done = {}
  BY DEF KahnInv
<1>4. name \in Members
  BY <1>1, <1>3 DEF Queued
<1>5. removed' = Cardinality(Done')
  <2>1. Done \in SUBSET Members
    BY DEF Done
  <2>2. Cardinality(Done \cup {name}) = Cardinality(Done) + 1
    BY <2>1, <1>1, MembersFinite, FS_AddElement
  <2>3. QED
    BY <2>2, <1>1, <1>2, <1>3
<1>6. deps[name] \subseteq Done
  <2>1. Cardinality(deps[name] \ Done) = 0
    BY <1>1, <1>3, <1>4
  <2>2. QED
    BY <2>1, <1>3, <1>4, DepsFinite
<1>7. ASSUME NEW s \in SUBSET Members, Waits(deps, s)
      PROVE  s \cap Done' = {}
  <2>1. s \cap Done = {}
    BY <1>3, <1>7
  <2>2. name \notin s
    BY <2>1, <1>6, <1>7 DEF Waits
  <2>3. QED
    BY <2>1, <2>2, <1>1
<1>8. \A s \in SUBSET Members : Waits(deps', s) => s \cap Done' = {}
  BY <1>7, <1>2
<1>9. \A m \in Members : indegree'[m] = Cardinality(deps'[m] \ Done')
  BY <1>1, <1>2
<1> HIDE DEF name
<1>10. deps' \in Graphs /\ removed' \in Nat /\ stuck' \subseteq Members
  BY <1>2, <1>3
<1>11. QED
  BY <1>1, <1>2, <1>5, <1>8, <1>9, <1>10 DEF KahnInv

LEMMA ReportInv ==
  ASSUME KahnInv, Report
  PROVE  KahnInv'
<1>1. queue = <<>> /\ answered' = TRUE /\ UNCHANGED <<deps, indegree, queue, removed>>
      /\ stuck' = IF removed = NumMembers THEN {} ELSE {m \in Members : indegree[m] > 0}
  BY DEF Report
<1>2. Queued' = Queued /\ Done' = Done
  BY <1>1 DEF Done, Queued
<1>3. Done = {m \in Members : indegree[m] = 0}
  BY <1>1 DEF Done, Queued
<1>4. stuck' = Members \ Done
  <2>1. CASE removed = NumMembers
    <3>1. Done \in SUBSET Members /\ Cardinality(Members) = Cardinality(Done)
      BY <1>3, <2>1, MembersFinite DEF KahnInv
    <3>2. Done = Members
      BY <3>1, MembersFinite, FS_Subset
    <3>3. QED
      BY <3>2, <2>1, <1>1
  <2>2. CASE removed # NumMembers
    <3>1. \A m \in Members : indegree[m] > 0 <=> m \notin Done
      BY <1>3 DEF KahnInv
    <3>2. QED
      BY <3>1, <2>2, <1>1
  <2>3. QED
    BY <2>1, <2>2
<1>5. deps' = deps /\ indegree' = indegree /\ queue' = queue /\ removed' = removed
  BY <1>1
<1>6. answered' \in BOOLEAN /\ queue' = <<>> /\ stuck' \subseteq Members
      /\ stuck' = Members \ Done'
  BY <1>1, <1>2, <1>4
<1>7. QED
  BY <1>2, <1>5, <1>6 DEF KahnInv

LEMMA KahnUnchanged ==
  ASSUME KahnInv, UNCHANGED kahnVars
  PROVE  KahnInv'
<1>1. deps' = deps /\ indegree' = indegree /\ queue' = queue /\ removed' = removed
      /\ answered' = answered /\ stuck' = stuck
  BY DEF kahnVars
<1>2. Queued' = Queued
  BY <1>1 DEF Queued
<1>3. Done' = Done
  BY <1>1, <1>2 DEF Done
<1>4. QED
  BY <1>1, <1>2, <1>3 DEF KahnInv

(* Nothing that waits for itself was removed, and what is left waits for   *)
(* itself: the answer is the largest such set.                             *)
LEMMA StuckIsDeadlocked == KahnInv => ReportsDeadlocked
<1> SUFFICES ASSUME KahnInv, answered
             PROVE  stuck = Deadlocked(deps)
  BY DEF ReportsDeadlocked
<1>1. deps \in Graphs /\ queue = <<>> /\ stuck = Members \ Done
      /\ \A m \in Members : indegree[m] = Cardinality(deps[m] \ Done)
  BY DEF KahnInv
<1>2. Done = {m \in Members : indegree[m] = 0}
  BY <1>1 DEF Done, Queued
<1>3. Waits(deps, stuck)
  <2> SUFFICES ASSUME NEW m \in stuck PROVE deps[m] \cap stuck # {}
    BY DEF Waits
  <2>1. m \in Members /\ Cardinality(deps[m] \ Done) # 0
    BY <1>1, <1>2
  <2>2. deps[m] \subseteq Members /\ ~ (deps[m] \subseteq Done)
    BY <2>1, <1>1, DepsFinite
  <2>3. QED
    BY <2>2, <1>1
<1>4. \A s \in SUBSET Members : Waits(deps, s) => s \subseteq stuck
  <2> SUFFICES ASSUME NEW s \in SUBSET Members, Waits(deps, s) PROVE s \subseteq stuck
    OBVIOUS
  <2>1. s \cap Done = {}
    BY DEF KahnInv
  <2>2. QED
    BY <2>1, <1>1
<1>5. stuck \in SUBSET Members
  BY <1>1
<1>6. QED
  BY <1>3, <1>4, <1>5 DEF Deadlocked
-----------------------------------------------------------------------------
(* The scheduler. A dependency, and all below it, is below.                *)
LEMMA BelowDeps ==
  ASSUME deps \in Graphs, NEW m \in Members, NEW d \in deps[m]
  PROVE  d \in Members /\ d \in Below(m) /\ Below(d) \subseteq Below(m)
BY DEF Graphs, Below

LEMMA SameBelow ==
  ASSUME deps' = deps
  PROVE  \A m \in Members : Below(m)' = Below(m)
BY DEF Below

LEMMA AliveFinite ==
  IsFiniteSet(Alive) /\ Cardinality(Alive) \in Nat /\ (Cardinality(Alive) = 0 <=> Alive = {})
<1>1. Alive \in SUBSET Members
  BY DEF Alive
<1>2. IsFiniteSet(Alive) /\ Cardinality(Alive) \in Nat
  BY <1>1, MembersFinite
<1>3. QED
  BY <1>2, FS_EmptySet

LEMMA InitInv == Init => GameDayInv
<1> SUFFICES ASSUME Init PROVE GameDayInv
  OBVIOUS
<1>1. KahnInv
  BY KahnInit DEF Init
<1>2. TypeOK
  BY MaxParallelAssumption DEF Init, TypeOK, Configs, NoAnswer
<1>3. LoadInv /\ LoopInv /\ DependencyOrder /\ ExitTellsAll
  BY DEF Init, LoadInv, LoopInv, DependencyOrder, ExitTellsAll
<1>4. MemberInv
  BY DEF Init, MemberInv, NoAnswer, RunOutcomes
<1>5. SkipsAreCaused
  BY DEF Init, SkipsAreCaused
<1>6. CountInv
  <2>1. Alive = {}
    BY DEF Init, Alive
  <2>2. QED
    BY <2>1, <1>2, FS_EmptySet DEF Init, CountInv, TypeOK, Configs
<1>7. QED
  BY <1>1, <1>2, <1>3, <1>4, <1>5, <1>6 DEF GameDayInv

(* While the file is read nothing runs.                                    *)
LEMMA FindCyclesInv ==
  ASSUME GameDayInv, FindCycles
  PROVE  GameDayInv'
<1> USE DEF GameDayInv
<1>1. KahnInv' /\ deps' = deps /\ pc = "load"
  BY DequeueInv, ReportInv DEF FindCycles, CycleMembers, Dequeue, Report
<1>2. cfg' = cfg /\ pc' = pc /\ ctx' = ctx /\ outcomes' = outcomes /\ running' = running
      /\ member' = member /\ answer' = answer /\ recorded' = recorded /\ exit' = exit
  BY DEF FindCycles, schedVars
<1>3. TypeOK' /\ MemberInv'
  BY <1>2 DEF TypeOK, MemberInv, Configs
<1>4. LoadInv' /\ LoopInv' /\ ExitTellsAll'
  BY <1>1, <1>2 DEF LoadInv, LoopInv, ExitTellsAll
<1>5. CountInv'
  BY <1>2 DEF CountInv, Alive
<1>6. DependencyOrder' /\ SkipsAreCaused'
  BY <1>1, <1>2, SameBelow DEF DependencyOrder, SkipsAreCaused
<1>7. QED
  BY <1>1, <1>3, <1>4, <1>5, <1>6

LEMMA LoadedInv ==
  ASSUME GameDayInv, Loaded
  PROVE  GameDayInv'
<1> USE DEF GameDayInv, Loaded
<1>1. KahnInv' /\ deps' = deps /\ stuck' = stuck /\ answered' = answered
  BY KahnUnchanged DEF kahnVars
<1>2. TypeOK' /\ MemberInv'
  BY DEF TypeOK, MemberInv, Configs
<1>3. LoadInv' /\ LoopInv' /\ ExitTellsAll'
  BY <1>1 DEF LoadInv, LoopInv, ExitTellsAll, LogsDistinct, Distinct, Parallelism
<1>4. CountInv'
  BY DEF CountInv, Alive
<1>5. DependencyOrder' /\ SkipsAreCaused'
  BY <1>1, SameBelow DEF DependencyOrder, SkipsAreCaused
<1>6. QED
  BY <1>1, <1>2, <1>3, <1>4, <1>5

(* Skipping members that wait disturbs nothing that runs or has run, and   *)
(* the cause of each new skip is below it.                                 *)
LEMMA SkipKeeps ==
  ASSUME GameDayInv, NEW s \in SUBSET Pending, Skip(s),
         UNCHANGED <<kahnVars, cfg, ctx, running, answer, recorded, exit>>,
         \A m \in s : ctx # "live" \/ Blocked(m)
  PROVE  /\ KahnInv' /\ deps' = deps /\ stuck' = stuck /\ answered' = answered
         /\ outcomes' \in [Members -> RunOutcomes \cup {"none", "skipped"}]
         /\ member' \in [Members -> {"pending", "starting", "drilling", "answered", "settled"}]
         /\ MemberInv' /\ CountInv' /\ DependencyOrder' /\ SkipsAreCaused'
<1> USE DEF GameDayInv
<1>1. KahnInv' /\ deps' = deps /\ stuck' = stuck /\ answered' = answered
  BY KahnUnchanged DEF kahnVars
<1>2. \A m \in s : m \in Members /\ member[m] = "pending" /\ outcomes[m] = "none"
                   /\ answer[m] = NoAnswer /\ m \notin recorded
  BY DEF Pending, MemberInv, NoAnswer
<1>3. \A m \in Members :
        /\ outcomes'[m] = IF m \in s THEN "skipped" ELSE outcomes[m]
        /\ member'[m] = IF m \in s THEN "settled" ELSE member[m]
  BY DEF Skip
<1>4. outcomes' \in [Members -> RunOutcomes \cup {"none", "skipped"}]
      /\ member' \in [Members -> {"pending", "starting", "drilling", "answered", "settled"}]
  BY DEF Skip, TypeOK
<1>5. MemberInv'
  BY <1>2, <1>3 DEF MemberInv, NoAnswer, RunOutcomes
<1>6. CountInv'
  <2>1. Alive' = Alive
    BY <1>2, <1>3 DEF Alive
  <2>2. QED
    BY <2>1 DEF CountInv
<1>7. DependencyOrder'
  <2> SUFFICES ASSUME NEW m \in Members,
                      member'[m] \in {"starting", "drilling", "answered"} \/ m \in recorded',
                      NEW d \in deps'[m]
               PROVE  outcomes'[d] = "pass" /\ d \in recorded'
    BY DEF DependencyOrder
  <2>1. d \in Members
    BY <1>1 DEF KahnInv, Graphs
  <2>2. outcomes[d] = "pass" /\ d \in recorded
    BY <1>1, <1>2, <1>3 DEF DependencyOrder
  <2>3. QED
    BY <2>1, <2>2, <1>2, <1>3
<1>8. SkipsAreCaused'
  <2> SUFFICES ASSUME NEW m \in Members, outcomes'[m] = "skipped", ctx = "live"
               PROVE  \E n \in Below(m) : outcomes'[n] \in {"fail", "error", "cancelled"}
    BY <1>1, SameBelow DEF SkipsAreCaused
  <2>1. \A n \in Members : outcomes[n] \in {"fail", "error", "cancelled"}
                             => outcomes'[n] = outcomes[n]
    BY <1>2, <1>3
  <2>2. \A k \in Members : Below(k) \subseteq Members
    BY DEF Below
  <2>3. CASE m \notin s
    BY <2>1, <2>2, <2>3, <1>3 DEF SkipsAreCaused
  <2>4. CASE m \in s
    <3>1. PICK d \in deps[m] : outcomes[d] \notin {"none", "pass"}
      BY <2>4 DEF Blocked
    <3>2. d \in Members /\ d \in Below(m) /\ Below(d) \subseteq Below(m)
      BY <3>1, BelowDeps DEF KahnInv
    <3>3. outcomes[d] \in {"fail", "error", "cancelled"} \/ outcomes[d] = "skipped"
      BY <3>1, <3>2 DEF TypeOK, RunOutcomes
    <3>4. QED
      BY <3>2, <3>3, <2>1, <2>2 DEF SkipsAreCaused
  <2>5. QED
    BY <2>3, <2>4
<1>9. QED
  BY <1>1, <1>4, <1>5, <1>6, <1>7, <1>8

LEMMA SkipBlockedInv ==
  ASSUME GameDayInv, NEW m \in Members, SkipBlocked(m)
  PROVE  GameDayInv'
<1> USE DEF GameDayInv, SkipBlocked
<1>1. /\ KahnInv' /\ deps' = deps /\ stuck' = stuck /\ answered' = answered
      /\ outcomes' \in [Members -> RunOutcomes \cup {"none", "skipped"}]
      /\ member' \in [Members -> {"pending", "starting", "drilling", "answered", "settled"}]
      /\ MemberInv' /\ CountInv' /\ DependencyOrder' /\ SkipsAreCaused'
  <2>1. {m} \in SUBSET Pending
    OBVIOUS
  <2>2. \A n \in {m} : ctx # "live" \/ Blocked(n)
    OBVIOUS
  <2>3. QED
    BY <2>1, <2>2, SkipKeeps
<1>2. TypeOK'
  BY <1>1 DEF TypeOK, Configs
<1>3. LoadInv' /\ LoopInv' /\ ExitTellsAll'
  BY <1>1 DEF LoadInv, LoopInv, ExitTellsAll, LogsDistinct, Distinct, Parallelism
<1>4. QED
  BY <1>1, <1>2, <1>3

LEMMA SkipsSettledInv ==
  ASSUME GameDayInv, SkipsSettled
  PROVE  GameDayInv'
<1> USE DEF GameDayInv, SkipsSettled
<1>1. KahnInv' /\ deps' = deps /\ stuck' = stuck /\ answered' = answered
  BY KahnUnchanged DEF kahnVars
<1>2. TypeOK' /\ MemberInv'
  BY DEF TypeOK, MemberInv, Configs
<1>3. LoadInv' /\ ExitTellsAll'
  BY <1>1 DEF LoadInv, ExitTellsAll, LogsDistinct, Distinct, Parallelism
<1>4. LoopInv'
  BY <1>1 DEF LoopInv, Pending, Blocked
<1>5. CountInv'
  BY DEF CountInv, Alive
<1>6. DependencyOrder' /\ SkipsAreCaused'
  BY <1>1, SameBelow DEF DependencyOrder, SkipsAreCaused
<1>7. QED
  BY <1>1, <1>2, <1>3, <1>4, <1>5, <1>6

LEMMA SkipRemainingInv ==
  ASSUME GameDayInv, SkipRemaining
  PROVE  GameDayInv'
<1> USE DEF GameDayInv, SkipRemaining
<1> DEFINE s == IF ctx = "live" THEN {} ELSE Pending
<1>0. s \in SUBSET Pending /\ Skip(s) /\ \A n \in s : ctx # "live" \/ Blocked(n)
  OBVIOUS
<1>1. /\ KahnInv' /\ deps' = deps /\ stuck' = stuck /\ answered' = answered
      /\ outcomes' \in [Members -> RunOutcomes \cup {"none", "skipped"}]
      /\ member' \in [Members -> {"pending", "starting", "drilling", "answered", "settled"}]
      /\ MemberInv' /\ CountInv' /\ DependencyOrder' /\ SkipsAreCaused'
  <2> HIDE DEF s
  <2> QED BY <1>0, SkipKeeps
<1>2. TypeOK'
  BY <1>1 DEF TypeOK, Configs
<1>3. LoadInv' /\ ExitTellsAll'
  BY <1>1 DEF LoadInv, ExitTellsAll, LogsDistinct, Distinct, Parallelism
<1>4. LoopInv'
  <2>1. \A m \in Members : member'[m] = "pending" => m \in Pending /\ ctx = "live"
    BY DEF Skip, Pending
  <2>2. ctx = "live" => outcomes' = outcomes
    BY DEF Skip, TypeOK
  <2>3. QED
    BY <1>1, <2>1, <2>2 DEF LoopInv, Pending, Blocked
<1>5. QED
  BY <1>1, <1>2, <1>3, <1>4
(* launchReady. The last member launched has fewer ready ones before it    *)
(* than there are slots, and all the others are among those.               *)
LEMMA LaunchedFit ==
  ASSUME GameDayInv
  PROVE  IsFiniteSet(Launched) /\ Cardinality(Launched) \in 0 .. Slots
<1>1. Slots \in Nat
  BY DEF GameDayInv, TypeOK, Configs, Slots, Parallelism
<1>2. Launched \in SUBSET Members
  BY DEF Launched
<1>3. IsFiniteSet(Launched) /\ Cardinality(Launched) \in Nat
  BY <1>2, MembersFinite
<1>4. CASE Launched = {}
  BY <1>1, <1>3, <1>4, FS_EmptySet
<1>5. CASE Launched # {}
  <2>1. NumMembers \in Nat /\ Launched \subseteq 0 .. NumMembers
    BY <1>2, NumMembersAssumption DEF Members
  <2>2. PICK m \in Launched : \A k \in Launched : k <= m
    BY <2>1, <1>5, NatGreatest
  <2> DEFINE before == {k \in 1 .. (m - 1) : Ready(k)}
  <2>3. m \in Members /\ Cardinality(before) < Slots
    BY <2>2 DEF Launched
  <2>4. before \in SUBSET Members
    BY DEF Ready, Pending
  <2>5. IsFiniteSet(before) /\ Cardinality(before) \in Nat
    BY <2>4, MembersFinite
  <2>6. Launched \in SUBSET (before \cup {m})
    <3> SUFFICES ASSUME NEW k \in Launched, k # m PROVE k \in before
      OBVIOUS
    <3>1. k \in 1 .. (m - 1)
      BY <2>2, <2>3, <1>2 DEF Members
    <3>2. Ready(k)
      BY DEF Launched
    <3>3. QED
      BY <3>1, <3>2
  <2> HIDE DEF before
  <2>7. IsFiniteSet(before \cup {m}) /\ Cardinality(before \cup {m}) <= Cardinality(before) + 1
    <3>1. IsFiniteSet(before \cup {m})
          /\ Cardinality(before \cup {m})
               = IF m \in before THEN Cardinality(before) ELSE Cardinality(before) + 1
      BY <2>5, FS_AddElement
    <3>2. QED
      BY <3>1, <2>5
  <2>8. Cardinality(before \cup {m}) \in Nat
    BY <2>7, FS_CardinalityType
  <2>9. Cardinality(Launched) <= Cardinality(before \cup {m})
    BY <2>6, <2>7, FS_Subset
  <2>10. QED
    BY <2>3, <2>5, <2>7, <2>8, <2>9, <1>1, <1>3
<1>6. QED
  BY <1>4, <1>5

(* When nothing runs and nothing is launched nothing waits either: the     *)
(* first ready member would have been launched, and members that only wait *)
(* for each other would have been reported by cycleMembers.                *)
LEMMA NothingLeftWaiting ==
  ASSUME GameDayInv, pc = "launch", Alive = {}, Launched = {}
  PROVE  Pending = {}
<1> USE DEF GameDayInv
<1>1. running = 0 /\ Slots \in Nat \ {0}
  BY FS_EmptySet DEF CountInv, TypeOK, Configs, Slots, Parallelism
<1>2. \A m \in Members : ~ Ready(m)
  <2> DEFINE ready == {m \in Members : Ready(m)}
  <2> SUFFICES ASSUME ready # {} PROVE FALSE
    OBVIOUS
  <2>1. ready \subseteq Nat
    BY NumMembersAssumption DEF Members
  <2>2. PICK m \in ready : \A k \in ready : m <= k
    BY <2>1, NatLeast
  <2>3. m \in Members /\ Ready(m)
    BY <2>2
  <2>4. {k \in 1 .. (m - 1) : Ready(k)} = {}
    <3> SUFFICES ASSUME NEW k \in 1 .. (m - 1), Ready(k) PROVE FALSE
      OBVIOUS
    <3>1. k \in ready
      BY DEF Ready, Pending
    <3>2. m <= k
      BY <3>1, <2>2
    <3>3. QED
      BY <3>2, <2>3 DEF Members
  <2>5. Cardinality({k \in 1 .. (m - 1) : Ready(k)}) = 0
    BY <2>4, FS_EmptySet
  <2>6. m \in Launched
    BY <2>3, <2>5, <1>1 DEF Launched
  <2>7. QED
    BY <2>6
<1>3. Waits(deps, Pending)
  <2> SUFFICES ASSUME NEW m \in Pending PROVE deps[m] \cap Pending # {}
    BY DEF Waits
  <2>1. m \in Members /\ ~ Ready(m) /\ ~ Blocked(m)
    BY <1>2 DEF LoopInv, Pending
  <2>2. PICK d \in deps[m] : outcomes[d] = "none"
    BY <2>1 DEF Ready, Blocked
  <2>3. d \in Members
    BY <2>1, BelowDeps DEF KahnInv
  <2>4. member[d] # "settled" /\ member[d] \notin {"starting", "drilling", "answered"}
    BY <2>2, <2>3 DEF MemberInv, Alive
  <2>5. d \in Pending
    BY <2>3, <2>4 DEF Pending, TypeOK
  <2>6. QED
    BY <2>2, <2>5
<1>4. stuck = {} /\ answered
  BY DEF LoadInv
<1>5. Deadlocked(deps) = {}
  BY <1>4, StuckIsDeadlocked DEF ReportsDeadlocked
<1>6. Pending \in SUBSET Members
  BY DEF Pending
<1>7. QED
  BY <1>3, <1>5, <1>6 DEF Deadlocked

LEMMA LaunchReadyInv ==
  ASSUME GameDayInv, LaunchReady
  PROVE  GameDayInv'
<1> USE DEF GameDayInv, LaunchReady
<1>1. KahnInv' /\ deps' = deps /\ stuck' = stuck /\ answered' = answered
  BY KahnUnchanged DEF kahnVars
<1>2. \A m \in Launched : m \in Members /\ member[m] = "pending" /\ outcomes[m] = "none"
                          /\ answer[m] = NoAnswer /\ \A d \in deps[m] : outcomes[d] = "pass"
  BY DEF Launched, Ready, Pending, MemberInv
<1>3. \A m \in Members : member'[m] = IF m \in Launched THEN "starting" ELSE member[m]
  OBVIOUS
<1>4. IsFiniteSet(Launched) /\ Cardinality(Launched) \in 0 .. Slots
  BY LaunchedFit
<1>5. Slots = cfg.par - running /\ running \in 0 .. cfg.par /\ cfg.par \in Nat
  BY DEF TypeOK, Configs, Slots, Parallelism
<1>6. running' = running + Cardinality(Launched) /\ running' \in 0 .. cfg.par
  BY <1>4, <1>5
<1>7. Alive' = Alive \cup Launched /\ Alive \cap Launched = {}
  BY <1>2, <1>3 DEF Alive
<1>8. CountInv'
  <2>1. Cardinality(Alive \cup Launched)
          = Cardinality(Alive) + Cardinality(Launched) - Cardinality(Alive \cap Launched)
    BY <1>4, AliveFinite, FS_Union
  <2>2. Cardinality(Alive \cap Launched) = 0
    BY <1>7, FS_EmptySet
  <2>3. Cardinality(Alive') = running + Cardinality(Launched)
    BY <2>1, <2>2, <1>4, <1>7, AliveFinite DEF CountInv
  <2>4. QED
    BY <2>3, <1>5, <1>6 DEF CountInv
<1>9. TypeOK'
  <2>1. member' \in [Members -> {"pending", "starting", "drilling", "answered", "settled"}]
    BY DEF TypeOK
  <2>2. QED
    BY <2>1, <1>6 DEF TypeOK, Configs
<1>10. LoadInv'
  BY <1>1 DEF LoadInv, LogsDistinct, Distinct, Parallelism
<1>11. MemberInv'
  BY <1>2, <1>3 DEF MemberInv, NoAnswer, RunOutcomes
<1>12. ASSUME pc' = "ended"
       PROVE  running' = 0 /\ Pending' = {} /\ \A m \in Members : outcomes[m] # "none"
  <2>1. running' = 0
    BY <1>12
  <2>2. Alive' = {}
    BY <2>1, <1>8, AliveFinite, <1>4, <1>5, <1>6, <1>7, FS_EmptySet DEF CountInv
  <2>3. Alive = {} /\ Launched = {}
    BY <2>2, <1>7
  <2>4. Pending = {}
    BY <2>3, NothingLeftWaiting
  <2>5. Pending' = {}
    BY <2>3, <2>4, <1>3 DEF Pending
  <2>6. \A m \in Members : member[m] = "settled"
    BY <2>3, <2>4 DEF Pending, Alive, TypeOK
  <2>7. QED
    BY <2>1, <2>5, <2>6 DEF MemberInv
<1>13. LoopInv' /\ ExitTellsAll'
  BY <1>12 DEF LoopInv, ExitTellsAll, LoadInv
<1>14. DependencyOrder'
  <2> SUFFICES ASSUME NEW m \in Members,
                      member'[m] \in {"starting", "drilling", "answered"} \/ m \in recorded',
                      NEW d \in deps[m]
               PROVE  outcomes[d] = "pass" /\ d \in recorded
    BY <1>1 DEF DependencyOrder
  <2>1. d \in Members
    BY BelowDeps DEF KahnInv
  <2>2. CASE m \in Launched
    BY <2>1, <2>2, <1>2 DEF MemberInv, RunOutcomes
  <2>3. CASE m \notin Launched
    BY <2>3, <1>3 DEF DependencyOrder
  <2>4. QED
    BY <2>2, <2>3
<1>15. SkipsAreCaused'
  BY <1>1, SameBelow DEF SkipsAreCaused
<1>16. QED
  BY <1>1, <1>8, <1>9, <1>10, <1>11, <1>13, <1>14, <1>15

(* An answer is received: one goroutine less.                              *)
LEMMA ReceiveInv ==
  ASSUME GameDayInv, NEW m \in Members, Receive(m)
  PROVE  GameDayInv'
<1> USE DEF GameDayInv, Receive
<1>1. KahnInv' /\ deps' = deps /\ stuck' = stuck /\ answered' = answered
  BY KahnUnchanged DEF kahnVars
<1>2. outcomes[m] = "none" /\ answer[m].outcome \in RunOutcomes
  BY DEF MemberInv
<1>3. \A n \in Members :
        /\ outcomes'[n] = IF n = m THEN answer[m].outcome ELSE outcomes[n]
        /\ member'[n] = IF n = m THEN "settled" ELSE member[n]
  BY DEF TypeOK
<1>4. CountInv' /\ running' \in 0 .. cfg.par
  <2>1. Alive' = Alive \ {m} /\ m \in Alive
    BY <1>3 DEF Alive
  <2>2. Cardinality(Alive \ {m}) = Cardinality(Alive) - 1
    BY <2>1, AliveFinite, FS_RemoveElement
  <2>3. Cardinality(Alive) # 0
    BY <2>1, AliveFinite
  <2>4. cfg.par \in Nat /\ cfg' = cfg /\ running' = running - 1 /\ running = Cardinality(Alive)
        /\ running <= cfg.par
    BY DEF CountInv, TypeOK, Configs
  <2>5. running' = Cardinality(Alive') /\ running' \in 0 .. cfg.par
    BY <2>1, <2>2, <2>3, <2>4, AliveFinite
  <2>6. QED
    BY <2>4, <2>5 DEF CountInv
<1>5. TypeOK'
  <2>1. outcomes' \in [Members -> RunOutcomes \cup {"none", "skipped"}]
        /\ member' \in [Members -> {"pending", "starting", "drilling", "answered", "settled"}]
    BY <1>2 DEF TypeOK
  <2>2. QED
    BY <2>1, <1>4 DEF TypeOK, Configs
<1>6. LoadInv' /\ LoopInv' /\ ExitTellsAll'
  BY <1>1 DEF LoadInv, LoopInv, ExitTellsAll, LogsDistinct, Distinct, Parallelism
<1>7. MemberInv'
  BY <1>2, <1>3 DEF MemberInv, NoAnswer, RunOutcomes
<1>8. DependencyOrder'
  <2> SUFFICES ASSUME NEW n \in Members,
                      member'[n] \in {"starting", "drilling", "answered"} \/ n \in recorded,
                      NEW d \in deps[n]
               PROVE  outcomes'[d] = "pass" /\ d \in recorded
    BY <1>1 DEF DependencyOrder
  <2>1. d \in Members
    BY BelowDeps DEF KahnInv
  <2>2. outcomes[d] = "pass" /\ d \in recorded
    BY <1>3 DEF DependencyOrder
  <2>3. QED
    BY <2>1, <2>2, <1>2, <1>3
<1>9. SkipsAreCaused'
  <2>1. \A n \in Members : /\ Below(n) \subseteq Members
                           /\ outcomes'[n] = "skipped" => outcomes[n] = "skipped"
    BY <1>2, <1>3 DEF Below, RunOutcomes
  <2>2. \A n \in Members : outcomes[n] \in {"fail", "error", "cancelled"}
                             => outcomes'[n] = outcomes[n]
    BY <1>2, <1>3
  <2>3. QED
    BY <2>1, <2>2, <1>1, SameBelow DEF SkipsAreCaused
<1>10. QED
  BY <1>1, <1>4, <1>5, <1>6, <1>7, <1>8, <1>9
-----------------------------------------------------------------------------
(* The goroutines. None of their steps changes how many there are.         *)
LEMMA OpenLogInv ==
  ASSUME GameDayInv, NEW m \in Members, OpenLog(m)
  PROVE  GameDayInv'
<1> USE DEF GameDayInv, OpenLog
<1>1. KahnInv' /\ deps' = deps /\ stuck' = stuck /\ answered' = answered
  BY KahnUnchanged DEF kahnVars
<1>2. \A n \in Members : member'[n] = IF n = m THEN "drilling" ELSE member[n]
  BY DEF TypeOK
<1>3. TypeOK'
  BY DEF TypeOK, Configs
<1>4. MemberInv'
  BY <1>2 DEF MemberInv
<1>5. LoadInv' /\ LoopInv' /\ ExitTellsAll'
  BY <1>1, <1>2 DEF LoadInv, LoopInv, ExitTellsAll, LogsDistinct, Distinct, Parallelism,
                    Pending, Blocked
<1>6. Alive' = Alive
  BY <1>2 DEF Alive
<1>7. CountInv'
  BY <1>6 DEF CountInv
<1>8. DependencyOrder' /\ SkipsAreCaused'
  BY <1>1, <1>2, SameBelow DEF DependencyOrder, SkipsAreCaused
<1>9. QED
  BY <1>1, <1>3, <1>4, <1>5, <1>7, <1>8

(* An answer of a member that was running; a drill that ran to its end     *)
(* left a record, and only such a drill says pass or fail.                 *)
LEMMA AnsweredInv ==
  ASSUME GameDayInv, NEW m \in Members, member[m] \in {"starting", "drilling"},
         NEW o \in RunOutcomes, NEW c \in {"none", "setup", "lost"},
         Answered(m, o, c), recorded' \in {recorded, recorded \cup {m}},
         o \in {"pass", "fail"} => recorded' = recorded \cup {m},
         c # "none" => o = "error"
  PROVE  GameDayInv'
<1> USE DEF GameDayInv, Answered
<1>1. KahnInv' /\ deps' = deps /\ stuck' = stuck /\ answered' = answered
  BY KahnUnchanged DEF kahnVars
<1>2. \A n \in Members :
        /\ member'[n] = IF n = m THEN "answered" ELSE member[n]
        /\ answer'[n] = IF n = m THEN [outcome |-> o, code |-> c] ELSE answer[n]
        /\ n # m => (n \in recorded' <=> n \in recorded)
  BY DEF TypeOK
<1>3. outcomes[m] = "none" /\ m \in Alive /\ pc \notin {"load", "refused", "ended"}
  <2>1. outcomes[m] = "none" /\ m \in Alive /\ pc \notin {"load", "refused"}
    BY DEF MemberInv, Alive, LoadInv
  <2>2. pc # "ended"
    BY <2>1, AliveFinite DEF LoopInv, CountInv
  <2>3. QED
    BY <2>1, <2>2
<1>4. TypeOK'
  <2>1. answer' \in [Members -> [outcome : RunOutcomes \cup {"none"},
                                 code : {"none", "setup", "lost"}]]
    BY DEF TypeOK
  <2>2. QED
    BY <2>1 DEF TypeOK, Configs
<1>5. MemberInv'
  <2> SUFFICES ASSUME NEW n \in Members
               PROVE  /\ member'[n] = "settled" <=> outcomes'[n] # "none"
                      /\ member'[n] \in {"pending", "starting", "drilling"} => answer'[n] = NoAnswer
                      /\ member'[n] = "answered" => answer'[n].outcome \in RunOutcomes
                      /\ outcomes'[n] = "skipped" => answer'[n] = NoAnswer
                      /\ outcomes'[n] \in RunOutcomes => outcomes'[n] = answer'[n].outcome
                      /\ answer'[n].outcome \in {"pass", "fail"} => n \in recorded'
                      /\ answer'[n].outcome = "none" => n \notin recorded'
                      /\ answer'[n].code # "none" => answer'[n].outcome = "error"
    BY DEF MemberInv
  <2>1. CASE n = m
    BY <2>1, <1>2, <1>3 DEF RunOutcomes
  <2>2. CASE n # m
    BY <2>2, <1>2 DEF MemberInv
  <2>3. QED
    BY <2>1, <2>2
<1>6. LoadInv' /\ LoopInv' /\ ExitTellsAll'
  BY <1>1, <1>2, <1>3 DEF LoadInv, LoopInv, ExitTellsAll, LogsDistinct, Distinct,
                          Parallelism, Pending, Blocked
<1>7. Alive' = Alive
  BY <1>2 DEF Alive
<1>8. CountInv'
  BY <1>7 DEF CountInv
<1>9. DependencyOrder'
  BY <1>1, <1>2 DEF DependencyOrder
<1>10. SkipsAreCaused'
  BY <1>1, SameBelow DEF SkipsAreCaused
<1>11. QED
  BY <1>1, <1>4, <1>5, <1>6, <1>8, <1>9, <1>10

LEMMA MemberStepInv ==
  ASSUME GameDayInv, NEW m \in Members, MemberStep(m)
  PROVE  GameDayInv'
<1>1. CASE OpenLog(m)
  BY <1>1, OpenLogInv
<1>2. CASE SetupFails(m)
  BY <1>2, AnsweredInv DEF SetupFails, RunOutcomes
<1>3. CASE FinishDrill(m)
  BY <1>3, AnsweredInv DEF FinishDrill, DrillOutcomes, RunOutcomes
<1>4. CASE LoseRecord(m)
  BY <1>4, AnsweredInv DEF LoseRecord, RunOutcomes
<1>5. QED
  BY <1>1, <1>2, <1>3, <1>4 DEF MemberStep

-----------------------------------------------------------------------------
(* The exit code is computed once everything has settled.                  *)
LEMMA ExitInv ==
  ASSUME GameDayInv, Exit
  PROVE  GameDayInv'
<1> USE DEF GameDayInv, Exit
<1>1. KahnInv' /\ deps' = deps /\ stuck' = stuck /\ answered' = answered
  BY KahnUnchanged DEF kahnVars
<1>2. OverallOutcome \in {"pass", "fail", "error"}
      /\ (OverallOutcome = "pass" => \A m \in Members : outcomes[m] = "pass")
      /\ (OverallOutcome = "fail" => \E m \in Members : outcomes[m] = "fail")
  BY DEF OverallOutcome
<1>3. TypeOK' /\ MemberInv'
  BY <1>2 DEF TypeOK, MemberInv, Configs
<1>4. LoadInv' /\ LoopInv'
  BY <1>1 DEF LoadInv, LoopInv, LogsDistinct, Distinct, Parallelism, Pending
<1>5. \A m \in Members : outcomes[m] \in {"pass", "fail"} => m \in recorded
  BY DEF MemberInv, RunOutcomes
<1>6. ExitTellsAll'
  BY <1>2, <1>5 DEF ExitTellsAll, TypeOK
<1>7. CountInv'
  BY DEF CountInv, Alive
<1>8. DependencyOrder' /\ SkipsAreCaused'
  BY <1>1, SameBelow DEF DependencyOrder, SkipsAreCaused
<1>9. QED
  BY <1>1, <1>3, <1>4, <1>6, <1>7, <1>8

(* An interrupt only ends the context, and a context that ended stays so.  *)
LEMMA InterruptInv ==
  ASSUME GameDayInv, NEW cause \in {"deadline", "cancelled"}, Interrupt(cause)
  PROVE  GameDayInv'
<1> USE DEF GameDayInv, Interrupt
<1>1. KahnInv' /\ deps' = deps /\ stuck' = stuck /\ answered' = answered
  BY KahnUnchanged DEF kahnVars
<1>2. TypeOK' /\ MemberInv'
  BY DEF TypeOK, MemberInv, Configs
<1>3. LoadInv' /\ LoopInv' /\ ExitTellsAll'
  BY <1>1 DEF LoadInv, LoopInv, ExitTellsAll, LogsDistinct, Distinct, Parallelism,
              Pending, Blocked
<1>4. CountInv'
  BY DEF CountInv, Alive
<1>5. DependencyOrder' /\ SkipsAreCaused'
  BY <1>1, SameBelow DEF DependencyOrder, SkipsAreCaused
<1>6. QED
  BY <1>1, <1>2, <1>3, <1>4, <1>5

LEMMA StutterInv ==
  ASSUME GameDayInv, UNCHANGED vars
  PROVE  GameDayInv'
<1> USE DEF GameDayInv, vars, schedVars
<1>1. KahnInv' /\ deps' = deps /\ stuck' = stuck /\ answered' = answered
  BY KahnUnchanged DEF kahnVars
<1>2. TypeOK' /\ MemberInv'
  BY DEF TypeOK, MemberInv, Configs
<1>3. LoadInv' /\ LoopInv' /\ ExitTellsAll'
  BY <1>1 DEF LoadInv, LoopInv, ExitTellsAll, LogsDistinct, Distinct, Parallelism,
              Pending, Blocked
<1>4. CountInv'
  BY DEF CountInv, Alive
<1>5. DependencyOrder' /\ SkipsAreCaused'
  BY <1>1, SameBelow DEF DependencyOrder, SkipsAreCaused
<1>6. QED
  BY <1>1, <1>2, <1>3, <1>4, <1>5

LEMMA NextInv == GameDayInv /\ [Next]_vars => GameDayInv'
<1> SUFFICES ASSUME GameDayInv, [Next]_vars PROVE GameDayInv'
  OBVIOUS
<1>1. CASE Scheduler
  BY <1>1, FindCyclesInv, LoadedInv, SkipBlockedInv, ReceiveInv, SkipsSettledInv,
     SkipRemainingInv, LaunchReadyInv, ExitInv DEF Scheduler
<1>2. ASSUME NEW m \in Members, MemberStep(m) PROVE GameDayInv'
  BY <1>2, MemberStepInv
<1>3. ASSUME NEW cause \in {"deadline", "cancelled"}, Interrupt(cause) PROVE GameDayInv'
  BY <1>3, InterruptInv
<1>4. CASE UNCHANGED vars
  BY <1>4, StutterInv
<1>5. QED
  BY <1>1, <1>2, <1>3, <1>4 DEF Next

(* Two members at a time need two slots, and two slots distinct logs.      *)
LEMMA InvRunApart == GameDayInv => RunApart
<1> SUFFICES ASSUME GameDayInv PROVE RunApart
  OBVIOUS
<1> USE DEF GameDayInv
<1>1. Cardinality(Alive) <= cfg.par /\ running = Cardinality(Alive)
  BY DEF CountInv
<1>2. ASSUME NEW m \in Members, member[m] = "starting", LogTaken(m) PROVE FALSE
  <2>1. PICK n \in Members : member[n] = "drilling" /\ cfg.log[n] = cfg.log[m]
    BY <1>2 DEF LogTaken, Holds
  <2>2. n # m /\ LogsDistinct
    BY <2>1, <1>2 DEF LoadInv
  <2>3. ~ (cfg.par > 1)
    BY <2>1, <2>2 DEF LogsDistinct, Distinct, Parallelism
  <2>4. {m, n} \in SUBSET Alive /\ {m, n} = {m} \cup {n}
    BY <2>1, <1>2 DEF Alive
  <2>5. IsFiniteSet({m}) /\ Cardinality({m}) = 1
    BY FS_Singleton
  <2>6. Cardinality({m} \cup {n}) = 2
    BY <2>2, <2>5, FS_AddElement
  <2>7. Cardinality({m, n}) <= Cardinality(Alive)
    BY <2>4, AliveFinite, FS_Subset
  <2>8. cfg.par \in Nat
    BY DEF TypeOK, Configs
  <2>9. QED
    BY <2>3, <2>4, <2>6, <2>7, <2>8, <1>1, AliveFinite
<1>3. QED
  BY <1>1, <1>2 DEF RunApart, Alive

-----------------------------------------------------------------------------
(* The inductive invariant of the loader, the scheduler and the goroutines.*)
THEOREM Invariance == Spec => []GameDayInv
<1>1. Init => GameDayInv
  BY InitInv
<1>2. GameDayInv /\ [Next]_vars => GameDayInv'
  BY NextInv
<1>3. QED
  BY <1>1, <1>2, PTL DEF Spec

(* cycleMembers reports the members in or behind a cycle and no others, for*)
(* every depends_on graph of any size.                                     *)
THEOREM CyclesAreFound == Spec => []ReportsDeadlocked
<1>1. GameDayInv => ReportsDeadlocked
  BY StuckIsDeadlocked DEF GameDayInv
<1>2. QED
  BY <1>1, Invariance, PTL

(* A member starts only after all it depends on ran and passed.            *)
THEOREM OrderHolds == Spec => []DependencyOrder
<1>1. GameDayInv => DependencyOrder
  BY DEF GameDayInv
<1>2. QED
  BY <1>1, Invariance, PTL

(* launchReady keeps to max_parallel, the loop's count is right, and no two*)
(* members meet in one evidence log.                                       *)
THEOREM MembersRunApart == Spec => []RunApart
<1>1. GameDayInv => RunApart
  BY InvRunApart
<1>2. QED
  BY <1>1, Invariance, PTL

(* Every skip has its cause: a member below that did not pass, or the end  *)
(* of the game-day's context.                                              *)
THEOREM SkipsHaveCause == Spec => []SkipsAreCaused
<1>1. GameDayInv => SkipsAreCaused
  BY DEF GameDayInv
<1>2. QED
  BY <1>1, Invariance, PTL

(* The loop ends with every member settled, and gamedayExit says so.       *)
THEOREM ExitIsTrue == Spec => []ExitTellsAll
<1>1. GameDayInv => ExitTellsAll
  BY DEF GameDayInv
<1>2. QED
  BY <1>1, Invariance, PTL
=============================================================================
