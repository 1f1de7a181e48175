------------------------- MODULE SandboxSweepProofs -------------------------
(***************************************************************************)
(* Proofs about SandboxSweep for any drills, processes, hosts, pids and    *)
(* runtimes: what a sweep never destroys, and what it leaves behind.       *)
(***************************************************************************)
EXTENDS SandboxSweep, TLAPS

(* What a sweep can decide about a sandbox whose process it can tell: the  *)
(* verdict against a marked sandbox is a verdict against a process that is *)
(* not alive, with start tokens and without.                               *)
LEMMA OrphanIsDead ==
  ASSUME NEW d \in Drills, NEW q \in Drills, TypeOK,
         sandbox[q] # "bare", IsOrphan(d, q)
  PROVE  proc[Owner(q)] # "alive"
BY PlacementAssumption DEF IsOrphan, OwnerAlive, Owner, TypeOK

(* With start tokens a dead process has no double: its sandbox is an       *)
(* orphan to every sweep of its host, although another has its pid.        *)
LEMMA DeadIsOrphan ==
  ASSUME NEW d \in Drills, NEW q \in Drills, Tokens,
         proc[Owner(q)] = "dead", HostOf[Owner(q)] = HostOf[ProcOf[d]]
  PROVE  IsOrphan(d, q)
BY DEF IsOrphan, OwnerAlive

-----------------------------------------------------------------------------
LEMMA InitInv == Init => SweepInv
<1> SUFFICES ASSUME Init PROVE SweepInv
  OBVIOUS
<1> USE DEF Init
<1>1. TypeOK
  BY TargetAssumption DEF TypeOK
<1>2. BornInv /\ MarkedInv /\ ListedInv
  BY DEF BornInv, MarkedInv, ListedInv
<1>3. UsedSandboxStays
  BY DEF UsedSandboxStays, At
<1>4. QED
  BY <1>1, <1>2, <1>3 DEF SweepInv

(* A process starts or ends.                                               *)
LEMMA StartInv ==
  ASSUME SweepInv, NEW p \in Procs, Start(p)
  PROVE  SweepInv'
<1> USE DEF SweepInv, Start
<1>1. TypeOK'
  BY DEF TypeOK
<1>2. \A r \in Procs : proc'[r] = IF r = p THEN "alive" ELSE proc[r]
  BY DEF TypeOK
<1>3. \A d \in Drills : ProcOf[d] \in Procs
  BY PlacementAssumption
<1>4. BornInv'
  BY <1>2, <1>3 DEF BornInv
<1>5. MarkedInv'
  BY <1>2, <1>3 DEF MarkedInv, MarkedAtCreate, Owner, TypeOK
<1>6. ListedInv'
  BY <1>2, <1>3 DEF ListedInv, Owner, TypeOK
<1>7. UsedSandboxStays'
  BY <1>2, <1>3 DEF UsedSandboxStays, BornInv, At, Runs, MarkedAtCreate
<1>8. QED
  BY <1>1, <1>4, <1>5, <1>6, <1>7

LEMMA DieInv ==
  ASSUME SweepInv, NEW p \in Procs, Die(p)
  PROVE  SweepInv'
<1> USE DEF SweepInv, Die
<1>1. TypeOK'
  BY DEF TypeOK
<1>2. \A r \in Procs : proc'[r] = IF r = p THEN "dead" ELSE proc[r]
  BY DEF TypeOK
<1>3. \A d \in Drills : ProcOf[d] \in Procs
  BY PlacementAssumption
<1>4. BornInv'
  BY <1>2, <1>3 DEF BornInv
<1>5. MarkedInv'
  BY <1>2, <1>3 DEF MarkedInv, MarkedAtCreate, Owner, TypeOK
<1>6. ListedInv'
  BY <1>2, <1>3 DEF ListedInv, Owner, TypeOK
<1>7. UsedSandboxStays'
  BY <1>2, <1>3 DEF UsedSandboxStays, At, Runs, MarkedAtCreate
<1>8. QED
  BY <1>1, <1>4, <1>5, <1>6, <1>7

-----------------------------------------------------------------------------
(* The sweep. Listing notes the orphans of the host; judging keeps each of *)
(* them for removal; removing takes nothing from a process that lives.     *)
LEMMA ListInv ==
  ASSUME SweepInv, NEW d \in Drills, List(d)
  PROVE  SweepInv'
<1> USE DEF SweepInv, List, At, Runs, Goto
<1>0. Present \subseteq Drills /\ proc[ProcOf[d]] = "alive"
  BY DEF Present
<1>1. TypeOK'
  BY <1>0 DEF TypeOK
<1>2. \A e \in Drills :
        /\ drill'[e] = IF e = d THEN "sweeping" ELSE drill[e]
        /\ todo'[e] = IF e = d THEN Present ELSE todo[e]
        /\ e # d => listed'[e] = listed[e]
  BY DEF TypeOK
<1>3. listed'[d] = {q \in Present : proc[Owner(q)] = "dead" /\ HostOf[Owner(q)] = HostOf[ProcOf[d]]}
  BY DEF TypeOK
<1>4. BornInv'
  BY <1>0, <1>2 DEF BornInv
<1>5. MarkedInv'
  BY <1>2 DEF MarkedInv, MarkedAtCreate, Owner
<1>6. ListedInv'
  <2> SUFFICES ASSUME Tokens, NEW e \in Drills
               PROVE  (ListedInv!2!(e))'
    BY DEF ListedInv
  <2>1. CASE e = d
    <3>1. \A q \in listed'[d] : /\ q \in Present /\ proc[Owner(q)] = "dead"
                                /\ HostOf[Owner(q)] = HostOf[ProcOf[d]]
      BY <1>3
    <3>2. \A q \in Present : sandbox[q] # "none"
      BY DEF Present
    <3>3. drill'[d] = "sweeping" /\ todo'[d] = Present /\ proc' = proc /\ sandbox' = sandbox
      BY <1>2
    <3> HIDE DEF List, SweepInv, At, Runs, Goto
    <3>4. QED
      BY <2>1, <3>1, <3>2, <3>3 DEF Owner
  <2>2. CASE e # d
    BY <1>2, <2>2 DEF ListedInv, Owner
  <2>3. QED
    BY <2>1, <2>2
<1>7. UsedSandboxStays'
  BY <1>2 DEF UsedSandboxStays, MarkedAtCreate
<1>8. QED
  BY <1>1, <1>4, <1>5, <1>6, <1>7

LEMMA JudgeInv ==
  ASSUME SweepInv, NEW d \in Drills, NEW q \in Drills, Judge(d, q)
  PROVE  SweepInv'
<1> USE DEF SweepInv, Judge
<1> DEFINE t == IF q \in Present /\ IsOrphan(d, q) THEN q ELSE NoTarget
<1>1. TypeOK'
  BY DEF TypeOK, At
<1>2. \A e \in Drills :
        /\ todo'[e] = IF e = d THEN todo[d] \ {q} ELSE todo[e]
        /\ target'[e] = IF e = d THEN t ELSE target[e]
  BY DEF TypeOK
<1>3. BornInv'
  BY <1>2 DEF BornInv, Present
<1>4. MarkedInv'
  <2> SUFFICES ASSUME MarkedAtCreate, t # NoTarget
               PROVE  proc[Owner(q)] = "dead"
    BY <1>2 DEF MarkedInv, MarkedAtCreate, Owner
  <2>1. sandbox[q] = "up" /\ IsOrphan(d, q)
    BY DEF MarkedInv, Present
  <2>2. proc[Owner(q)] # "alive"
    BY <2>1, OrphanIsDead
  <2>3. proc[Owner(q)] # "unborn"
    BY <2>1 DEF BornInv, Owner
  <2>4. QED
    BY <2>2, <2>3, PlacementAssumption DEF TypeOK, Owner
<1>5. ListedInv'
  <2> SUFFICES ASSUME Tokens, NEW e \in Drills, NEW x \in listed[e], drill[e] = "sweeping"
               PROVE  x \in todo'[e] \/ target'[e] = x \/ sandbox[x] = "gone"
    BY DEF ListedInv, Owner
  <2>1. CASE e # d \/ x # q
    BY <1>2, <2>1, TargetAssumption DEF ListedInv, TypeOK
  <2>2. CASE e = d /\ x = q
    <3>1. IsOrphan(d, q) /\ sandbox[q] # "none"
      BY <2>2, DeadIsOrphan DEF ListedInv
    <3>2. CASE q \in Present
      BY <1>2, <2>2, <3>1, <3>2
    <3>3. CASE q \notin Present
      BY <2>2, <3>1, <3>3 DEF Present, TypeOK
    <3>4. QED
      BY <3>2, <3>3
  <2>3. QED
    BY <2>1, <2>2
<1>6. UsedSandboxStays'
  BY DEF UsedSandboxStays, MarkedAtCreate, At, Runs
<1>7. QED
  BY <1>1, <1>3, <1>4, <1>5, <1>6

LEMMA ReapInv ==
  ASSUME SweepInv, NEW d \in Drills, Reap(d)
  PROVE  SweepInv'
<1> USE DEF SweepInv, Reap
<1>0. target[d] \in Drills
  BY DEF TypeOK
<1>1. TypeOK'
  BY <1>0 DEF TypeOK
<1>2. \A e \in Drills :
        /\ sandbox'[e] = IF e = target[d] THEN "gone" ELSE sandbox[e]
        /\ target'[e] = IF e = d THEN NoTarget ELSE target[e]
  BY DEF TypeOK
<1>3. BornInv'
  BY <1>0, <1>2 DEF BornInv
<1>4. MarkedInv'
  BY <1>2 DEF MarkedInv, MarkedAtCreate, Owner
<1>5. ListedInv'
  BY <1>2 DEF ListedInv, Owner, TypeOK
<1>6. UsedSandboxStays'
  BY <1>2 DEF UsedSandboxStays, MarkedInv, MarkedAtCreate, At, Runs, Owner
<1>7. QED
  BY <1>1, <1>3, <1>4, <1>5, <1>6

(* A sweep that fails leaves its target as it is or, on a bare host,       *)
(* without its backstop.                                                   *)
LEMMA SweepFailsInv ==
  ASSUME SweepInv, NEW d \in Drills, SweepFails(d)
  PROVE  SweepInv'
<1> USE DEF SweepInv, SweepFails, Goto
<1>0. \A e \in Drills : e # target[d] => sandbox'[e] = sandbox[e]
  BY DEF TypeOK
<1>1. target[d] # NoTarget =>
        /\ target[d] \in Drills
        /\ \/ sandbox'[target[d]] = sandbox[target[d]]
           \/ /\ sandbox[target[d]] = "up" /\ sandbox'[target[d]] = "marked"
              /\ ~ MarkedAtCreate
  BY DEF TypeOK, AfterFailedDestroy
<1>2. sandbox' \in [Drills -> {"none", "bare", "marked", "up", "gone"}]
  BY DEF TypeOK, AfterFailedDestroy
<1>3. \A e \in Drills :
        /\ drill'[e] = IF e = d THEN "creating" ELSE drill[e]
        /\ todo'[e] = IF e = d THEN {} ELSE todo[e]
        /\ target'[e] = IF e = d THEN NoTarget ELSE target[e]
        /\ listed'[e] = IF e = d THEN {} ELSE listed[e]
  BY DEF TypeOK
<1>4. TypeOK'
  BY <1>2 DEF TypeOK
<1>5. \A e \in Drills : /\ sandbox'[e] = "none" <=> sandbox[e] = "none"
                        /\ sandbox[e] = "gone" => sandbox'[e] = "gone"
                        /\ MarkedAtCreate => sandbox'[e] = sandbox[e]
  BY <1>0, <1>1
<1>6. proc[ProcOf[d]] = "alive"
  BY DEF Runs
<1>7. BornInv'
  BY <1>3, <1>5, <1>6 DEF BornInv, TypeOK
<1>8. MarkedInv'
  BY <1>3, <1>5 DEF MarkedInv, MarkedAtCreate, Owner
<1>9. ListedInv'
  BY <1>3, <1>5 DEF ListedInv, Owner, TypeOK
<1>10. UsedSandboxStays'
  BY <1>3, <1>5 DEF UsedSandboxStays, MarkedAtCreate, At, Runs
<1>11. QED
  BY <1>4, <1>7, <1>8, <1>9, <1>10

LEMMA SweepEndsInv ==
  ASSUME SweepInv, NEW d \in Drills, SweepEnds(d)
  PROVE  SweepInv'
<1> USE DEF SweepInv, SweepEnds, Goto
<1>1. TypeOK'
  BY DEF TypeOK
<1>2. \A e \in Drills : drill'[e] = IF e = d THEN "creating" ELSE drill[e]
  BY DEF TypeOK
<1>3. BornInv'
  BY <1>2 DEF BornInv, At, Runs
<1>4. MarkedInv'
  BY <1>2 DEF MarkedInv, MarkedAtCreate, Owner
<1>5. ListedInv'
  BY <1>2, TargetAssumption DEF ListedInv, Owner, At, TypeOK
<1>6. UsedSandboxStays'
  BY <1>2 DEF UsedSandboxStays, MarkedAtCreate, At, Runs
<1>7. QED
  BY <1>1, <1>3, <1>4, <1>5, <1>6

-----------------------------------------------------------------------------
(* The steps by which a running drill changes its own sandbox, and the     *)
(* backstop that changes a sandbox nobody uses: none of them touches what  *)
(* a sweep has listed, since that belongs to a dead process.               *)
OwnStep(d, step, left) ==
  /\ step \in {"marking", "arming", "using", "failed", "ended"}
  /\ left \in {"none", "bare", "marked", "up", "gone"}
  /\ Runs(d) /\ drill[d] \in {"creating", "marking", "arming", "using"}
  /\ sandbox[d] # "none" => left # "none"
  /\ MarkedAtCreate => /\ left \in {"none", "up", "gone"}
                       /\ step \notin {"marking", "arming"}
                       /\ step = "using" => left = "up"
  /\ step \in {"marking", "arming", "using"} => drill[d] # "using"
  /\ sandbox' = [sandbox EXCEPT ![d] = left]
  /\ drill' = [drill EXCEPT ![d] = step]
  /\ UNCHANGED <<site, proc, todo, target, listed>>

LEMMA OwnStepInv ==
  ASSUME SweepInv, NEW d \in Drills, NEW step, NEW left, OwnStep(d, step, left)
  PROVE  SweepInv'
<1> USE DEF SweepInv, OwnStep
<1>0. proc[ProcOf[d]] = "alive"
  BY DEF Runs
<1>1. \A e \in Drills :
        /\ drill'[e] = IF e = d THEN step ELSE drill[e]
        /\ sandbox'[e] = IF e = d THEN left ELSE sandbox[e]
  BY DEF TypeOK
<1>2. TypeOK'
  BY <1>1 DEF TypeOK
<1>3. BornInv'
  BY <1>0, <1>1 DEF BornInv, TypeOK
<1>4. MarkedInv'
  BY <1>1 DEF MarkedInv, MarkedAtCreate, Owner
<1>5. ListedInv'
  BY <1>0, <1>1 DEF ListedInv, Owner, TypeOK
<1>6. UsedSandboxStays'
  BY <1>1 DEF UsedSandboxStays, MarkedAtCreate, At, Runs
<1>7. QED
  BY <1>2, <1>3, <1>4, <1>5, <1>6

LEMMA CreateStepsInv ==
  ASSUME SweepInv, NEW d \in Drills,
         Create(d) \/ Mark(d) \/ Arm(d) \/ CreateFails(d) \/ CreateLeaks(d) \/ Destroy(d)
  PROVE  SweepInv'
<1> DEFINE States == {"none", "bare", "marked", "up", "gone"}
<1>0. sandbox \in [Drills -> States] /\ drill \in [Drills -> {"idle", "sweeping", "creating", "marking",
                                                              "arming", "using", "failed", "ended"}]
  BY DEF SweepInv, TypeOK
<1> USE <1>0 DEF OwnStep, At, Goto
<1>1. CASE Create(d)
  <2>1. CASE MarkedAtCreate
    <3>1. OwnStep(d, "using", "up")
      BY <1>1, <2>1 DEF Create
    <3>2. QED
      BY <3>1, OwnStepInv
  <2>2. CASE ~ MarkedAtCreate
    <3>1. OwnStep(d, "marking", "bare")
      BY <1>1, <2>2 DEF Create
    <3>2. QED
      BY <3>1, OwnStepInv
  <2>3. QED
    BY <2>1, <2>2
<1>2. CASE Mark(d)
  <2>1. OwnStep(d, "arming", "marked")
    BY <1>2 DEF Mark, SweepInv, MarkedInv
  <2>2. QED
    BY <2>1, OwnStepInv
<1>3. CASE Arm(d)
  <2> DEFINE left == IF sandbox[d] = "marked" THEN "up" ELSE sandbox[d]
  <2>1. ~ MarkedAtCreate
    BY <1>3 DEF Arm, SweepInv, MarkedInv
  <2>2. OwnStep(d, "using", left)
    BY <1>3, <2>1 DEF Arm
  <2>3. QED
    BY <2>2, OwnStepInv
<1>4. CASE CreateFails(d)
  <2>1. PICK left \in (IF sandbox[d] = "none" THEN {"none"} ELSE {"gone", sandbox[d]}) :
          sandbox' = [sandbox EXCEPT ![d] = left]
    BY <1>4 DEF CreateFails
  <2>2. MarkedAtCreate => sandbox[d] \in {"none", "up", "gone"}
    BY DEF SweepInv, MarkedInv
  <2>3. OwnStep(d, "failed", left)
    BY <1>4, <2>1, <2>2 DEF CreateFails
  <2>4. QED
    BY <2>3, OwnStepInv
<1>5. CASE CreateLeaks(d)
  <2>1. OwnStep(d, "failed", "up")
    BY <1>5 DEF CreateLeaks
  <2>2. QED
    BY <2>1, OwnStepInv
<1>6. CASE Destroy(d)
  <2>1. PICK left \in {"gone"} \cup AfterFailedDestroy(sandbox[d]) :
          sandbox' = [sandbox EXCEPT ![d] = left]
    BY <1>6 DEF Destroy
  <2>2. /\ left \in States
        /\ sandbox[d] # "none" => left # "none"
        /\ MarkedAtCreate => left \in {"none", "up", "gone"}
    BY <2>1 DEF AfterFailedDestroy, SweepInv, MarkedInv
  <2>3. OwnStep(d, "ended", left)
    BY <1>6, <2>1, <2>2 DEF Destroy
  <2>4. QED
    BY <2>3, OwnStepInv
<1>7. QED
  BY <1>1, <1>2, <1>3, <1>4, <1>5, <1>6

LEMMA BackstopFiresInv ==
  ASSUME SweepInv, NEW q \in Drills, BackstopFires(q)
  PROVE  SweepInv'
<1> USE DEF SweepInv, BackstopFires
<1>1. TypeOK'
  BY DEF TypeOK
<1>2. \A e \in Drills : sandbox'[e] = IF e = q THEN "gone" ELSE sandbox[e]
  BY DEF TypeOK
<1>3. BornInv'
  BY <1>2 DEF BornInv, TypeOK
<1>4. MarkedInv'
  BY <1>2 DEF MarkedInv, MarkedAtCreate, Owner
<1>5. ListedInv'
  BY <1>2 DEF ListedInv, Owner, TypeOK
<1>6. UsedSandboxStays'
  BY <1>2 DEF UsedSandboxStays, MarkedAtCreate, At, Runs
<1>7. QED
  BY <1>1, <1>3, <1>4, <1>5, <1>6

-----------------------------------------------------------------------------
LEMMA NextInv == SweepInv /\ [Next]_vars => SweepInv'
<1> SUFFICES ASSUME SweepInv, [Next]_vars PROVE SweepInv'
  OBVIOUS
<1>1. CASE UNCHANGED vars
  BY <1>1 DEF vars, SweepInv, TypeOK, BornInv, MarkedInv, ListedInv, UsedSandboxStays,
              MarkedAtCreate, Owner, At, Runs
<1>2. ASSUME NEW p \in Procs, Start(p) \/ Die(p) PROVE SweepInv'
  BY <1>2, StartInv, DieInv
<1>3. ASSUME NEW d \in Drills, SweepStep(d) PROVE SweepInv'
  BY <1>3, ListInv, JudgeInv, ReapInv, SweepFailsInv, SweepEndsInv DEF SweepStep
<1>4. ASSUME NEW d \in Drills, DrillStep(d) \/ BackstopFires(d) PROVE SweepInv'
  BY <1>3, <1>4, CreateStepsInv, BackstopFiresInv DEF DrillStep
<1>5. QED
  BY <1>1, <1>2, <1>4 DEF Next

(* The inductive invariant holds in every state: of processes and the      *)
(* sandboxes they made, of sweeps and what they are about to remove.       *)
THEOREM Invariance == Spec => []SweepInv
<1>1. Init => SweepInv
  BY InitInv
<1>2. QED
  BY <1>1, NextInv, PTL DEF Spec

(* Whatever drills, processes, hosts and pids there are: where a sandbox   *)
(* carries its owner from birth (docker, k8s), no sweep destroys the one a *)
(* running drill uses, in the window between verdict and removal included. *)
THEOREM UsedSandboxesStay == Spec => []UsedSandboxStays
<1>1. SweepInv => UsedSandboxStays
  BY DEF SweepInv
<1>2. QED
  BY <1>1, Invariance, PTL

(* Where the OS tells process start times, a sweep that runs to its end has*)
(* reclaimed all that was orphaned on its host when it listed, although    *)
(* the pids of dead owners were given out again.                           *)
THEOREM SweepsReclaim ==
  ASSUME Tokens
  PROVE  Spec => []SweepReclaims
<1>1. SweepInv => SweepReclaims
  BY DEF SweepInv, ListedInv, SweepReclaims
<1>2. QED
  BY <1>1, Invariance, PTL
=============================================================================
