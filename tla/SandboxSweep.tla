---------------------------- MODULE SandboxSweep ----------------------------
(***************************************************************************)
(* The life of sandboxes across drills, processes and drill hosts: Create, *)
(* Destroy and SweepOrphans of internal/sandbox/{docker,k8s,remotehost},   *)
(* and the owner ids of internal/sandbox/owner.go that tell a sweep whose  *)
(* sandbox it is looking at.                                               *)
(*                                                                         *)
(* Drills share one runtime (a daemon, a cluster, a target host). Every    *)
(* drill sweeps, creates one sandbox, uses it and destroys it; its process *)
(* may die at any point, and a later process may get its pid.              *)
(***************************************************************************)
EXTENDS Integers, FiniteSets

CONSTANTS
  Drills, Procs, Hosts, Pids,
  ProcOf,           (* the process a drill runs in; a game-day runs several *)
  HostOf, PidOf,    (* where a process runs and the pid it gets             *)
  NoTarget,
  Tokens,           (* the OS tells process start times apart               *)
  Sites             (* the runtimes to look at                              *)

ASSUME PlacementAssumption == /\ ProcOf \in [Drills -> Procs]
                              /\ HostOf \in [Procs -> Hosts]
                              /\ PidOf \in [Procs -> Pids]
ASSUME TargetAssumption == NoTarget \notin Drills
ASSUME ProviderAssumption == Tokens \in BOOLEAN
ASSUME SitesAssumption ==
  Sites \subseteq [drills : SUBSET Drills, marked : BOOLEAN, backstop : BOOLEAN, rmFails : BOOLEAN]

VARIABLES
  site,       (* the runtime, and which drills use it                       *)
  proc,       (* unborn, alive or dead                                      *)
  drill,      (* the step each drill is at                                  *)
  sandbox,    (* each drill's sandbox: none, bare (no owner marker yet),    *)
              (* marked, up (backstop armed, if there is one) or gone       *)
  todo,       (* what a sweep has listed and not yet looked at              *)
  target,     (* what a sweep has judged an orphan and is about to remove   *)
  listed      (* what was orphaned when a sweep listed it; emptied when the *)
              (* sweep is abandoned (history)                               *)

vars == <<site, proc, drill, sandbox, todo, target, listed>>

MarkedAtCreate == site.marked   (* the owner is part of the created object (docker and k8s   *)
                                (* labels), or written after it (remotehost)                 *)
Backstop == site.backstop       (* the runtime destroys old sandboxes by itself              *)
RmFails == site.rmFails         (* the drill user may be unable to remove a workspace        *)

Present == {q \in Drills : sandbox[q] \in {"bare", "marked", "up"}}

TypeOK ==
  /\ site \in Sites
  /\ proc \in [Procs -> {"unborn", "alive", "dead"}]
  /\ drill \in [Drills -> {"idle", "sweeping", "creating", "marking", "arming",
                           "using", "failed", "ended"}]
  /\ sandbox \in [Drills -> {"none", "bare", "marked", "up", "gone"}]
  /\ todo \in [Drills -> SUBSET Drills]
  /\ target \in [Drills -> Drills \cup {NoTarget}]
  /\ listed \in [Drills -> SUBSET Drills]
  /\ \A d \in Drills :
       todo[d] # {} \/ target[d] # NoTarget => drill[d] = "sweeping"

Init ==
  /\ site \in Sites
  /\ proc = [p \in Procs |-> "unborn"]
  /\ drill = [d \in Drills |-> "idle"]
  /\ sandbox = [d \in Drills |-> "none"]
  /\ todo = [d \in Drills |-> {}]
  /\ target = [d \in Drills |-> NoTarget]
  /\ listed = [d \in Drills |-> {}]

Owner(q) == ProcOf[q]
Runs(d) == d \in site.drills /\ proc[ProcOf[d]] = "alive"
At(d, step) == Runs(d) /\ drill[d] = step
Goto(d, step) == drill' = [drill EXCEPT ![d] = step]

-----------------------------------------------------------------------------
(* A pid belongs to one live process of a host at a time, and is reused.   *)
Start(p) ==
  /\ proc[p] = "unborn"
  /\ ~ \E r \in Procs : proc[r] = "alive" /\ HostOf[r] = HostOf[p] /\ PidOf[r] = PidOf[p]
  /\ proc' = [proc EXCEPT ![p] = "alive"]
  /\ UNCHANGED <<site, drill, sandbox, todo, target, listed>>

(* A process ends, by itself or killed in the middle of its drills.        *)
Die(p) ==
  /\ proc[p] = "alive"
  /\ proc' = [proc EXCEPT ![p] = "dead"]
  /\ UNCHANGED <<site, drill, sandbox, todo, target, listed>>

(* OwnerAlive: some process has the pid, and the start token, where there  *)
(* is one, says it is the same process.                                    *)
OwnerAlive(q) ==
  \E r \in Procs : /\ proc[r] = "alive"
                   /\ HostOf[r] = HostOf[Owner(q)] /\ PidOf[r] = PidOf[Owner(q)]
                   /\ Tokens => r = Owner(q)

(* isOrphan, on the host of drill d. A sandbox without its owner marker    *)
(* counts as orphaned.                                                     *)
OrphanAnyHost(d, q) ==   (* mutant: the host label is not compared *)
  \/ sandbox[q] = "bare"
  \/ ~ \E r \in Procs : /\ proc[r] = "alive"
                        /\ HostOf[r] = HostOf[ProcOf[d]] /\ PidOf[r] = PidOf[Owner(q)]
                        /\ Tokens => r = Owner(q)

IsOrphan(d, q) ==
  \/ sandbox[q] = "bare"
  \/ HostOf[Owner(q)] = HostOf[ProcOf[d]] /\ ~ OwnerAlive(q)

-----------------------------------------------------------------------------
(* SweepOrphans: list, then judge and remove one by one.                   *)
List(d) ==
  /\ At(d, "idle")
  /\ todo' = [todo EXCEPT ![d] = Present]
  /\ listed' = [listed EXCEPT ![d] =
       {q \in Present : proc[Owner(q)] = "dead" /\ HostOf[Owner(q)] = HostOf[ProcOf[d]]}]
  /\ Goto(d, "sweeping")
  /\ UNCHANGED <<site, proc, sandbox, target>>

(* What has vanished since it was listed is nothing to sweep.              *)
Judge(d, q) ==
  /\ At(d, "sweeping") /\ target[d] = NoTarget /\ q \in todo[d]
  /\ todo' = [todo EXCEPT ![d] = @ \ {q}]
  /\ target' = [target EXCEPT ![d] = IF q \in Present /\ IsOrphan(d, q) THEN q ELSE NoTarget]
  /\ UNCHANGED <<site, proc, drill, sandbox, listed>>

(* remove and destroy are idempotent.                                      *)
Reap(d) ==
  /\ At(d, "sweeping") /\ target[d] # NoTarget
  /\ sandbox' = [sandbox EXCEPT ![target[d]] = "gone"]
  /\ target' = [target EXCEPT ![d] = NoTarget]
  /\ UNCHANGED <<site, proc, drill, todo, listed>>

(* What is left of a sandbox when the command that destroys it fails. The  *)
(* remote script disarms the backstop timer before it removes the workspace*)
AfterFailedDestroy(state) ==
  {state} \cup (IF RmFails /\ state = "up" /\ ~ MarkedAtCreate THEN {"marked"} ELSE {})

(* Any error abandons the sweep; the drill only logs it.                   *)
SweepFails(d) ==
  /\ drill[d] \in {"idle", "sweeping"} /\ Runs(d)
  /\ IF target[d] = NoTarget
       THEN UNCHANGED sandbox
       ELSE \E left \in AfterFailedDestroy(sandbox[target[d]]) :
              sandbox' = [sandbox EXCEPT ![target[d]] = left]
  /\ todo' = [todo EXCEPT ![d] = {}]
  /\ target' = [target EXCEPT ![d] = NoTarget]
  /\ listed' = [listed EXCEPT ![d] = {}]
  /\ Goto(d, "creating")
  /\ UNCHANGED <<site, proc>>

SweepEndsEarly(d) ==   (* mutant: a sandbox to keep ends the sweep *)
  /\ At(d, "sweeping") /\ target[d] = NoTarget
  /\ todo[d] = {} \/ \E q \in todo[d] : ~ IsOrphan(d, q)
  /\ todo' = [todo EXCEPT ![d] = {}]
  /\ Goto(d, "creating")
  /\ UNCHANGED <<site, proc, sandbox, target, listed>>

SweepEnds(d) ==
  /\ At(d, "sweeping") /\ target[d] = NoTarget /\ todo[d] = {}
  /\ Goto(d, "creating")
  /\ UNCHANGED <<site, proc, sandbox, todo, target, listed>>

-----------------------------------------------------------------------------
(* Create: one object that carries its labels and its deadline, or on a    *)
(* remote host a workspace, its owner marker, and last the backstop timer. *)
Create(d) ==
  /\ At(d, "creating")
  /\ sandbox' = [sandbox EXCEPT ![d] = IF MarkedAtCreate THEN "up" ELSE "bare"]
  /\ Goto(d, IF MarkedAtCreate THEN "using" ELSE "marking")
  /\ UNCHANGED <<site, proc, todo, target, listed>>

Mark(d) ==
  /\ At(d, "marking") /\ sandbox[d] = "bare"
  /\ sandbox' = [sandbox EXCEPT ![d] = "marked"]
  /\ Goto(d, "arming")
  /\ UNCHANGED <<site, proc, todo, target, listed>>

ArmNot(d) ==   (* mutant: the backstop is not armed *)
  /\ At(d, "arming")
  /\ Goto(d, "using")
  /\ UNCHANGED <<site, proc, sandbox, todo, target, listed>>

Arm(d) ==
  /\ At(d, "arming")
  /\ sandbox' = [sandbox EXCEPT ![d] = IF @ = "marked" THEN "up" ELSE @]
  /\ Goto(d, "using")
  /\ UNCHANGED <<site, proc, todo, target, listed>>

(* Create gives up and destroys what it made, which may fail as well. Where*)
(* one command creates the object, that command can fail with the object   *)
(* made and its name not known.                                            *)
CreateFails(d) ==
  /\ Runs(d) /\ drill[d] \in {"creating", "marking", "arming"}
  /\ \E left \in IF sandbox[d] = "none" THEN {"none"} ELSE {"gone", sandbox[d]} :
       sandbox' = [sandbox EXCEPT ![d] = left]
  /\ Goto(d, "failed")
  /\ UNCHANGED <<site, proc, todo, target, listed>>

CreateLeaks(d) ==
  /\ At(d, "creating") /\ MarkedAtCreate
  /\ sandbox' = [sandbox EXCEPT ![d] = "up"]
  /\ Goto(d, "failed")
  /\ UNCHANGED <<site, proc, todo, target, listed>>

(* Destroy, on every path out of the drill; it may fail.                   *)
Destroy(d) ==
  /\ At(d, "using")
  /\ \E left \in {"gone"} \cup AfterFailedDestroy(sandbox[d]) :
       sandbox' = [sandbox EXCEPT ![d] = left]
  /\ Goto(d, "ended")
  /\ UNCHANGED <<site, proc, todo, target, listed>>

(* activeDeadlineSeconds and the reaper timer: a fixed deadline, which no   *)
(* drill whose own limit is shorter reaches while it runs.                 *)
BackstopFires(q) ==
  /\ Backstop /\ sandbox[q] = "up"
  /\ ~ At(q, "using")
  /\ sandbox' = [sandbox EXCEPT ![q] = "gone"]
  /\ UNCHANGED <<site, proc, drill, todo, target, listed>>

SweepStep(d) == \/ List(d) \/ (\E q \in Drills : Judge(d, q)) \/ Reap(d)
                \/ SweepFails(d) \/ SweepEnds(d)
DrillStep(d) == \/ SweepStep(d) \/ Create(d) \/ Mark(d) \/ Arm(d) \/ CreateFails(d)
                \/ CreateLeaks(d) \/ Destroy(d)

Next == \/ \E p \in Procs : Start(p) \/ Die(p)
        \/ \E d \in Drills : DrillStep(d) \/ BackstopFires(d)

Spec == Init /\ [][Next]_vars /\ \A d \in Drills : WF_vars(BackstopFires(d))

-----------------------------------------------------------------------------
(* The sweep of a runtime whose sandboxes carry their owner from birth     *)
(* never destroys the sandbox of a running drill: a concurrent one, a      *)
(* sibling in the same game-day, or one on another host.                   *)
UsedSandboxStays == MarkedAtCreate => \A d \in Drills : At(d, "using") => sandbox[d] = "up"

(* The same of every runtime: "Live processes' sandboxes are kept; other   *)
(* hosts' sandboxes are never touched" (SweepOrphans of remotehost).       *)
LiveSandboxStays == \A d \in Drills : At(d, "using") => sandbox[d] = "up"

(* A sweep that runs to its end reclaims all that was orphaned on its host *)
(* when it listed, pid reuse notwithstanding.                              *)
SweepReclaims ==
  \A d \in Drills : drill[d] \in {"creating", "marking", "arming", "using"} =>
    \A q \in listed[d] : sandbox[q] = "gone"

(* docs/sandbox-bare-host.md, 5: production data does not outlive a        *)
(* vanished drill host. Where the runtime has a backstop, a sandbox that a *)
(* drill has used is destroyed in the end, though its process is gone and  *)
(* no sweep ever runs again. It holds where the drill user can remove what *)
(* is in the workspace: the destroy script disarms the timer before it     *)
(* tries, and a removal that fails leaves the data with no backstop.       *)
DataReclaimed ==
  \A d \in Drills :
    (Backstop /\ ~ RmFails /\ drill[d] \in {"using", "ended"} /\ proc[ProcOf[d]] = "dead") ~> (sandbox[d] = "gone")

(***************************************************************************)
(* The inductive invariant behind UsedSandboxStays and SweepReclaims.      *)
(***************************************************************************)
(* What a process has begun or made, it has begun or made while alive, and *)
(* what a sweep is about to remove was made.                               *)
BornInv == \A d \in Drills :
  /\ sandbox[d] # "none" \/ drill[d] # "idle" => proc[ProcOf[d]] # "unborn"
  /\ target[d] # NoTarget => sandbox[target[d]] # "none"

(* Where the marker is part of the object no drill is ever between the two,*)
(* and what a sweep is about to remove belongs to a process that is dead:  *)
(* it stays dead, whoever gets its pid.                                    *)
MarkedInv == MarkedAtCreate => \A d \in Drills :
  /\ sandbox[d] \in {"none", "up", "gone"}
  /\ drill[d] \notin {"marking", "arming"}
  /\ target[d] # NoTarget => proc[Owner(target[d])] = "dead"

(* What was orphaned when it was listed is still to be looked at, about to *)
(* be removed, or gone.                                                    *)
ListedInv == Tokens => \A d \in Drills :
  /\ drill[d] = "idle" => listed[d] = {}
  /\ \A q \in listed[d] :
       /\ proc[Owner(q)] = "dead" /\ HostOf[Owner(q)] = HostOf[ProcOf[d]]
       /\ sandbox[q] # "none"
       /\ drill[d] = "sweeping" => q \in todo[d] \/ target[d] = q \/ sandbox[q] = "gone"
       /\ drill[d] \in {"creating", "marking", "arming", "using"} => sandbox[q] = "gone"

SweepInv == TypeOK /\ BornInv /\ MarkedInv /\ ListedInv /\ UsedSandboxStays
=============================================================================
