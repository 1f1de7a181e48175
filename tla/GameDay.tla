------------------------------ MODULE GameDay ------------------------------
(***************************************************************************)
(* A game-day: the scheduler loop of internal/gameday/gameday.go, one      *)
(* goroutine per running member (executeDrill of cmd/probavi/run.go), the  *)
(* evidence logs they open, and the exit code of `probavi gameday`.        *)
(*                                                                         *)
(* The game-day is any file whose members and dependencies are well formed:*)
(* that the graph has no cycle is for cycleMembers to find out             *)
(* (GameDayConfig), that parallel members do not share an evidence log for *)
(* loadMembers, and a file one of them objects to is refused.              *)
(***************************************************************************)
EXTENDS GameDayConfig

CONSTANTS
  MaxParallel,    (* the largest max_parallel to look at                    *)
  Logs            (* evidence log files                                     *)

ASSUME MaxParallelAssumption == MaxParallel \in Nat \ {0}

VARIABLES
  cfg,        (* the rest of the game-day file: par, and each member's log  *)
  pc,         (* where the scheduler loop is                                *)
  ctx,        (* why the game-day's context ended, if it has                *)
  outcomes,   (* the scheduler's map: "none" until a member is settled      *)
  running,    (* the scheduler's count of members it waits for              *)
  member,     (* each member's goroutine                                    *)
  answer,     (* the summary each goroutine reports                         *)
  recorded,   (* members whose drill appended a record (history)            *)
  exit        (* the exit code                                              *)

schedVars == <<cfg, pc, ctx, outcomes, running, member, answer, recorded, exit>>
vars == <<kahnVars, schedVars>>

Parallelism == cfg.par
Distinct(log) == \A m, n \in Members : m # n => log[m] # log[n]

Configs == [par : 1 .. MaxParallel, log : [Members -> Logs]]

RunOutcomes == {"pass", "fail", "error", "cancelled"}
NoAnswer == [outcome |-> "none", code |-> "none"]

TypeOK ==
  /\ cfg \in Configs
  /\ pc \in {"load", "skip", "cancel", "launch", "wait", "ended", "refused"}
  /\ ctx \in {"live", "deadline", "cancelled"}
  /\ outcomes \in [Members -> RunOutcomes \cup {"none", "skipped"}]
  /\ running \in 0 .. cfg.par
  /\ member \in [Members -> {"pending", "starting", "drilling", "answered", "settled"}]
  /\ answer \in [Members -> [outcome : RunOutcomes \cup {"none"},
                             code : {"none", "setup", "lost"}]]
  /\ recorded \subseteq Members
  /\ exit \in {"none", "usage", "pass", "fail", "error", "lost"}

Init ==
  /\ CountDependencies
  /\ cfg \in Configs
  /\ pc = "load" /\ ctx = "live" /\ running = 0
  /\ outcomes = [m \in Members |-> "none"]
  /\ member = [m \in Members |-> "pending"]
  /\ answer = [m \in Members |-> NoAnswer]
  /\ recorded = {} /\ exit = "none"

-----------------------------------------------------------------------------
(* LoadGameDay: validate, which ends with cycleMembers, and loadMembers,   *)
(* which wants a log for each member when members may run in parallel. A   *)
(* refused file ends the command, and no member has run.                   *)
FindCycles == pc = "load" /\ CycleMembers /\ UNCHANGED schedVars

LogsSharedFreely ==   (* mutant: a shared log is let through *)
  TRUE

LogsDistinct == Parallelism > 1 => Distinct(cfg.log)

Loaded ==
  /\ pc = "load" /\ answered
  /\ IF stuck = {} /\ LogsDistinct
       THEN pc' = "skip" /\ UNCHANGED exit
       ELSE pc' = "refused" /\ exit' = "usage"
  /\ UNCHANGED <<kahnVars, cfg, ctx, outcomes, running, member, answer, recorded>>

-----------------------------------------------------------------------------
(* skipBlockedMembers, one member at a time until the cascade settles.     *)
BlockedByRuns(m) ==   (* mutant: a skipped dependency does not block *)
  \E d \in deps[m] : outcomes[d] \notin {"none", "pass", "skipped"}

BlockedByUnfinished(m) ==   (* mutant: an unfinished dependency blocks *)
  \E d \in deps[m] : outcomes[d] # "pass"

Blocked(m) == \E d \in deps[m] : outcomes[d] \notin {"none", "pass"}

Skip(s) ==
  /\ outcomes' = [m \in Members |-> IF m \in s THEN "skipped" ELSE outcomes[m]]
  /\ member' = [m \in Members |-> IF m \in s THEN "settled" ELSE member[m]]

Pending == {m \in Members : member[m] = "pending"}

SkipBlocked(m) ==
  /\ pc = "skip" /\ m \in Pending /\ Blocked(m)
  /\ Skip({m})
  /\ UNCHANGED <<kahnVars, cfg, pc, ctx, running, answer, recorded, exit>>

SkipsSettled ==
  /\ pc = "skip" /\ \A m \in Pending : ~ Blocked(m)
  /\ pc' = "cancel"
  /\ UNCHANGED <<kahnVars, cfg, ctx, outcomes, running, member, answer, recorded, exit>>

(* skipRemaining, when the context has ended.                              *)
SkipRemaining ==
  /\ pc = "cancel"
  /\ Skip(IF ctx = "live" THEN {} ELSE Pending)
  /\ pc' = "launch"
  /\ UNCHANGED <<kahnVars, cfg, ctx, running, answer, recorded, exit>>

(* launchReady: the first ready members in file order, one per free slot;  *)
(* then the loop waits for an answer, or ends with nothing running.        *)
ReadyAnyway(m) ==   (* mutant: an unfinished dependency counts as passed *)
  m \in Pending /\ \A d \in deps[m] : outcomes[d] \in {"none", "pass"}

Ready(m) == m \in Pending /\ \A d \in deps[m] : outcomes[d] = "pass"

Slots == Parallelism - running

Launched == {m \in Members :
               Ready(m) /\ Cardinality({k \in 1 .. (m - 1) : Ready(k)}) < Slots}

LaunchReady ==
  /\ pc = "launch"
  /\ member' = [m \in Members |-> IF m \in Launched THEN "starting" ELSE member[m]]
  /\ running' = running + Cardinality(Launched)
  /\ pc' = IF running' = 0 THEN "ended" ELSE "wait"
  /\ UNCHANGED <<kahnVars, cfg, ctx, outcomes, answer, recorded, exit>>

ReceiveUncounted(m) ==   (* mutant: running is not decremented *)
  /\ pc = "wait" /\ member[m] = "answered"
  /\ member' = [member EXCEPT ![m] = "settled"]
  /\ outcomes' = [outcomes EXCEPT ![m] = answer[m].outcome]
  /\ pc' = "skip"
  /\ UNCHANGED <<kahnVars, cfg, ctx, running, answer, recorded, exit>>

Receive(m) ==
  /\ pc = "wait" /\ member[m] = "answered"
  /\ member' = [member EXCEPT ![m] = "settled"]
  /\ outcomes' = [outcomes EXCEPT ![m] = answer[m].outcome]
  /\ running' = running - 1
  /\ pc' = "skip"
  /\ UNCHANGED <<kahnVars, cfg, ctx, answer, recorded, exit>>

-----------------------------------------------------------------------------
(* A member's goroutine. wireDrill opens the log, which another process of *)
(* the same game-day may hold; executeDrill closes it before it answers.   *)
Holds(m) == member[m] = "drilling"
LogTaken(m) == \E n \in Members : Holds(n) /\ cfg.log[n] = cfg.log[m]

Answered(m, outcome, code) ==
  /\ member' = [member EXCEPT ![m] = "answered"]
  /\ answer' = [answer EXCEPT ![m] = [outcome |-> outcome, code |-> code]]
  /\ UNCHANGED <<kahnVars, cfg, pc, ctx, outcomes, running, exit>>

OpenLog(m) ==
  /\ member[m] = "starting" /\ ~ LogTaken(m)
  /\ member' = [member EXCEPT ![m] = "drilling"]
  /\ UNCHANGED <<kahnVars, cfg, pc, ctx, outcomes, running, answer, recorded, exit>>

(* ErrLocked, or any other setup error: no drill, no record.               *)
SetupFails(m) ==
  /\ member[m] = "starting"
  /\ Answered(m, "error", "setup")
  /\ UNCHANGED recorded

(* The drill ran and its record is in the log. An interrupted drill says   *)
(* what its context says (Drill!Classified): a deadline is an error.       *)
DrillOutcomes ==
  {"pass", "fail", "error"} \cup (IF ctx = "cancelled" THEN {"cancelled"} ELSE {})

FinishDrill(m) ==
  /\ member[m] = "drilling"
  /\ \E o \in DrillOutcomes : Answered(m, o, "none")
  /\ recorded' = recorded \cup {m}

LoseRecord(m) ==
  /\ member[m] = "drilling"
  /\ Answered(m, "error", "lost")
  /\ UNCHANGED recorded

-----------------------------------------------------------------------------
(* overallOutcome and gamedayExit.                                         *)
OverallAnyPass ==   (* mutant: skipped members do not count *)
  LET seen == {outcomes[m] : m \in Members} \ {"skipped"}
  IN  CASE "fail" \in seen     -> "fail"
        [] seen \subseteq {"pass"} -> "pass"
        [] OTHER               -> "error"

OverallOutcome ==
  LET seen == {outcomes[m] : m \in Members}
  IN  CASE seen = {"pass"}     -> "pass"
        [] "fail" \in seen     -> "fail"
        [] OTHER               -> "error"

Exit ==
  /\ pc = "ended" /\ exit = "none"
  /\ exit' = IF \E m \in Members : answer[m].code = "lost" THEN "lost" ELSE OverallOutcome
  /\ UNCHANGED <<kahnVars, cfg, pc, ctx, outcomes, running, member, answer, recorded>>

(* The environment: a signal or the game-day's own limit.                  *)
Interrupt(cause) ==
  /\ pc \notin {"load", "ended", "refused"} /\ ctx = "live"
  /\ ctx' = cause
  /\ UNCHANGED <<kahnVars, cfg, pc, outcomes, running, member, answer, recorded, exit>>

Scheduler == \/ FindCycles \/ Loaded
             \/ \E m \in Members : SkipBlocked(m) \/ Receive(m)
             \/ SkipsSettled \/ SkipRemaining \/ LaunchReady \/ Exit
MemberStep(m) == OpenLog(m) \/ SetupFails(m) \/ FinishDrill(m) \/ LoseRecord(m)

Next == \/ Scheduler
        \/ \E m \in Members : MemberStep(m)
        \/ \E cause \in {"deadline", "cancelled"} : Interrupt(cause)

(* The loop runs whenever it can, and every drill ends (Drill!DrillEnds).  *)
Fairness == WF_vars(Scheduler) /\ \A m \in 1 .. NumMembers : WF_vars(MemberStep(m))

Spec == Init /\ [][Next]_vars /\ Fairness

-----------------------------------------------------------------------------
(* Restores happen in dependency order: a member that was started has only *)
(* dependencies that finished, ran and passed.                             *)
DependencyOrder ==
  \A m \in Members : member[m] \in {"starting", "drilling", "answered"} \/ m \in recorded =>
    \A d \in deps[m] : outcomes[d] = "pass" /\ d \in recorded

(* What runs at one time: no more members than max_parallel, which is what *)
(* the loop counts and waits for, and none that finds its evidence log     *)
(* taken by another: the sequential mode is what makes a shared log safe.  *)
RunApart ==
  LET alive == {m \in Members : member[m] \in {"starting", "drilling", "answered"}}
  IN  /\ Cardinality(alive) <= cfg.par
      /\ pc # "ended" => running = Cardinality(alive)
      /\ \A m \in Members : member[m] = "starting" => ~ LogTaken(m)

(* While the game-day is not interrupted, a member is skipped only because *)
(* of a member that ran and did not pass, somewhere below it.              *)
Below(m) == {n \in Members :
               \A s \in SUBSET Members :
                 (deps[m] \subseteq s /\ \A k \in s : deps[k] \subseteq s) => n \in s}
SkipsAreCaused ==
  \A m \in Members : outcomes[m] = "skipped" =>
    \/ ctx # "live"
    \/ \E n \in Below(m) : outcomes[n] \in {"fail", "error", "cancelled"}

(* A game-day that was accepted ends with every member run or skipped: no  *)
(* cycle cycleMembers overlooked leaves members waiting for each other; and*)
(* the exit code tells the worst of it: 0 means that every member passed   *)
(* and left its record.                                                    *)
ExitTellsAll ==
  pc = "ended" =>
    /\ \A m \in Members : outcomes[m] # "none"
    /\ exit = "pass" => \A m \in Members : outcomes[m] = "pass" /\ m \in recorded
    /\ exit = "lost" <=> exit # "none" /\ \E m \in Members : answer[m].code = "lost"
    /\ exit = "fail" => \E m \in recorded : outcomes[m] = "fail"

(* Every game-day ends.                                                    *)
GameDayEnds == <>(exit # "none")

(***************************************************************************)
(* The inductive invariant behind the properties above.                    *)
(***************************************************************************)
Alive == {m \in Members : member[m] \in {"starting", "drilling", "answered"}}

(* Nothing runs before the file is accepted, and what was accepted stays.  *)
LoadInv ==
  /\ pc \in {"load", "refused"} => \A m \in Members : member[m] = "pending"
  /\ pc \notin {"load", "refused"} => answered /\ stuck = {} /\ LogsDistinct
  /\ pc \notin {"ended", "refused"} => exit = "none"
  /\ pc = "refused" => exit = "usage"

(* What the loop knows of a member, what the member reported and what is in*)
(* its log are of one piece.                                               *)
MemberInv == \A m \in Members :
  /\ member[m] = "settled" <=> outcomes[m] # "none"
  /\ member[m] \in {"pending", "starting", "drilling"} => answer[m] = NoAnswer
  /\ member[m] = "answered" => answer[m].outcome \in RunOutcomes
  /\ outcomes[m] = "skipped" => answer[m] = NoAnswer
  /\ outcomes[m] \in RunOutcomes => outcomes[m] = answer[m].outcome
  /\ answer[m].outcome \in {"pass", "fail"} => m \in recorded
  /\ answer[m].outcome = "none" => m \notin recorded
  /\ answer[m].code # "none" => answer[m].outcome = "error"

(* The loop's count is the number of goroutines, and it fits the slots.    *)
CountInv == running = Cardinality(Alive) /\ running <= cfg.par

(* Past skipBlockedMembers nothing that waits is blocked, and the loop ends*)
(* with nothing running and nothing waiting.                               *)
LoopInv ==
  /\ pc \in {"cancel", "launch"} => \A m \in Pending : ~ Blocked(m)
  /\ pc = "ended" => running = 0 /\ Pending = {}

GameDayInv ==
  /\ TypeOK /\ KahnInv /\ LoadInv /\ MemberInv /\ CountInv /\ LoopInv
  /\ DependencyOrder /\ SkipsAreCaused /\ ExitTellsAll
=============================================================================
