------------------------------- MODULE Drill -------------------------------
(***************************************************************************)
(* One restore drill: executeDrill of cmd/probavi/run.go around Drill.Run  *)
(* of internal/core/core.go, with checks.Run inside it.                    *)
(*                                                                         *)
(* The drill is one goroutine; its environment ends the drill's context at *)
(* any moment (a signal, the wall-clock limit), makes any adapter, sandbox *)
(* or store call fail, and may kill the process. A record is abstracted to *)
(* its verdict and to the check results it carries.                        *)
(***************************************************************************)
EXTENDS Integers, Sequences

CONSTANTS
  NumChecks,      (* checks after baseline is expanded to its tables        *)
  AdapterCodes    (* error codes an adapter's answers carry                 *)

ASSUME NumChecksAssumption == NumChecks \in Nat \ {0}
ASSUME AdapterCodesAssumption == AdapterCodes \subseteq STRING

VARIABLES
  phase,      (* the step of the drill                                      *)
  ctx,        (* why the drill's context ended, if it has: its own limit,   *)
              (* the limit of the game-day it is a member of, or a signal   *)
  rec,        (* the record being composed: outcome and error code; by: the *)
              (* core's own code, or the one an answer carried (history)    *)
  results,    (* the check results: ok, and own: the check ended by itself, *)
              (* not because the interrupted drill killed it (history)      *)
  sandbox,    (* none, up, gone, or leaked when it was left behind          *)
  adapter,    (* none, probed, provisioned, attempted when provision failed,*)
              (* or the reason teardown was called with                     *)
  stored,     (* the verdicts this drill appended                           *)
  exit        (* the exit code of the run                                   *)

vars == <<phase, ctx, rec, results, sandbox, adapter, stored, exit>>

FailCodes == {"source_not_found", "source_unreadable", "source_corrupt",
              "restore_failed", "check_failed"}

ErrorCodes == FailCodes \cup
  {"invalid_request", "unsupported_protocol", "unsupported_source",
   "engine_not_ready", "sandbox_error", "timeout", "cancelled",
   "adapter_crash", "internal"}

Outcomes == {"none", "pass", "fail", "error", "cancelled"}
Verdict == [outcome : Outcomes, code : ErrorCodes \cup {"none"}, by : {"core", "answer"}]
Phases == {"wire", "sweep", "probe", "gate", "manifest", "create", "provision",
           "checks", "exec", "teardown", "destroy", "append", "degrade",
           "report", "lost", "ended", "dead"}
Reasons == {"completed", "cancelled", "timeout", "failed"}

(* The phases in which the drill's context exists and can end.             *)
Running == {"sweep", "probe", "gate", "manifest", "create", "provision",
            "checks", "exec", "teardown", "destroy", "append", "degrade"}

TypeOK ==
  /\ phase \in Phases
  /\ ctx \in {"live", "deadline", "gameday", "cancelled"}
  /\ rec \in Verdict
  /\ results \in Seq([ok : BOOLEAN, own : BOOLEAN]) /\ Len(results) <= NumChecks
  /\ sandbox \in {"none", "up", "gone", "leaked"}
  /\ adapter \in {"none", "probed", "provisioned", "attempted"} \cup Reasons
  /\ stored \in Seq(Verdict)
  /\ exit \in {"none", "pass", "fail", "error", "usage", "lost"}

Init ==
  /\ phase = "wire" /\ ctx = "live"
  /\ rec = [outcome |-> "none", code |-> "none", by |-> "core"]
  /\ results = <<>> /\ sandbox = "none" /\ adapter = "none"
  /\ stored = <<>> /\ exit = "none"

-----------------------------------------------------------------------------
OutcomeOf(code) == IF code \in FailCodes THEN "fail"
                   ELSE IF code = "cancelled" THEN "cancelled" ELSE "error"

(* classify: the context outranks what the adapter said, and a code outside*)
(* the published vocabulary becomes internal. Either limit shows as        *)
(* DeadlineExceeded.                                                       *)
ClassifiedAsReported(code) ==   (* mutant: the context is not consulted *)
  LET known == IF code \in ErrorCodes THEN code ELSE "internal"
  IN  [outcome |-> OutcomeOf(known), code |-> known,
       by |-> IF known = code THEN "answer" ELSE "core"]

Classified(code) ==
  LET asked == CASE ctx \in {"deadline", "gameday"} -> "timeout"
                 [] ctx = "cancelled"             -> "cancelled"
                 [] OTHER                         -> code
      known == IF asked \in ErrorCodes THEN asked ELSE "internal"
  IN  [outcome |-> OutcomeOf(known), code |-> known,
       by |-> IF known = code THEN "answer" ELSE "core"]

(* recordFault: the same taxonomy, without a look at the context.          *)
Faulted(code) ==
  [rec EXCEPT !.code = code, !.outcome = IF code \in FailCodes THEN "fail" ELSE "error"]

(* Create wraps every failure, so it never carries an adapter code.        *)
CreateFault ==
  LET r == Classified("internal")
  IN  IF r.code = "internal" THEN [r EXCEPT !.code = "sandbox_error"] ELSE r

-----------------------------------------------------------------------------
(* wireDrill: configuration, notifier, provider, key, evidence store and   *)
(* adapter. What fails here is a usage error and leaves no record.         *)
Wire ==
  /\ phase = "wire"
  /\ phase' = "sweep"
  /\ UNCHANGED <<ctx, rec, results, sandbox, adapter, stored, exit>>

WireFails ==
  /\ phase = "wire"
  /\ exit' = "usage"
  /\ phase' = "ended"
  /\ UNCHANGED <<ctx, rec, results, sandbox, adapter, stored>>

(* The orphan sweep is best effort: its failure is a log line.             *)
Sweep ==
  /\ phase = "sweep"
  /\ phase' = "probe"
  /\ UNCHANGED <<ctx, rec, results, sandbox, adapter, stored, exit>>

Probe ==
  /\ phase = "probe"
  /\ adapter' = "probed"
  /\ phase' = "gate"
  /\ UNCHANGED <<ctx, rec, results, sandbox, stored, exit>>

ProbeFails(code) ==
  /\ phase = "probe"
  /\ rec' = Classified(code)
  /\ phase' = "append"
  /\ UNCHANGED <<ctx, results, sandbox, adapter, stored, exit>>

(* refusedByProbe: the source kind, its PITR support, its selection policy.*)
Admit ==
  /\ phase = "gate"
  /\ phase' = "manifest"
  /\ UNCHANGED <<ctx, rec, results, sandbox, adapter, stored, exit>>

Refuse(code) ==
  /\ phase = "gate"
  /\ rec' = [rec EXCEPT !.outcome = "error", !.code = code]
  /\ phase' = "append"
  /\ UNCHANGED <<ctx, results, sandbox, adapter, stored, exit>>

(* checkBackupManifest.                                                    *)
ManifestHolds ==
  /\ phase = "manifest"
  /\ phase' = "create"
  /\ UNCHANGED <<ctx, rec, results, sandbox, adapter, stored, exit>>

ManifestFaults(code) ==
  /\ phase = "manifest"
  /\ rec' = Faulted(code)
  /\ phase' = "append"
  /\ UNCHANGED <<ctx, results, sandbox, adapter, stored, exit>>

(* Create that fails may have made the sandbox and lost track of it.       *)
Create ==
  /\ phase = "create"
  /\ sandbox' = "up"
  /\ phase' = "provision"
  /\ UNCHANGED <<ctx, rec, results, adapter, stored, exit>>

CreateFails ==
  /\ phase = "create"
  /\ rec' = CreateFault
  /\ sandbox' \in {"none", "leaked"}
  /\ phase' = "append"
  /\ UNCHANGED <<ctx, results, adapter, stored, exit>>

Provision ==
  /\ phase = "provision"
  /\ adapter' = "provisioned"
  /\ phase' = "checks"
  /\ UNCHANGED <<ctx, rec, results, sandbox, stored, exit>>

ProvisionFailsNoTeardown(code) ==   (* mutant: teardown deferred too late *)
  /\ phase = "provision"
  /\ rec' = Classified(code)
  /\ adapter' = "attempted"
  /\ phase' = "destroy"
  /\ UNCHANGED <<ctx, results, sandbox, stored, exit>>

ProvisionFails(code) ==
  /\ phase = "provision"
  /\ rec' = Classified(code)
  /\ adapter' = "attempted"
  /\ phase' = "teardown"
  /\ UNCHANGED <<ctx, results, sandbox, stored, exit>>

-----------------------------------------------------------------------------
(* checks.Run. A command whose context has ended is not started; one that  *)
(* is running when the context ends is killed, and ExecRunner reports the  *)
(* kill as an exit code like any other: a false verdict, not an error.     *)
StartCheckPastEnd ==   (* mutant: one check too many *)
  /\ phase = "checks" /\ Len(results) <= NumChecks
  /\ ctx = "live"
  /\ phase' = "exec"
  /\ UNCHANGED <<ctx, rec, results, sandbox, adapter, stored, exit>>

StartCheckAnyway ==   (* mutant: a check starts under an ended context *)
  /\ phase = "checks" /\ Len(results) < NumChecks
  /\ phase' = "exec"
  /\ UNCHANGED <<ctx, rec, results, sandbox, adapter, stored, exit>>

StartCheck ==
  /\ phase = "checks" /\ Len(results) < NumChecks
  /\ ctx = "live"
  /\ phase' = "exec"
  /\ UNCHANGED <<ctx, rec, results, sandbox, adapter, stored, exit>>

FinishCheck(ok) ==
  /\ phase = "exec"
  /\ results' = Append(results, [ok |-> ok, own |-> TRUE])
  /\ phase' = "checks"
  /\ UNCHANGED <<ctx, rec, sandbox, adapter, stored, exit>>

KilledCheck ==
  /\ phase = "exec" /\ ctx # "live"
  /\ results' = Append(results, [ok |-> FALSE, own |-> FALSE])
  /\ phase' = "checks"
  /\ UNCHANGED <<ctx, rec, sandbox, adapter, stored, exit>>

(* An infrastructure failure abandons the remaining checks.                *)
CheckFailsQuietly(code) ==   (* mutant: the error of checks.Run is dropped *)
  /\ \/ phase = "exec"
     \/ phase = "checks" /\ Len(results) < NumChecks /\ ctx # "live"
  /\ rec' = IF \E i \in 1 .. Len(results) : ~ results[i].ok
              THEN [rec EXCEPT !.outcome = "fail", !.code = "check_failed"]
              ELSE [rec EXCEPT !.outcome = "pass"]
  /\ phase' = "teardown"
  /\ UNCHANGED <<ctx, results, sandbox, adapter, stored, exit>>

CheckFails(code) ==
  /\ \/ phase = "exec"
     \/ phase = "checks" /\ Len(results) < NumChecks /\ ctx # "live"
  /\ rec' = Classified(code)
  /\ phase' = "teardown"
  /\ UNCHANGED <<ctx, results, sandbox, adapter, stored, exit>>

Conclude ==
  /\ phase = "checks" /\ Len(results) = NumChecks
  /\ rec' = IF \E i \in 1 .. NumChecks : ~ results[i].ok
              THEN [rec EXCEPT !.outcome = "fail", !.code = "check_failed"]
              ELSE [rec EXCEPT !.outcome = "pass"]
  /\ phase' = "teardown"
  /\ UNCHANGED <<ctx, results, sandbox, adapter, stored, exit>>

-----------------------------------------------------------------------------
(* The deferred cleanup, on contexts of its own: teardown, then destroy.   *)
TeardownReasonByCode == CASE rec.code = "none"      -> "completed"   (* mutant *)
                          [] rec.code = "timeout"   -> "timeout"
                          [] OTHER                  -> "failed"

TeardownReason == IF rec.outcome = "pass" THEN "completed"
                  ELSE IF rec.outcome = "cancelled" THEN "cancelled"
                  ELSE IF rec.code = "timeout" THEN "timeout" ELSE "failed"

Teardown ==
  /\ phase = "teardown"
  /\ adapter' = TeardownReason
  /\ phase' = "destroy"
  /\ UNCHANGED <<ctx, rec, results, sandbox, stored, exit>>

Destroy ==
  /\ phase = "destroy"
  /\ sandbox' \in {"gone", "leaked"}
  /\ phase' = "append"
  /\ UNCHANGED <<ctx, rec, results, adapter, stored, exit>>

-----------------------------------------------------------------------------
(* Run's end: append the record, or a degraded one if the store refused    *)
(* the record for its shape; a failed write is not tried again.            *)
Degraded == [outcome |-> "error", code |-> "internal", by |-> "core"]

AppendOk ==
  /\ phase = "append"
  /\ stored' = Append(stored, rec)
  /\ phase' = "report"
  /\ UNCHANGED <<ctx, rec, results, sandbox, adapter, exit>>

AppendRejectedSilently ==   (* mutant: no degraded record *)
  /\ phase = "append"
  /\ phase' = "report"
  /\ UNCHANGED <<ctx, rec, results, sandbox, adapter, stored, exit>>

AppendRejected ==
  /\ phase = "append"
  /\ phase' = "degrade"
  /\ UNCHANGED <<ctx, rec, results, sandbox, adapter, stored, exit>>

AppendLost ==
  /\ phase \in {"append", "degrade"}
  /\ phase' = "lost"
  /\ UNCHANGED <<ctx, rec, results, sandbox, adapter, stored, exit>>

AppendDegraded ==
  /\ phase = "degrade"
  /\ rec' = Degraded
  /\ stored' = Append(stored, Degraded)
  /\ phase' = "report"
  /\ UNCHANGED <<ctx, results, sandbox, adapter, exit>>

(* executeDrill: metrics and notifications, whose failures change nothing, *)
(* then the exit code.                                                     *)
Report ==
  /\ phase = "report"
  /\ exit' = IF rec.outcome \in {"pass", "fail"} THEN rec.outcome ELSE "error"
  /\ phase' = "ended"
  /\ UNCHANGED <<ctx, rec, results, sandbox, adapter, stored>>

ReportLost ==
  /\ phase = "lost"
  /\ exit' = "lost"
  /\ phase' = "ended"
  /\ UNCHANGED <<ctx, rec, results, sandbox, adapter, stored>>

-----------------------------------------------------------------------------
(* The environment. The first cause that ends a context is the one it keeps*)
InterruptAfterProbe(cause) ==   (* mutant: the limit does not cover probe *)
  /\ phase \in Running \ {"sweep", "probe"} /\ ctx = "live"
  /\ ctx' = cause
  /\ UNCHANGED <<phase, rec, results, sandbox, adapter, stored, exit>>

Interrupt(cause) ==
  /\ phase \in Running /\ ctx = "live"
  /\ ctx' = cause
  /\ UNCHANGED <<phase, rec, results, sandbox, adapter, stored, exit>>

(* kill -9: nothing deferred runs.                                         *)
Die ==
  /\ phase \notin {"ended", "dead"}
  /\ phase' = "dead"
  /\ sandbox' = IF sandbox = "up" THEN "leaked" ELSE sandbox
  /\ UNCHANGED <<ctx, rec, results, adapter, stored, exit>>

Step ==
  \/ Sweep \/ Probe \/ Admit \/ ManifestHolds \/ Create \/ CreateFails \/ Provision
  \/ \E code \in AdapterCodes \cup {"internal", "adapter_crash"} :
       ProbeFails(code) \/ ProvisionFails(code) \/ CheckFails(code)
  \/ \E code \in {"unsupported_source", "invalid_request"} : Refuse(code)
  \/ \E code \in {"invalid_request", "source_not_found", "source_unreadable",
                  "source_corrupt"} : ManifestFaults(code)
  \/ StartCheck \/ (\E ok \in BOOLEAN : FinishCheck(ok)) \/ KilledCheck \/ Conclude
  \/ Teardown \/ Destroy
  \/ AppendOk \/ AppendRejected \/ AppendLost \/ AppendDegraded

Next == \/ Wire \/ WireFails \/ Step \/ Report \/ ReportLost
        \/ (\E cause \in {"deadline", "gameday", "cancelled"} : Interrupt(cause))
        \/ Die

(* An adapter or a command may run for ever, but not past the end of the   *)
(* context it runs under: the session's watchdog and CommandContext kill   *)
(* it. The wall-clock limit does end every context.                        *)
Fairness == /\ WF_vars(Wire \/ WireFails)
            /\ WF_vars(Interrupt("deadline"))
            /\ WF_vars(ctx # "live" /\ Step)
            /\ WF_vars(Report \/ ReportLost)

Spec == Init /\ [][Next]_vars /\ Fairness
-----------------------------------------------------------------------------
(* Exactly one record per drill that ran, and the exit code tells it: pass *)
(* and fail exit as the log says, a lost record or a setup error never     *)
(* looks like a verdict. A killed process leaves at most one record.       *)
ExitTellsLog ==
  /\ Len(stored) <= 1
  /\ phase = "ended" =>
       \/ exit \in {"usage", "lost"} /\ stored = <<>>
       \/ /\ Len(stored) = 1
          /\ exit = IF stored[1].outcome \in {"pass", "fail"} THEN stored[1].outcome ELSE "error"

(* A stored pass means that the backup was restored, and every check ran   *)
(* to its own end and held.                                                *)
PassIsProven ==
  \A n \in 1 .. Len(stored) : stored[n].outcome = "pass" =>
    /\ Len(results) = NumChecks
    /\ \A i \in 1 .. NumChecks : results[i].ok /\ results[i].own
    /\ adapter = "completed"

(* A stored check_failed that the core found itself means that checks.Run  *)
(* reached its end with a false check; at most the last one was cut short  *)
(* by an interruption. One that an adapter answered, which classify passes *)
(* on like any code of the vocabulary, can be told from it: the results    *)
(* beside it are never complete.                                           *)
CheckFailedIsReached ==
  \A n \in 1 .. Len(stored) : stored[n].code = "check_failed" =>
    \/ /\ stored[n].by = "core"
       /\ Len(results) = NumChecks
       /\ \E i \in 1 .. NumChecks : ~ results[i].ok
       /\ \A i \in 1 .. NumChecks - 1 : results[i].own
    \/ stored[n].by = "answer" /\ Len(results) < NumChecks

(* The record is written after the cleanup: the sandbox is not running, and*)
(* an adapter that was asked to provision has been asked to tear down,     *)
(* before the sandbox went.                                                *)
CleanedUpFirst ==
  /\ phase \in {"append", "degrade", "report", "lost", "ended"} => sandbox # "up"
  /\ phase \in {"destroy", "append", "degrade", "report", "lost", "ended"} =>
       adapter \in Reasons \cup {"none", "probed"}

(* The reason teardown is told is the one the drill ends with.             *)
TeardownToldTruth ==
  \A n \in 1 .. Len(stored) : adapter \in Reasons /\ stored[n] # Degraded =>
    /\ adapter = "completed" <=> stored[n].outcome = "pass"
    /\ adapter = "cancelled" <=> stored[n].outcome = "cancelled"
    /\ adapter = "timeout" <=> stored[n].code = "timeout"

(* Once the context has ended, no failure of an adapter or of the sandbox  *)
(* is recorded as a verdict on the backup.                                 *)
InterruptionOutranks ==
  [][(phase \in {"probe", "create", "provision", "exec"} /\ ctx # "live")
       => (rec'.outcome \in {"none", "error", "cancelled"})]_vars

(* Whatever hangs, every drill ends.                                       *)
DrillEnds == <>(phase \in {"ended", "dead"})

(***************************************************************************)
(* The inductive invariant behind the properties above.                    *)
(***************************************************************************)
Before == {"wire", "sweep", "probe", "gate", "manifest", "create", "provision",
           "checks", "exec"}
Cleaned == {"append", "degrade", "report", "lost", "ended"}

(* Until execute has decided, the record says nothing, and nothing is      *)
(* stored until Append has returned; what is stored is the record.         *)
RecordInv ==
  /\ phase \in Before => rec.outcome = "none" /\ rec.code = "none" /\ rec.by = "core"
  /\ phase \in Before \cup {"teardown", "destroy", "append", "degrade", "lost"} =>
       stored = <<>>
  /\ stored = <<>> \/ (Len(stored) = 1 /\ stored[1] = rec)
  /\ phase = "report" => Len(stored) = 1
  /\ phase = "ended" => \/ exit \in {"usage", "lost"} /\ stored = <<>>
                        \/ /\ Len(stored) = 1
                           /\ exit = IF rec.outcome \in {"pass", "fail"} THEN rec.outcome ELSE "error"

(* Only the last check can have been cut short, and after that the context *)
(* is over and no check starts.                                            *)
ResultsInv ==
  /\ phase \in Before \ {"checks", "exec"} => results = <<>>
  /\ phase = "exec" => Len(results) < NumChecks
  /\ \A i \in 1 .. Len(results) : results[i].ok => results[i].own
  /\ \A i \in 1 .. Len(results) :
       ~ results[i].own => i = Len(results) /\ ctx # "live" /\ phase # "exec"

(* Outcome and code agree, the two verdicts that rest on the checks rest   *)
(* on all of them, and an adapter's own check_failed comes before the last.*)
VerdictInv ==
  /\ rec.outcome = "pass" => rec.code = "none"
  /\ rec.outcome = "cancelled" => rec.code = "cancelled"
  /\ rec.outcome = "pass" => /\ Len(results) = NumChecks
                             /\ \A i \in 1 .. NumChecks : results[i].ok
  /\ rec.code = "check_failed" /\ rec.by = "answer" => Len(results) < NumChecks
  /\ rec.code = "check_failed" /\ rec.by = "core" =>
       /\ Len(results) = NumChecks
       /\ \E i \in 1 .. NumChecks : ~ results[i].ok

(* What the adapter has been asked for in each phase, and the reason that  *)
(* teardown gave is the one the record shows.                              *)
AdapterInv ==
  /\ phase \in {"wire", "sweep", "probe"} => adapter = "none"
  /\ phase \in {"gate", "manifest", "create", "provision"} => adapter = "probed"
  /\ phase \in {"checks", "exec"} => adapter = "provisioned"
  /\ phase = "teardown" => adapter \in {"provisioned", "attempted"}
  /\ phase = "destroy" => adapter \in Reasons
  /\ phase \in Cleaned => adapter \in Reasons \cup {"none", "probed"}
  /\ adapter \in Reasons => rec = Degraded \/ adapter = TeardownReason
  /\ rec.outcome = "pass" => phase \in {"teardown", "dead"} \/ adapter = "completed"
  /\ rec.outcome = "pass" /\ stored # <<>> => adapter = "completed"

(* The sandbox exists from Create to Destroy.                              *)
SandboxInv ==
  /\ phase \in {"wire", "sweep", "probe", "gate", "manifest", "create"} => sandbox = "none"
  /\ phase \in Cleaned => sandbox # "up"

(* What Drill.Run may assume in each phase: of the record, the results, the *)
(* adapter's session and the sandbox together.                             *)
DrillInv == TypeOK /\ RecordInv /\ ResultsInv /\ VerdictInv /\ AdapterInv /\ SandboxInv

-----------------------------------------------------------------------------
(* docs/evidence-schema.md, 7: fail is a verdict the drill reached, the    *)
(* interruption of a drill is not one. Where adapters keep to the registry *)
(* of their protocol, a stored check_failed rests on a check that failed   *)
(* by itself.                                                              *)
FailIsOwn ==
  \A n \in 1 .. Len(stored) : stored[n].code = "check_failed" =>
    \E i \in 1 .. Len(results) : ~ results[i].ok /\ results[i].own
=============================================================================
