---------------------------- MODULE DrillProofs ----------------------------
(***************************************************************************)
(* Theorems about Drill, for any number of checks and any set of adapter   *)
(* codes. DrillInv is inductive; the properties follow from it.            *)
(***************************************************************************)
EXTENDS Drill, TLAPS

(* What classify can make of a code, whatever the context: a negative      *)
(* verdict or an error, cancelled exactly when the code is, and a failed   *)
(* check only if the answer said so.                                       *)
LEMMA ClassifiedVerdict ==
  ASSUME rec \in Verdict, NEW code
  PROVE  /\ Classified(code) \in Verdict
         /\ Classified(code).outcome \in {"fail", "error", "cancelled"}
         /\ Classified(code).outcome = "cancelled" => Classified(code).code = "cancelled"
         /\ Classified(code).code = "check_failed" => Classified(code).by = "answer"
         /\ Classified(code).code # "none"
         /\ ctx \in {"deadline", "gameday", "cancelled"} => Classified(code).outcome # "fail"
  BY DEF Classified, OutcomeOf, Verdict, Outcomes, ErrorCodes, FailCodes

(* A manifest fault is a negative verdict or an error, with its own code.  *)
LEMMA FaultedVerdict ==
  ASSUME rec \in Verdict,
         NEW code \in {"invalid_request", "source_not_found", "source_unreadable",
                       "source_corrupt"}
  PROVE  /\ Faulted(code) \in Verdict
         /\ Faulted(code).outcome \in {"fail", "error"}
         /\ Faulted(code).code = code
  BY DEF Faulted, Verdict, Outcomes, ErrorCodes, FailCodes

(* A failed Create is never a verdict on the backup.                       *)
LEMMA CreateFaultVerdict ==
  ASSUME rec \in Verdict
  PROVE  /\ CreateFault \in Verdict
         /\ CreateFault.outcome \in {"error", "cancelled"}
         /\ CreateFault.outcome = "cancelled" => CreateFault.code = "cancelled"
         /\ CreateFault.code \notin {"none", "check_failed"}
  BY DEF CreateFault, Classified, OutcomeOf, Verdict, Outcomes, ErrorCodes, FailCodes

(* teardownReason answers one of the protocol's reasons.                   *)
LEMMA TeardownReasonKnown ==
  /\ TeardownReason \in Reasons
  /\ rec.outcome = "pass" => TeardownReason = "completed"
  BY DEF TeardownReason, Reasons

(* The degraded record is a record, and neither a pass nor a failed check. *)
LEMMA DegradedVerdict ==
  /\ Degraded \in Verdict
  /\ Degraded.outcome = "error" /\ Degraded.code = "internal"
  BY DEF Degraded, Verdict, Outcomes, ErrorCodes, FailCodes

(* teardownReason looks at the record only.                                *)
LEMMA TeardownReasonOfRecord ==
  ASSUME UNCHANGED rec
  PROVE  TeardownReason' = TeardownReason
  BY DEF TeardownReason

-----------------------------------------------------------------------------
(* The inductive invariant.                                                *)

(* Init establishes it: nothing has happened yet.                          *)
LEMMA InitInv == Init => DrillInv
<1> SUFFICES ASSUME Init PROVE DrillInv
  OBVIOUS
<1>1. TypeOK /\ RecordInv /\ ResultsInv
  BY NumChecksAssumption DEF Init, TypeOK, Phases, Verdict, Outcomes, RecordInv, Before, ResultsInv
<1>2. VerdictInv /\ AdapterInv /\ SandboxInv
  BY DEF Init, VerdictInv, AdapterInv, Reasons, Cleaned, SandboxInv
<1>3. QED
  BY <1>1, <1>2 DEF DrillInv

(* The wiring done, the drill starts with an empty record.                 *)
LEMMA WireInv ==
  ASSUME DrillInv, Wire
  PROVE  DrillInv'
  BY DEF DrillInv, TypeOK, RecordInv, ResultsInv, VerdictInv, AdapterInv,
     SandboxInv, Phases, Before, Cleaned, Reasons, Wire

(* A setup error ends the run with exit code usage and no record.          *)
LEMMA WireFailsInv ==
  ASSUME DrillInv, WireFails
  PROVE  DrillInv'
  BY DEF DrillInv, TypeOK, RecordInv, ResultsInv, VerdictInv, AdapterInv,
     SandboxInv, Phases, Before, Cleaned, Reasons, WireFails

(* The orphan sweep touches nothing of this drill.                         *)
LEMMA SweepInv ==
  ASSUME DrillInv, Sweep
  PROVE  DrillInv'
  BY DEF DrillInv, TypeOK, RecordInv, ResultsInv, VerdictInv, AdapterInv,
     SandboxInv, Phases, Before, Cleaned, Reasons, Sweep

(* The probe's answer changes the adapter only.                            *)
LEMMA ProbeInv ==
  ASSUME DrillInv, Probe
  PROVE  DrillInv'
  BY DEF DrillInv, TypeOK, RecordInv, ResultsInv, VerdictInv, AdapterInv,
     SandboxInv, Phases, Before, Cleaned, Reasons, Probe

(* A failed probe classifies the record and stores it.                     *)
LEMMA ProbeFailsInv ==
  ASSUME DrillInv, NEW code \in AdapterCodes \cup {"internal",
         "adapter_crash"}, ProbeFails(code)
  PROVE  DrillInv'
<1>1. Len(results) < NumChecks
  BY NumChecksAssumption DEF DrillInv, ResultsInv, Before, ProbeFails
<1>2. QED
  BY <1>1, ClassifiedVerdict DEF DrillInv, TypeOK, RecordInv, ResultsInv,
     VerdictInv, AdapterInv, SandboxInv, Phases, Before, Cleaned, Reasons,
     ProbeFails

(* The probe's answer allows the drill.                                    *)
LEMMA AdmitInv ==
  ASSUME DrillInv, Admit
  PROVE  DrillInv'
  BY DEF DrillInv, TypeOK, RecordInv, ResultsInv, VerdictInv, AdapterInv,
     SandboxInv, Phases, Before, Cleaned, Reasons, Admit

(* A refusal is an error with its code.                                    *)
LEMMA RefuseInv ==
  ASSUME DrillInv, NEW code \in {"unsupported_source", "invalid_request"},
         Refuse(code)
  PROVE  DrillInv'
  BY DEF DrillInv, TypeOK, RecordInv, ResultsInv, VerdictInv, AdapterInv,
     SandboxInv, Phases, Before, Cleaned, Reasons, Refuse, Verdict,
     Outcomes, ErrorCodes, FailCodes

(* The manifest holds, or there is none.                                   *)
LEMMA ManifestHoldsInv ==
  ASSUME DrillInv, ManifestHolds
  PROVE  DrillInv'
  BY DEF DrillInv, TypeOK, RecordInv, ResultsInv, VerdictInv, AdapterInv,
     SandboxInv, Phases, Before, Cleaned, Reasons, ManifestHolds

(* A manifest fault ends the drill before a sandbox exists.                *)
LEMMA ManifestFaultsInv ==
  ASSUME DrillInv, NEW code \in {"invalid_request", "source_not_found",
         "source_unreadable", "source_corrupt"}, ManifestFaults(code)
  PROVE  DrillInv'
  BY FaultedVerdict DEF DrillInv, TypeOK, RecordInv, ResultsInv, VerdictInv,
     AdapterInv, SandboxInv, Phases, Before, Cleaned, Reasons,
     ManifestFaults

(* From here on the sandbox is up.                                         *)
LEMMA CreateInv ==
  ASSUME DrillInv, Create
  PROVE  DrillInv'
  BY DEF DrillInv, TypeOK, RecordInv, ResultsInv, VerdictInv, AdapterInv,
     SandboxInv, Phases, Before, Cleaned, Reasons, Create

(* A failed Create ends the drill without a sandbox it knows of.           *)
LEMMA CreateFailsInv ==
  ASSUME DrillInv, CreateFails
  PROVE  DrillInv'
  BY CreateFaultVerdict DEF DrillInv, TypeOK, RecordInv, ResultsInv,
     VerdictInv, AdapterInv, SandboxInv, Phases, Before, Cleaned, Reasons,
     CreateFails

(* The restore succeeded, the checks may start.                            *)
LEMMA ProvisionInv ==
  ASSUME DrillInv, Provision
  PROVE  DrillInv'
  BY DEF DrillInv, TypeOK, RecordInv, ResultsInv, VerdictInv, AdapterInv,
     SandboxInv, Phases, Before, Cleaned, Reasons, Provision

(* A failed restore is torn down like any other.                           *)
LEMMA ProvisionFailsInv ==
  ASSUME DrillInv, NEW code \in AdapterCodes \cup {"internal",
         "adapter_crash"}, ProvisionFails(code)
  PROVE  DrillInv'
<1>1. Len(results) < NumChecks
  BY NumChecksAssumption DEF DrillInv, ResultsInv, Before, ProvisionFails
<1>2. QED
  BY <1>1, ClassifiedVerdict DEF DrillInv, TypeOK, RecordInv, ResultsInv,
     VerdictInv, AdapterInv, SandboxInv, Phases, Before, Cleaned, Reasons,
     ProvisionFails

(* A check starts under a live context, so none was cut short so far.      *)
LEMMA StartCheckInv ==
  ASSUME DrillInv, StartCheck
  PROVE  DrillInv'
  BY DEF DrillInv, TypeOK, RecordInv, ResultsInv, VerdictInv, AdapterInv,
     SandboxInv, Phases, Before, Cleaned, Reasons, StartCheck

(* A check that ended by itself is one more result.                        *)
LEMMA FinishCheckInv ==
  ASSUME DrillInv, NEW ok \in BOOLEAN, FinishCheck(ok)
  PROVE  DrillInv'
<1>1. /\ results \in Seq([ok : BOOLEAN, own : BOOLEAN])
      /\ Len(results) < NumChecks /\ NumChecks \in Nat
      /\ phase = "exec"
  BY NumChecksAssumption DEF DrillInv, TypeOK, ResultsInv, FinishCheck
<1>2. TypeOK'
  BY <1>1 DEF DrillInv, TypeOK, FinishCheck, Phases, Reasons
<1>3. RecordInv'
  BY <1>1 DEF DrillInv, RecordInv, FinishCheck, Before
<1>4. ResultsInv'
  BY <1>1 DEF DrillInv, ResultsInv, FinishCheck, Before
<1>5. VerdictInv'
  BY <1>1 DEF DrillInv, VerdictInv, FinishCheck, RecordInv, Before
<1>6. AdapterInv'
  BY <1>1 DEF DrillInv, AdapterInv, FinishCheck, Reasons, Cleaned,
     RecordInv, Before
<1>7. SandboxInv'
  BY <1>1 DEF DrillInv, SandboxInv, FinishCheck, Cleaned
<1>8. QED
  BY <1>2, <1>3, <1>4, <1>5, <1>6, <1>7 DEF DrillInv

(* A killed check is a false result, and the last one.                     *)
LEMMA KilledCheckInv ==
  ASSUME DrillInv, KilledCheck
  PROVE  DrillInv'
<1>1. /\ results \in Seq([ok : BOOLEAN, own : BOOLEAN])
      /\ Len(results) < NumChecks /\ NumChecks \in Nat
      /\ phase = "exec"
  BY NumChecksAssumption DEF DrillInv, TypeOK, ResultsInv, KilledCheck
<1>2. TypeOK'
  BY <1>1 DEF DrillInv, TypeOK, KilledCheck, Phases, Reasons
<1>3. RecordInv'
  BY <1>1 DEF DrillInv, RecordInv, KilledCheck, Before
<1>4. ResultsInv'
  BY <1>1 DEF DrillInv, ResultsInv, KilledCheck, Before
<1>5. VerdictInv'
  BY <1>1 DEF DrillInv, VerdictInv, KilledCheck, RecordInv, Before
<1>6. AdapterInv'
  BY <1>1 DEF DrillInv, AdapterInv, KilledCheck, Reasons, Cleaned,
     RecordInv, Before
<1>7. SandboxInv'
  BY <1>1 DEF DrillInv, SandboxInv, KilledCheck, Cleaned
<1>8. QED
  BY <1>2, <1>3, <1>4, <1>5, <1>6, <1>7 DEF DrillInv

(* An abandoned run of the checks is classified, never counted.            *)
LEMMA CheckFailsInv ==
  ASSUME DrillInv, NEW code \in AdapterCodes \cup {"internal",
         "adapter_crash"}, CheckFails(code)
  PROVE  DrillInv'
  BY ClassifiedVerdict DEF DrillInv, TypeOK, RecordInv, ResultsInv,
     VerdictInv, AdapterInv, SandboxInv, Phases, Before, Cleaned, Reasons,
     CheckFails

(* The verdict on a full list of results.                                  *)
LEMMA ConcludeInv ==
  ASSUME DrillInv, Conclude
  PROVE  DrillInv'
  BY DEF DrillInv, TypeOK, RecordInv, ResultsInv, VerdictInv, AdapterInv,
     SandboxInv, Phases, Before, Cleaned, Reasons, Conclude, Verdict,
     Outcomes, ErrorCodes, FailCodes

(* Teardown is told the reason the record shows.                           *)
LEMMA TeardownInv ==
  ASSUME DrillInv, Teardown
  PROVE  DrillInv'
  BY TeardownReasonKnown, TeardownReasonOfRecord DEF DrillInv, TypeOK,
     RecordInv, ResultsInv, VerdictInv, AdapterInv, SandboxInv, Phases,
     Before, Cleaned, Reasons, Teardown

(* After Destroy the sandbox is not up, even if that failed.               *)
LEMMA DestroyInv ==
  ASSUME DrillInv, Destroy
  PROVE  DrillInv'
  BY TeardownReasonOfRecord DEF DrillInv, TypeOK, RecordInv, ResultsInv,
     VerdictInv, AdapterInv, SandboxInv, Phases, Before, Cleaned, Reasons,
     Destroy

(* The record is stored as it is.                                          *)
LEMMA AppendOkInv ==
  ASSUME DrillInv, AppendOk
  PROVE  DrillInv'
  BY TeardownReasonOfRecord DEF DrillInv, TypeOK, RecordInv, ResultsInv,
     VerdictInv, AdapterInv, SandboxInv, Phases, Before, Cleaned, Reasons,
     AppendOk

(* A record refused for its shape is not stored.                           *)
LEMMA AppendRejectedInv ==
  ASSUME DrillInv, AppendRejected
  PROVE  DrillInv'
  BY TeardownReasonOfRecord DEF DrillInv, TypeOK, RecordInv, ResultsInv,
     VerdictInv, AdapterInv, SandboxInv, Phases, Before, Cleaned, Reasons,
     AppendRejected

(* A failed write stores nothing that counts.                              *)
LEMMA AppendLostInv ==
  ASSUME DrillInv, AppendLost
  PROVE  DrillInv'
  BY TeardownReasonOfRecord DEF DrillInv, TypeOK, RecordInv, ResultsInv,
     VerdictInv, AdapterInv, SandboxInv, Phases, Before, Cleaned, Reasons,
     AppendLost

(* The degraded record is stored in its place.                             *)
LEMMA AppendDegradedInv ==
  ASSUME DrillInv, AppendDegraded
  PROVE  DrillInv'
  BY DegradedVerdict DEF DrillInv, TypeOK, RecordInv, ResultsInv,
     VerdictInv, AdapterInv, SandboxInv, Phases, Before, Cleaned, Reasons,
     AppendDegraded

(* The exit code is read off the stored record.                            *)
LEMMA ReportInv ==
  ASSUME DrillInv, Report
  PROVE  DrillInv'
  BY TeardownReasonOfRecord DEF DrillInv, TypeOK, RecordInv, ResultsInv,
     VerdictInv, AdapterInv, SandboxInv, Phases, Before, Cleaned, Reasons,
     Report

(* A lost record has its own exit code.                                    *)
LEMMA ReportLostInv ==
  ASSUME DrillInv, ReportLost
  PROVE  DrillInv'
  BY TeardownReasonOfRecord DEF DrillInv, TypeOK, RecordInv, ResultsInv,
     VerdictInv, AdapterInv, SandboxInv, Phases, Before, Cleaned, Reasons,
     ReportLost

(* The end of the context changes nothing but the context.                 *)
LEMMA InterruptInv ==
  ASSUME DrillInv, NEW cause \in {"deadline", "gameday", "cancelled"},
         Interrupt(cause)
  PROVE  DrillInv'
  BY TeardownReasonOfRecord DEF DrillInv, TypeOK, RecordInv, ResultsInv,
     VerdictInv, AdapterInv, SandboxInv, Phases, Before, Cleaned, Reasons,
     Interrupt, Running

(* kill -9 leaves everything as it was, the sandbox included.              *)
LEMMA DieInv ==
  ASSUME DrillInv, Die
  PROVE  DrillInv'
  BY TeardownReasonOfRecord DEF DrillInv, TypeOK, RecordInv, ResultsInv,
     VerdictInv, AdapterInv, SandboxInv, Phases, Before, Cleaned, Reasons,
     Die

(* Every step of the drill and of its environment keeps it.                *)
LEMMA NextInv == DrillInv /\ [Next]_vars => DrillInv'
<1> SUFFICES ASSUME DrillInv, [Next]_vars PROVE DrillInv'
  OBVIOUS
<1>1. CASE Step
  <2>1. ASSUME NEW code \in AdapterCodes \cup {"internal", "adapter_crash"},
               ProbeFails(code) \/ ProvisionFails(code) \/ CheckFails(code)
        PROVE  DrillInv'
    BY <2>1, ProbeFailsInv, ProvisionFailsInv, CheckFailsInv
  <2>2. ASSUME NEW code \in {"unsupported_source", "invalid_request"}, Refuse(code)
        PROVE  DrillInv'
    BY <2>2, RefuseInv
  <2>3. ASSUME NEW code \in {"invalid_request", "source_not_found", "source_unreadable",
                             "source_corrupt"},
               ManifestFaults(code)
        PROVE  DrillInv'
    BY <2>3, ManifestFaultsInv
  <2>4. ASSUME NEW ok \in BOOLEAN, FinishCheck(ok)
        PROVE  DrillInv'
    BY <2>4, FinishCheckInv
  <2>5. CASE Sweep \/ Probe \/ Admit \/ ManifestHolds \/ Create \/ CreateFails \/ Provision
    BY <2>5, SweepInv, ProbeInv, AdmitInv, ManifestHoldsInv, CreateInv,
       CreateFailsInv, ProvisionInv
  <2>6. CASE StartCheck \/ KilledCheck \/ Conclude
    BY <2>6, StartCheckInv, KilledCheckInv, ConcludeInv
  <2>7. CASE Teardown \/ Destroy
    BY <2>7, TeardownInv, DestroyInv
  <2>8. CASE AppendOk \/ AppendRejected \/ AppendLost \/ AppendDegraded
    BY <2>8, AppendOkInv, AppendRejectedInv, AppendLostInv,
       AppendDegradedInv
  <2>9. QED
    BY <1>1, <2>1, <2>2, <2>3, <2>4, <2>5, <2>6, <2>7, <2>8 DEF Step
<1>2. CASE Wire \/ WireFails \/ Report \/ ReportLost \/ Die
  BY <1>2, WireInv, WireFailsInv, ReportInv, ReportLostInv, DieInv
<1>3. ASSUME NEW cause \in {"deadline", "gameday", "cancelled"}, Interrupt(cause)
      PROVE  DrillInv'
  BY <1>3, InterruptInv
<1>4. CASE UNCHANGED vars
  BY <1>4, TeardownReasonOfRecord
     DEF vars, DrillInv, TypeOK, RecordInv, ResultsInv, VerdictInv, AdapterInv, SandboxInv
<1>5. QED
  BY <1>1, <1>2, <1>3, <1>4 DEF Next

(* DrillInv holds of every reachable state of the drill: what core.go has  *)
(* composed, called and stored agree in every phase.                       *)
THEOREM Invariance == Spec => []DrillInv
  BY InitInv, NextInv, PTL DEF Spec

-----------------------------------------------------------------------------
(* The variables of the drill keep their types.                            *)
THEOREM TypeCorrect == Spec => []TypeOK
<1>1. DrillInv => TypeOK
  BY DEF DrillInv
<1>2. QED
  BY <1>1, Invariance, PTL

(* Drill.Run stores one record at most, executeDrill's exit code is the    *)
(* outcome of the record that was stored, and no other exit looks like it. *)
THEOREM ExitIsTold == Spec => []ExitTellsLog
<1>1. DrillInv => ExitTellsLog
  <2> SUFFICES ASSUME DrillInv PROVE ExitTellsLog
    OBVIOUS
  <2>1. /\ stored = <<>> \/ (Len(stored) = 1 /\ stored[1] = rec)
        /\ phase = "ended" =>
             \/ exit \in {"usage", "lost"} /\ stored = <<>>
             \/ /\ Len(stored) = 1
                /\ exit = IF rec.outcome \in {"pass", "fail"} THEN rec.outcome ELSE "error"
    BY DEF DrillInv, RecordInv
  <2>2. QED
    BY <2>1 DEF ExitTellsLog
<1>2. QED
  BY <1>1, Invariance, PTL

(* A stored pass was earned by every check, whatever was interrupted or    *)
(* failed, and its adapter was torn down as completed.                     *)
THEOREM PassesAreProven == Spec => []PassIsProven
<1>1. DrillInv => PassIsProven
  BY NumChecksAssumption
     DEF DrillInv, TypeOK, RecordInv, ResultsInv, VerdictInv, AdapterInv, PassIsProven
<1>2. QED
  BY <1>1, Invariance, PTL

(* A stored check_failed comes from a complete run of the checks with a    *)
(* false one among them, or it is an adapter's own word and the results    *)
(* beside it are not complete: whatever codes the adapters answer.         *)
THEOREM CheckFailuresAreReached == Spec => []CheckFailedIsReached
<1>1. DrillInv => CheckFailedIsReached
  <2> SUFFICES ASSUME DrillInv, stored # <<>>, rec.code = "check_failed"
               PROVE  \/ /\ rec.by = "core"
                         /\ Len(results) = NumChecks
                         /\ \E i \in 1 .. NumChecks : ~ results[i].ok
                         /\ \A i \in 1 .. NumChecks - 1 : results[i].own
                      \/ rec.by = "answer" /\ Len(results) < NumChecks
    BY DEF DrillInv, RecordInv, CheckFailedIsReached
  <2>1. rec.by \in {"core", "answer"}
    BY DEF DrillInv, TypeOK, Verdict
  <2>2. CASE rec.by = "answer"
    BY <2>2 DEF DrillInv, VerdictInv
  <2>3. CASE rec.by = "core"
    <3>1. /\ Len(results) = NumChecks
          /\ \E i \in 1 .. NumChecks : ~ results[i].ok
      BY <2>3 DEF DrillInv, VerdictInv
    <3>2. \A i \in 1 .. NumChecks - 1 : results[i].own
      BY <3>1, NumChecksAssumption DEF DrillInv, ResultsInv
    <3>3. QED
      BY <2>3, <3>1, <3>2
  <2>4. QED
    BY <2>1, <2>2, <2>3
<1>2. QED
  BY <1>1, Invariance, PTL

(* When the record is written, no sandbox is up and no adapter that was    *)
(* asked to provision has been left without a teardown.                    *)
THEOREM CleanupComesFirst == Spec => []CleanedUpFirst
<1>1. DrillInv => CleanedUpFirst
  BY DEF DrillInv, AdapterInv, SandboxInv, Cleaned, CleanedUpFirst
<1>2. QED
  BY <1>1, Invariance, PTL

(* The reason that teardown was given agrees with the stored record.       *)
THEOREM TeardownIsToldTruth == Spec => []TeardownToldTruth
<1>1. DrillInv => TeardownToldTruth
  BY DEF DrillInv, RecordInv, VerdictInv, AdapterInv, TeardownReason, TeardownToldTruth
<1>2. QED
  BY <1>1, Invariance, PTL

(* classify never lets an interrupted call become a verdict on the backup. *)
THEOREM InterruptionWins == Spec => InterruptionOutranks
<1> DEFINE Outranks == (phase \in {"probe", "create", "provision", "exec"} /\ ctx # "live")
                          => (rec'.outcome \in {"none", "error", "cancelled"})
<1>1. DrillInv /\ [Next]_vars => [Outranks]_vars
  <2> SUFFICES ASSUME DrillInv, Next, phase \in {"probe", "create", "provision", "exec"},
                      ctx # "live"
               PROVE  rec'.outcome \in {"none", "error", "cancelled"}
    OBVIOUS
  <2>1. /\ rec \in Verdict /\ rec.outcome = "none"
        /\ ctx \in {"deadline", "gameday", "cancelled"}
    BY DEF DrillInv, TypeOK, RecordInv, Before
  <2>2. \A code : Classified(code).outcome \in {"error", "cancelled"}
    BY <2>1, ClassifiedVerdict
  <2>3. CreateFault.outcome \in {"error", "cancelled"}
    BY <2>1, CreateFaultVerdict
  <2>4. \/ UNCHANGED rec
        \/ rec' = CreateFault
        \/ \E code : rec' = Classified(code)
    BY DEF Next, Step, Wire, WireFails, Sweep, Probe, ProbeFails, Admit, Refuse,
       ManifestHolds, ManifestFaults, Create, CreateFails, Provision, ProvisionFails,
       StartCheck, FinishCheck, KilledCheck, CheckFails, Conclude, Teardown, Destroy,
       AppendOk, AppendRejected, AppendLost, AppendDegraded, Report, ReportLost,
       Interrupt, Die
  <2>5. QED
    BY <2>1, <2>2, <2>3, <2>4
<1>2. QED
  BY <1>1, Invariance, PTL DEF Spec, InterruptionOutranks
=============================================================================
