----------------------------- MODULE AdapterOracle -----------------------------
(***************************************************************************)
(* adapters/oracle: a Data Pump export, imported into the pluggable        *)
(* database of an instance the adapter starts with its job queue and its   *)
(* queue monitor off.                                                      *)
(***************************************************************************)
EXTENDS AdapterSteps

accept == Speaks

probePayload == Offers({"oracle_datapump"}, {})

\* The header's clock has no zone: a declared zone must be one the host knows.
backupLocation == Host(<<Request("zone_unknown", "invalid_request")>>)
parseProvisionRequest == Payload \o NoPITR \o backupLocation

fileChecksum == Hash(Unreadable)
resolveSource(kind) ==
  CASE kind = "oracle_datapump" ->
         Host(Readable \o <<Request("is_directory", "invalid_request"), Source("empty", "source_corrupt")>>)
           \o fileChecksum
    [] OTHER -> Host(<<Request(Always, "unsupported_source")>>)

checkEngine == Exec(<<Sandbox("no_toolchain", "invalid_request")>>)

\* The pins are in the parameter file of the start itself, and read back afterwards.
pins == {"job_queue_processes", "aq_tm_processes"}
classifyStartFailure ==
  <<Sandbox("already_running", "invalid_request"), Sandbox("no_private_ip", "invalid_request"),
    Sandbox("no_memory", "invalid_request"), Tool("restore_failed")>>
startScript == Start(pins, classifyStartFailure)
verifyPins == Host(<<Sandbox("pin_not_taken", "invalid_request")>>)
startEngine == startScript \o Exec(<<Tool("restore_failed")>>) \o verifyPins

choosePDB == Host(<<Sandbox("no_pdb", "restore_failed"), Sandbox("several_pdbs", "invalid_request")>>)

readHeader == Exec(<<Source("not_a_dump", "source_corrupt"), Tool("restore_failed")>>)

\* A header in another shape than the reader's passes; the import is left to refuse it.
vetHeader ==
  Host(Unless("header_unread",
    <<Source("original_export", "unsupported_source"), Source("type_unknown", "source_corrupt"),
      Source("encrypted", "unsupported_source"), Source("newer_than_engine", "invalid_request")>>))

\* A dead job leaves its client waiting for ever: a watchdog ends the script.
classifyImportFailure ==
  <<Source("job_dies", "source_corrupt"), Source("completed_with_errors", "restore_failed"),
    Source("version_refused", "invalid_request"),
      Source("dump_rejected", "source_corrupt"), Tool("restore_failed")>>
runImport == Load(classifyImportFailure)

opProvision(kind) ==
  parseProvisionRequest \o resolveSource(kind) \o checkEngine \o startEngine \o choosePDB \o Put(<<>>)
  \o readHeader \o vetHeader \o runImport

opHealthcheck == Payload \o Ask

plans ==
  [v \in probePayload.kinds \X {{}} |->
     Plan(accept \o opProvision(v[1]), opHealthcheck, HeldBy(pins), "no")]
=============================================================================
