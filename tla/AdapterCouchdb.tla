---------------------------- MODULE AdapterCouchdb ----------------------------
(***************************************************************************)
(* adapters/couchdb: the data directory of a server, as a tree or a tar,   *)
(* put in place before the adapter starts the engine; or a couchbackup     *)
(* file, on its own or the newest of a directory, replayed batch by batch  *)
(* into an engine that runs.                                               *)
(***************************************************************************)
EXTENDS AdapterSteps

accept == Speaks

probePayload == Offers({"couchdb_data_tar", "couchdb_data", "couchbackup", "couchbackup_dir"}, {})

selectsAMember == {"couchbackup_dir"}
backupSelection(kind) == Selection(kind \in selectsAMember)

rejectBackupTimezone == NoTimezone

assertSettled == Settle(Readable)
fileChecksum == Hash(Unreadable)
treeIdentity == Hash(Unreadable)

refuseDirectory == Host(Readable \o <<Request("is_directory", "invalid_request")>>)
statAndHead == Host(Readable)
refuseGzip == <<Source("gzip", "unsupported_source")>>
refuseEmpty == <<Source("empty", "source_corrupt")>>

\* couchbackup names itself in its first line and ends every batch with a newline.
batchLines == Unreadable \o <<Source("torn_tail", "source_corrupt"), Source("no_batches", "source_corrupt")>>
resolveBackup ==
  statAndHead \o Host(refuseGzip \o refuseEmpty \o <<Source("no_signature", "unsupported_source")>> \o batchLines)
  \o fileChecksum

\* A data directory without the registry of its databases serves none of them.
resolveDataDir ==
  Host(Readable \o <<Request("is_file", "invalid_request"), Source("no_registry", "source_corrupt")>>)
    \o treeIdentity

resolveDataTar ==
  statAndHead \o Host(refuseGzip \o refuseEmpty \o <<Request("backup_file", "invalid_request")>>) \o fileChecksum

chooseIn == Host(Readable \o <<Source("no_candidate", "source_not_found")>>) \o assertSettled

resolveSource(kind) ==
  backupSelection(kind)
  \o CASE kind = "couchbackup"      -> refuseDirectory \o resolveBackup
       [] kind = "couchbackup_dir"  -> chooseIn \o resolveBackup
       [] kind = "couchdb_data"     -> resolveDataDir
       [] kind = "couchdb_data_tar" -> refuseDirectory \o resolveDataTar
       [] OTHER                     -> Host(<<Request(Always, "unsupported_source")>>)

checkSandbox == Exec(<<Sandbox("no_couchdb", "invalid_request")>>)
prepareWorkDir == Exec(<<Tool("internal")>>)

\* The engine must run before its compaction daemon can be suspended.
compactor == {"smoosh"}
startEngineScript ==
  Start({}, <<Sandbox("never_answers", "restore_failed")>>)
  \o Fence(compactor, <<Sandbox("not_suspended", "restore_failed")>>)
startEngine == startEngineScript

\* The database's own count of its documents is the verdict.
assertRestored ==
  Exec(<<Source("not_served", "restore_failed"), Source("no_documents", "source_corrupt"), Tool("restore_failed")>>)

\* Every batch must be taken, and as many as the drill host counted.
replayScript == Load(<<Source("batch_refused", "restore_failed"), Tool("restore_failed")>>)
restoreBackup == startEngine \o Put(<<>>) \o replayScript \o assertRestored

\* The exit status of tar is not looked at: only the registry must be there, and a tar
\* that was cut short behind it goes through.
placeDataScript == Load(<<Source("no_registry", "source_corrupt")>>)
restoreDataDir == Put(<<>>) \o placeDataScript \o startEngine \o assertRestored

restore(kind) == IF kind \in {"couchdb_data", "couchdb_data_tar"} THEN restoreDataDir ELSE restoreBackup

opProvision(kind) ==
  Payload \o NoPITR \o rejectBackupTimezone \o resolveSource(kind) \o checkSandbox \o prepareWorkDir
    \o restore(kind)

opHealthcheck == Payload \o Ask

\* Placed data is there when the engine starts, and the daemon with it.
automation(kind) ==
  HeldBy(compactor) \cup (IF kind \in {"couchdb_data", "couchdb_data_tar"} THEN {Unheld} ELSE {})

plans ==
  [v \in probePayload.kinds \X {{}} |->
     Plan(accept \o opProvision(v[1]), opHealthcheck,
          automation(v[1]), IF v[1] \in selectsAMember THEN "first" ELSE "no")]
=============================================================================
