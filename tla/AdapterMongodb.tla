---------------------------- MODULE AdapterMongodb ----------------------------
(***************************************************************************)
(* adapters/mongodb: a mongodump archive, on its own, the newest of a      *)
(* directory, with its account layer or with its oplog, restored with      *)
(* mongorestore into the engine of the sandbox.                            *)
(***************************************************************************)
EXTENDS AdapterSteps

accept == Speaks

probePayload == Offers({"mongodump", "mongodump_dir", "mongodump_with_users", "mongodump_with_oplog"}, {})

selectsAMember == {"mongodump_dir"}
backupSelection(kind) == Selection(kind \in selectsAMember)

rejectBackupTimezone == NoTimezone

\* Users belong to one database, which the request must then name.
planRestore(kind) == When(kind = "mongodump_with_users", Host(<<Request("database_not_named", "invalid_request")>>))
parseProvisionTarget(kind) ==
  NoPITR \o Host(<<Request("bad_database_name", "invalid_request")>>) \o rejectBackupTimezone \o planRestore(kind)

assertSettled == Settle(Readable)
fileChecksum == Hash(Unreadable)
resolveFile == Host(Readable \o <<Request("is_directory", "invalid_request")>>) \o fileChecksum

\* Every regular file of the directory is a candidate.
chosenDumpIn == Host(Readable \o <<Source("no_candidate", "source_not_found")>>) \o assertSettled

resolveSource(kind) ==
  backupSelection(kind)
  \o CASE kind = "mongodump_dir" -> chosenDumpIn \o resolveFile
       [] kind \in {"mongodump", "mongodump_with_users", "mongodump_with_oplog"} -> resolveFile
       [] OTHER -> Host(<<Request(Always, "unsupported_source")>>)

awaitEngine == Await(<<>>)

\* The TTL monitor deletes documents past their time within a minute of their restore;
\* an engine that does not take the order is no engine to restore into.
ttlMonitor == {"ttl_monitor"}
pinTTLMonitor == Fence(ttlMonitor, <<Sandbox("pin_refused", "invalid_request")>>)

\* mongorestore stops at the first error; what it says tells the archive's fault from others.
mapRestoreFailure == <<Source("archive_rejected", "source_corrupt"), Tool("restore_failed")>>
execRestore == Put(<<>>) \o Load(mapRestoreFailure)

\* An archive without what the kind promises restores with exit status 0: what
\* mongorestore said, and what the engine then holds, is the evidence.
verifyOplogReplayed == Host(<<Source("oplog_not_replayed", "restore_failed")>>)
verifyAccountLayer ==
  Exec(<<Tool("restore_failed"), Source("no_accounts", "restore_failed")>>)
  \o Exec(<<Tool("restore_failed"), Source("orphaned_roles", "restore_failed")>>)

opProvision(kind) ==
  Payload \o parseProvisionTarget(kind) \o resolveSource(kind) \o awaitEngine \o pinTTLMonitor \o execRestore
  \o When(kind = "mongodump_with_oplog", verifyOplogReplayed)
  \o When(kind = "mongodump_with_users", verifyAccountLayer)

opHealthcheck == Payload \o Ask

plans ==
  [v \in probePayload.kinds \X {{}} |->
     Plan(accept \o opProvision(v[1]), opHealthcheck,
          HeldBy(ttlMonitor), IF v[1] \in selectsAMember THEN "first" ELSE "no")]
=============================================================================
