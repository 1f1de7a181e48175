---------------------------- MODULE AdaptersMysql -----------------------------
(***************************************************************************)
(* The adapters of the MySQL family: dumps that are replayed and physical  *)
(* backups that are prepared and placed.                                   *)
(***************************************************************************)
EXTENDS AdapterSteps

\* What the adapters do alike, each in code of its own.

accept == Speaks
parseProvisionTarget == Host(<<Request("bad_name", "invalid_request")>>)
backupLocation == Host(<<Request("timezone_unknown", "invalid_request")>>)
assertSettled == Settle(Readable)
chooseBackupIn == Host(Readable \o <<Source("no_candidate", "source_not_found")>>)
chosenDumpIn == chooseBackupIn \o assertSettled
sniffCompressed == Host(Unreadable)
resolveFile ==
  Host(Readable \o <<Request("is_directory", "invalid_request")>>) \o Hash(Unreadable) \o sniffCompressed

memberName == Host(<<Request("bad_member_name", "invalid_request")>>)
mustBeDirectory == Host(Readable \o <<Request("is_file", "invalid_request")>>)
dirChecksum == Hash(Unreadable \o <<Source("no_files", "source_not_found")>>)
checkpoints == Host(<<Source("no_checkpoints", "source_corrupt")>>)
resolveRepo == mustBeDirectory \o dirChecksum
resolveWithBinlogs ==
  mustBeDirectory \o memberName \o mustBeDirectory \o checkpoints \o mustBeDirectory
    \o dirChecksum
awaitEngine == Await(<<>>)

\* The pin is read back: a server that still reports its scheduler running is refused.
eventScheduler == {"event_scheduler"}

refusedScheduler == <<Sandbox("scheduler_stays_on", "invalid_request"), Tool("invalid_request")>>
pinEventScheduler == Exec(<<Tool("invalid_request")>>) \o Fence(eventScheduler, refusedScheduler)
prepareEngine == awaitEngine \o pinEventScheduler

\* A dump that opens with mysqldump's banner must close with its completion line; one
\* that announces no ending has none to miss.  The decompressor's own status counts
\* beside the client's.
completenessMarker == Unless("announces_no_ending", <<Source("truncated", "source_corrupt")>>)

mapDecompressFailure == <<Sandbox("no_gzip", "restore_failed"), Source("gzip_damaged", "source_corrupt")>>
mapScriptExit == mapDecompressFailure \o completenessMarker \o <<Sandbox("no_fifo", "restore_failed")>>
mapRestoreFailure == mapScriptExit \o <<Source("not_sql", "source_corrupt"), Tool("restore_failed")>>
ensureDatabase == Exec(<<Tool("restore_failed")>>)
execRestore == Load(mapRestoreFailure)
checkEngineVersion == Exec(Unless("version_unread", <<Sandbox("another_series", "invalid_request")>>))
prepareRestore == Exec(<<Tool("internal")>>)
physicalRestoreScript == Load(<<Source("damaged", "restore_failed"), Tool("restore_failed")>>)

\* The logs must begin where the backup says it ended, and have no gap.
readBinlogStart ==
  Host(<<Source("no_binlog_position", "source_corrupt")>> \o Unreadable
    \o <<Source("bad_binlog_position", "source_corrupt")>>)

scanBinlogs == Host(Readable \o <<Source("two_binlog_bases", "source_corrupt")>>)
assertUnbrokenChain ==
  Host(<<Source("first_log_missing", "source_not_found"),
    Source("log_missing", "source_not_found")>>)
binlogFilesFrom == scanBinlogs \o assertUnbrokenChain
binlogStopDatetime == Host(<<Request("bad_target_time", "invalid_request")>>)
replayBinlogs ==
  readBinlogStart \o binlogFilesFrom \o binlogStopDatetime \o Put(<<>>)
    \o Exec(<<Source("log_damaged", "restore_failed"), Tool("restore_failed")>>)

opHealthcheck == Payload \o Ask

----------------------------------------------------------------------------
(***************************************************************************)
(* adapters/mysql: a logical dump (a file, the newest of a directory, or   *)
(* one with the accounts it needs beside it) replayed into the sandbox's   *)
(* running server, or an xtrabackup directory, prepared and copied back    *)
(* into an idle sandbox, with binary logs replayed on top of it up to a    *)
(* point in time. The event scheduler is off before restored events can    *)
(* run.                                                                    *)
(***************************************************************************)

mysql_probePayload ==
  Offers({"mysqldump", "mysqldump_dir", "mysqldump_with_users", "xtrabackup", "xtrabackup_with_binlogs"},
         {"xtrabackup_with_binlogs"})

mysql_pitrKinds == {"xtrabackup_with_binlogs"}
mysql_physicalKinds == {"xtrabackup", "xtrabackup_with_binlogs"}
mysql_checkPITRKind(kind) == When(kind \notin mysql_pitrKinds, NoPITR)

\* A dump that is named outright leaves nothing to select.
mysql_selectsAMember == {"mysqldump_dir", "mysqldump_with_users"}
mysql_backupSelection(kind, named) == Selection(kind \in mysql_selectsAMember /\ ~named)

statRegularFile == Host(Readable \o <<Request("member_is_directory", "invalid_request")>>)
chooseDump(named) == IF named THEN memberName ELSE chosenDumpIn
resolveWithUsers(named) ==
  Host(Readable \o <<Request("is_file", "invalid_request")>>) \o memberName \o statRegularFile
  \o chooseDump(named) \o statRegularFile \o Hash(Unreadable) \o sniffCompressed

mysql_resolveSource(kind, named) ==
  backupLocation \o mysql_backupSelection(kind, named)
  \o CASE kind = "mysqldump"               -> resolveFile
       [] kind = "mysqldump_dir"           -> chosenDumpIn \o resolveFile
       [] kind = "mysqldump_with_users"    -> resolveWithUsers(named)
       [] kind = "xtrabackup"              -> resolveRepo \o checkpoints
       [] kind = "xtrabackup_with_binlogs" -> resolveWithBinlogs
       [] OTHER                            -> Host(<<Request(Always, "unsupported_source")>>)

\* The accounts script runs past errors, so its messages are read: only a collision
\* with an account of the image itself is passed over.
usersFailure == <<Source("account_refused", "restore_failed")>>
loadUsers == Put(<<>>) \o Exec(mapScriptExit \o usersFailure \o <<Tool("restore_failed")>>)

runRows(fact) == Exec(<<Tool("restore_failed"), Source(fact, "restore_failed")>>)
verifyDefinersExist == runRows("definer_missing")
verifyDatabaseReachable == runRows("nobody_has_access")
verifyViewsResolve == runRows("view_unusable")
verifyPrincipalChain == verifyDefinersExist \o verifyDatabaseReachable \o verifyViewsResolve

mysql_checkIdleSandbox ==
  Exec(<<Sandbox("engine_running", "invalid_request")>>)
    \o Exec(<<Sandbox("no_xtrabackup", "invalid_request")>>)
checkBinlogTool == Exec(<<Sandbox("no_mysqlbinlog", "invalid_request")>>)
mysql_startEngine == Start(eventScheduler, <<Tool("restore_failed")>>) \o awaitEngine \o pinEventScheduler

mysql_provisionPhysical(binlogs) ==
  mysql_checkIdleSandbox \o checkEngineVersion \o When(binlogs, checkBinlogTool) \o Put(<<>>) \o prepareRestore
  \o physicalRestoreScript \o mysql_startEngine \o When(binlogs, replayBinlogs)

mysql_provisionLogical(users) ==
  prepareEngine \o When(users, loadUsers) \o Put(<<>>) \o ensureDatabase \o execRestore
  \o When(users, verifyPrincipalChain)

mysql_opProvision(kind, named) ==
  Payload \o mysql_checkPITRKind(kind) \o parseProvisionTarget \o mysql_resolveSource(kind, named)
  \o IF kind \in mysql_physicalKinds THEN mysql_provisionPhysical(kind = "xtrabackup_with_binlogs")
                               ELSE mysql_provisionLogical(kind = "mysqldump_with_users")

variants == (mysql_probePayload.kinds \X {{}}) \cup {<<"mysqldump_with_users", {"dump_named"}>>}

mysql_plans ==
  [v \in variants |->
     Plan(accept \o mysql_opProvision(v[1], "dump_named" \in v[2]), opHealthcheck,
          HeldBy(eventScheduler), IF v[1] \in mysql_selectsAMember /\ v[2] = {} THEN "first" ELSE "no")]

----------------------------------------------------------------------------
(***************************************************************************)
(* adapters/mariadb: a logical dump (a file, or one chosen in a directory) *)
(* replayed into the sandbox's running server, or a mariadb-backup         *)
(* directory, prepared and copied back into an idle sandbox, with binary   *)
(* logs replayed on top of it up to a point in time. The event scheduler   *)
(* is off before restored events can run.                                  *)
(***************************************************************************)

mariadb_probePayload ==
  Offers({"mariadb_dump", "mariadb_dump_dir", "mariadb_backup", "mariadb_backup_with_binlogs"},
         {"mariadb_backup_with_binlogs"})

mariadb_pitrKinds == {"mariadb_backup_with_binlogs"}
mariadb_physicalKinds == {"mariadb_backup", "mariadb_backup_with_binlogs"}
mariadb_checkPITRKind(kind) == When(kind \notin mariadb_pitrKinds, NoPITR)

mariadb_selectsAMember == {"mariadb_dump_dir"}
mariadb_backupSelection(kind) == Selection(kind \in mariadb_selectsAMember)

mariadb_resolveSource(kind) ==
  backupLocation \o mariadb_backupSelection(kind)
  \o CASE kind = "mariadb_dump"               -> resolveFile
       [] kind = "mariadb_dump_dir"           -> chosenDumpIn \o resolveFile
       [] kind = "mariadb_backup"              -> resolveRepo \o checkpoints
       [] kind = "mariadb_backup_with_binlogs" -> resolveWithBinlogs
       [] OTHER                            -> Host(<<Request(Always, "unsupported_source")>>)

mariadb_checkIdleSandbox ==
  Exec(<<Sandbox("engine_running", "invalid_request")>>)
    \o Exec(<<Sandbox("no_mariadb_backup", "invalid_request")>>)
describeStartFailure == <<Sandbox("server_refused", "restore_failed")>>
mariadb_startEngine ==
  Start(eventScheduler, <<Tool("restore_failed")>>) \o Await(describeStartFailure)
    \o pinEventScheduler

mariadb_provisionPhysical(binlogs) ==
  mariadb_checkIdleSandbox \o checkEngineVersion \o Put(<<>>) \o prepareRestore
  \o physicalRestoreScript \o mariadb_startEngine \o When(binlogs, replayBinlogs)

mariadb_provisionLogical == prepareEngine \o Put(<<>>) \o ensureDatabase \o execRestore

mariadb_opProvision(kind) ==
  Payload \o mariadb_checkPITRKind(kind) \o parseProvisionTarget \o mariadb_resolveSource(kind)
  \o IF kind \in mariadb_physicalKinds THEN mariadb_provisionPhysical(kind = "mariadb_backup_with_binlogs")
                               ELSE mariadb_provisionLogical

mariadb_plans ==
  [v \in mariadb_probePayload.kinds \X {{}} |->
     Plan(accept \o mariadb_opProvision(v[1]), opHealthcheck,
          HeldBy(eventScheduler), IF v[1] \in mariadb_selectsAMember THEN "first" ELSE "no")]
=============================================================================
