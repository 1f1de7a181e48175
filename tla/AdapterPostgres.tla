---------------------------- MODULE AdapterPostgres ----------------------------
(***************************************************************************)
(* adapters/postgres: a dump, custom format or plain SQL, compressed or    *)
(* not, on its own, chosen in a directory or with the cluster's globals    *)
(* beside it, restored into the sandbox's running server; a TimescaleDB    *)
(* dump, framed by the extension's own restore mode; or a pgBackRest,      *)
(* Barman or WAL-G repository, restored into an idle sandbox and recovered *)
(* to a point in time.                                                     *)
(***************************************************************************)
EXTENDS AdapterSteps

accept == Speaks

probePayload ==
  Offers({"pgdump", "pgdump_dir", "pgdump_with_globals", "timescaledb_dump", "timescaledb_dump_dir",
          "timescaledb_dump_with_globals", "pgbackrest", "barman", "walg"},
         {"pgbackrest", "barman", "walg"})

pitrKinds == {"pgbackrest", "barman", "walg"}
timescaleSource == {"timescaledb_dump", "timescaledb_dump_dir", "timescaledb_dump_with_globals"}
withGlobals == {"pgdump_with_globals", "timescaledb_dump_with_globals"}

backupLocation == Host(<<Request("timezone_unknown", "invalid_request")>>)
selectsAMember == {"pgdump_dir", "timescaledb_dump_dir"} \cup withGlobals
backupSelection(kind, named) == Selection(kind \in selectsAMember /\ ~named)

assertSettled == Settle(Readable)
chooseBackupIn == Host(Readable \o <<Source("no_candidate", "source_not_found")>>)
chosenDumpIn == chooseBackupIn \o assertSettled

\* The head tells the format, through the decompressor where there is one.
refuseTar == <<Source("tar_format", "unsupported_source")>>
readDumpHead == Host(Unreadable \o <<Source("bad_gzip_header", "source_corrupt")>> \o refuseTar)
resolveFile ==
  Host(Readable \o <<Request("is_directory", "invalid_request")>>) \o readDumpHead \o Hash(Unreadable)

memberName == Host(<<Request("bad_member_name", "invalid_request")>>)
statRegularFile == Host(Readable \o <<Request("member_is_directory", "invalid_request")>>)
chooseDump(named) == IF named THEN memberName ELSE chosenDumpIn
resolveWithGlobals(named) ==
  Host(Readable \o <<Request("is_file", "invalid_request")>>) \o memberName \o statRegularFile
  \o chooseDump(named) \o statRegularFile \o Hash(Unreadable) \o readDumpHead

dirChecksum == Hash(Unreadable \o <<Source("no_files", "source_not_found")>>)
repository(layout) == Host(Readable \o <<Request("is_file", "invalid_request")>> \o layout) \o dirChecksum
resolveRepo == repository(<<>>)
resolveBarman == repository(<<Request("no_base_directory", "invalid_request")>>)
resolveWalg == repository(<<Request("no_walg_layout", "invalid_request")>>)

resolveSource(kind, named) ==
  backupLocation \o backupSelection(kind, named)
  \o CASE kind \in {"pgdump", "timescaledb_dump"}         -> resolveFile
       [] kind \in {"pgdump_dir", "timescaledb_dump_dir"} -> chosenDumpIn \o resolveFile
       [] kind \in withGlobals                            -> resolveWithGlobals(named)
       [] kind = "pgbackrest"                             -> resolveRepo
       [] kind = "barman"                                 -> resolveBarman
       [] kind = "walg"                                   -> resolveWalg
       [] OTHER                                           -> Host(<<Request(Always, "unsupported_source")>>)

awaitEngine == Await(<<>>)

\* What the restore scripts exit with for reasons of their own.  A plain dump is
\* complete when it ends with the sentence pg_dump signs off with.
mapDecompressFailure == <<Sandbox("no_gzip", "restore_failed"), Source("gzip_damaged", "source_corrupt")>>
dumpCompleteMarker == <<Source("truncated", "source_corrupt")>>
scriptFence == <<Source("timescale_dump", "unsupported_source")>>
archiveFence == scriptFence
missingRole == <<Source("role_missing", "restore_failed")>>
mapScriptRestoreFailure == <<Source("not_sql", "source_corrupt")>> \o missingRole \o <<Tool("restore_failed")>>
mapRestoreFailure ==
  <<Source("not_an_archive", "source_corrupt")>> \o missingRole
    \o <<Source("truncated", "restore_failed"), Tool("restore_failed")>>

\* The fence that keeps a TimescaleDB dump out of the plain kinds.  A compressed
\* archive has no table of contents to read before the restore, and aborts in it.
execRestore(plain, gzip, framed) ==
  Load(IF plain
         THEN When(~framed, scriptFence) \o mapScriptRestoreFailure
              \o When(gzip, mapDecompressFailure \o <<Sandbox("no_fifo", "restore_failed")>>) \o dumpCompleteMarker
         ELSE When(~framed /\ ~gzip, archiveFence) \o mapRestoreFailure \o When(gzip, mapDecompressFailure))

\* The globals script runs past errors, so its messages are read.
globalsFailure == <<Source("globals_refused", "restore_failed")>>
loadGlobals ==
  Put(<<>>)
  \o Exec(globalsFailure \o mapDecompressFailure \o dumpCompleteMarker
    \o <<Sandbox("no_fifo", "restore_failed"), Tool("restore_failed")>>)

\* The extension's restore mode stops its background workers; the jobs are pinned
\* before the mode ends, for a policy whose time has come runs in the same second.
beginTimescaleFrame ==
  Exec(<<Sandbox("no_timescaledb", "invalid_request"), Tool("restore_failed")>>)
  \o Fence({"restore_mode"}, <<Tool("restore_failed")>>)
pinPolicyJobs == Fence({"pinned"}, <<Tool("restore_failed")>>)
endTimescaleFrame == Release({"restore_mode"}, <<Tool("restore_failed")>>)
policyJobs == {{"restore_mode", "pinned"}}
restoreDumpUnpinnedFirst(plain, gzip, framed) == \* mutant: the frame ends before the jobs are pinned
  When(framed, beginTimescaleFrame) \o execRestore(plain, gzip, framed)
  \o When(framed, endTimescaleFrame \o pinPolicyJobs)
restoreDump(plain, gzip, framed) ==
  When(framed, beginTimescaleFrame) \o execRestore(plain, gzip, framed)
  \o When(framed, pinPolicyJobs \o endTimescaleFrame)

resolvePITRTarget == Host(<<Request("bad_target_time", "invalid_request")>>)
checkEngineStopped == Exec(<<Sandbox("engine_running", "invalid_request")>>)
checkIdleSandbox == checkEngineStopped \o Exec(<<Sandbox("no_pgbackrest", "invalid_request")>>)
checkEngineVersion == Exec(Unless("version_unread", <<Sandbox("another_major", "invalid_request")>>))
checkWalgTool == Exec(<<Sandbox("no_walg", "invalid_request")>>)

\* The backup that holds for the target, every ancestor it builds on, and both ends
\* of the log it needs.  A repository whose index cannot be read is not judged.
selectBackup == <<Source("target_before_first_backup", "source_not_found")>>
checkAncestors == <<Source("ancestor_missing", "source_not_found")>>
checkArchiveEndpoints == <<Source("wal_end_missing", "source_not_found")>>
checkRestoreChain == Host(selectBackup \o checkAncestors \o checkArchiveEndpoints)
selectBarmanBackup == Host(<<Source("no_finished_backup", "source_not_found")>> \o selectBackup)
checkBarmanChain == Host(checkAncestors \o checkArchiveEndpoints)
readBarmanBackups == Host(<<Source("no_backup", "source_corrupt")>>)
selectWalgBackup == Host(<<Source("no_backup", "source_corrupt")>> \o selectBackup)

resolvePGData == Exec(<<Tool("internal")>>)
prepareRestore == Exec(<<Tool("internal")>>)

\* A server that ran out of log before its target refuses to start; one that starts
\* is restored only once recovery has ended.
mapStartFailure ==
  <<Source("target_not_reached", "restore_failed"),
    Source("damaged", "restore_failed"), Tool("restore_failed")>>
awaitPromotion == Await(<<Request("login_refused", "invalid_request")>>)
startEngine == Exec(<<Tool("internal")>>) \o Start({}, mapStartFailure) \o awaitEngine \o awaitPromotion

provisionPhysical ==
  Host(<<Request("bad_stanza", "invalid_request")>>) \o resolvePITRTarget \o checkIdleSandbox \o checkEngineVersion
  \o checkRestoreChain \o Put(<<>>) \o resolvePGData \o prepareRestore \o Load(<<Tool("restore_failed")>>)
    \o startEngine
provisionBarman ==
  resolvePITRTarget \o readBarmanBackups \o selectBarmanBackup \o checkBarmanChain \o checkEngineStopped
  \o Put(<<>>) \o resolvePGData \o Load(<<Tool("restore_failed")>>) \o startEngine
provisionWalg ==
  resolvePITRTarget \o selectWalgBackup \o checkEngineStopped \o checkEngineVersion \o checkWalgTool
  \o Put(<<>>) \o resolvePGData \o Load(<<Tool("restore_failed")>>) \o startEngine

opProvision(kind, options) ==
  Payload \o When(kind \notin pitrKinds, NoPITR) \o resolveSource(kind, "dump_named" \in options)
  \o CASE kind = "pgbackrest" -> provisionPhysical
       [] kind = "barman"     -> provisionBarman
       [] kind = "walg"       -> provisionWalg
       [] OTHER -> awaitEngine \o When(kind \in withGlobals, loadGlobals) \o Put(<<>>)
                   \o restoreDump("plain" \in options, "gzip" \in options, kind \in timescaleSource)

opHealthcheck == Payload \o Ask

variants ==
  (probePayload.kinds \X {{}}) \cup (withGlobals \X {{"dump_named"}})
  \cup ({"pgdump", "timescaledb_dump"} \X {{"plain"}, {"gzip"}, {"plain", "gzip"}})

plans ==
  [v \in variants |->
     Plan(accept \o opProvision(v[1], v[2]), opHealthcheck,
          IF v[1] \in timescaleSource THEN policyJobs ELSE {},
          IF v[1] \in selectsAMember /\ "dump_named" \notin v[2] THEN "first" ELSE "no")]
=============================================================================
