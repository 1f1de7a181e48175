-------------------------- MODULE AdaptersTimeSeries --------------------------
(***************************************************************************)
(* The adapters of the time series databases.                              *)
(***************************************************************************)
EXTENDS AdapterSteps

\* What the adapters do alike, each in code of its own.

accept == Speaks

\* The tree is measured as a whole: sizes summed, the newest time anywhere in it.
assertSettled == Settle(Readable)

opHealthcheck == Payload \o Ask

----------------------------------------------------------------------------
(***************************************************************************)
(* adapters/questdb: a data root that becomes the server's own. The        *)
(* sandbox must be idle; the adapter starts the engine on the placed root. *)
(***************************************************************************)

questdb_probePayload == Offers({"questdb_checkpoint", "questdb_checkpoint_dir", "questdb_data"}, {})

questdb_selectsAMember == {"questdb_checkpoint_dir"}
questdb_backupSelection(kind) == Selection(kind \in questdb_selectsAMember)

chooseRootIn == Host(Readable \o <<Source("no_candidate", "source_not_found")>>)

\* The marker QuestDB keeps while a checkpoint is held is what tells a checkpoint
\* from a plain copy.  The checksum is over the whole tree.
resolveRoot(requireCheckpoint) ==
  Host(Readable \o <<Request("is_file", "invalid_request"), Source("no_db_directory", "source_corrupt")>>
       \o When(requireCheckpoint, <<Request("no_checkpoint", "invalid_request")>>))
  \o Hash(Unreadable)

questdb_resolveSource(kind) ==
  questdb_backupSelection(kind)
  \o CASE kind = "questdb_checkpoint"     -> resolveRoot(TRUE)
       [] kind = "questdb_checkpoint_dir" -> chooseRootIn \o resolveRoot(TRUE)
       [] kind = "questdb_data"           -> resolveRoot(FALSE)
       [] OTHER                           -> Host(<<Request(Always, "unsupported_source")>>)

\* Only a server that answers refuses the sandbox; a probe that cannot run does not.
assertIdle == Exec(<<Sandbox("engine_running", "invalid_request")>>)

placeDataRoot == Load(<<Source("no_files", "source_corrupt"), Tool("source_corrupt")>>)

questdb_startEngine == Start({}, <<Tool("engine_not_ready")>>) \o Await(<<>>)

\* Any table served is enough; none is refused, unless the backup has none.
questdb_assertRestored(tables) ==
  When(tables, Exec(<<Source("no_table_served", "source_corrupt"), Tool("restore_failed")>>))

questdb_opProvision(kind, tables) ==
  Payload \o NoPITR \o questdb_resolveSource(kind) \o assertSettled \o assertIdle \o Put(<<>>)
  \o placeDataRoot \o questdb_startEngine \o questdb_assertRestored(tables)

questdb_plans ==
  [v \in questdb_probePayload.kinds \X {{}, {"tables"}} |->
     Plan(accept \o questdb_opProvision(v[1], "tables" \in v[2]), opHealthcheck, {}, "late")]

----------------------------------------------------------------------------
(***************************************************************************)
(* adapters/tdengine: a taosdump, as a directory, one of several or a tar  *)
(* archive, loaded by taosdump into the sandbox's server. A database keeps *)
(* its data for a number of days and drops what is older, and the tool     *)
(* exits 0 whatever it could not load, so its words are read.              *)
(***************************************************************************)

tdengine_probePayload == Offers({"taosdump", "taosdump_dir", "taosdump_tar"}, {})

tdengine_selectsAMember == {"taosdump_dir"}
tdengine_backupSelection(kind) == Selection(kind \in tdengine_selectsAMember)

\* A directory that is no dump is not a candidate.
chooseDumpIn == Host(Readable \o <<Source("no_candidate", "source_not_found")>>)

innerDump ==
  Host(Unreadable
    \o <<Source("no_schema", "source_corrupt"), Source("several_dumps", "unsupported_source")>>)
readSchema == Host(Unreadable \o <<Source("no_schema", "source_corrupt")>>)
resolveDump ==
  Host(Readable \o <<Request("is_file", "invalid_request")>>) \o innerDump \o readSchema \o Hash(Unreadable)

tarStream ==
  Host(Unreadable
    \o <<Source("archive_damaged", "source_corrupt"), Source("other_compression", "unsupported_source")>>)
inspectDumpTar ==
  tarStream
    \o Host(<<Source("archive_damaged", "source_corrupt"), Source("meta_too_large", "source_corrupt")>>)
resolveTar ==
  Host(Readable \o <<Request("is_directory", "invalid_request")>>) \o inspectDumpTar
  \o Host(<<Source("no_schema", "source_corrupt")>>) \o Hash(Unreadable)

tdengine_resolveSource(kind) ==
  tdengine_backupSelection(kind)
  \o CASE kind = "taosdump"     -> resolveDump
       [] kind = "taosdump_dir" -> chooseDumpIn \o resolveDump
       [] kind = "taosdump_tar" -> resolveTar
       [] OTHER                 -> Host(<<Request(Always, "unsupported_source")>>)

\* A dump older than its database keeps data is dropped by the engine as it arrives.
rejectAgedBackup == Host(<<Source("older_than_keep", "restore_failed")>>)

tdengine_startEngine == Start({}, <<Tool("engine_not_ready")>>)

\* The image starts its server; the adapter does when none answers within the grace.
awaitReady(started) == When(~started, tdengine_startEngine) \o Await(<<>>)

extractArchive == Exec(<<Source("archive_damaged", "source_corrupt"), Source("no_schema", "source_corrupt")>>)

\* What the tool says counts: that it could not connect, failures beside its rows,
\* no row count at all, or another than the dump's own.  Output without any of its words
\* is not judged.
verdict ==
  <<Sandbox("not_connected", "restore_failed"), Source("rows_failed", "source_corrupt"),
    Tool("restore_failed")>>
  \o Unless("no_row_count_in_the_dump", <<Source("row_count_differs", "source_corrupt")>>)
readRestoreOutcome == Unless("tool_silent", verdict)
runRestore == Load(readRestoreOutcome)

tdengine_assertRestored == Exec(<<Tool("restore_failed"), Source("no_tables", "source_corrupt")>>)

tdengine_opProvision(kind, started) ==
  Payload \o NoPITR \o tdengine_resolveSource(kind) \o assertSettled \o rejectAgedBackup \o awaitReady(started)
  \o Put(<<>>) \o When(kind = "taosdump_tar", extractArchive) \o runRestore \o tdengine_assertRestored

tdengine_plans ==
  [v \in tdengine_probePayload.kinds \X {{}, {"started"}} |->
     Plan(accept \o tdengine_opProvision(v[1], v[2] # {}), opHealthcheck, {}, "late")]

----------------------------------------------------------------------------
(***************************************************************************)
(* adapters/iotdb: a copy of a stopped node's data directory, or a tar     *)
(* archive of one, placed where a node the adapter configures after the    *)
(* copy's own properties finds it. The engine serves a copy it cannot      *)
(* decode and hides rows whose time to live has passed, so every value is  *)
(* read before the restore counts.                                         *)
(***************************************************************************)

iotdb_probePayload == Offers({"iotdb_data_tar", "iotdb_data"}, {})

resolveLogin(password) ==
  Host(<<Request("param_given", "invalid_request"), Request("option_unknown", "invalid_request")>>
       \o When(password, <<Request("credential_undeclared", "invalid_request"), Request("credential_empty",
         "invalid_request")>>))

findDataRoot ==
  Host(Unreadable
    \o <<Source("no_data_root", "unsupported_source"), Source("several_data_roots", "unsupported_source")>>)
inspectDir == findDataRoot \o Hash(Unreadable)
inspectTar == Hash(Unreadable) \o Host(<<Source("empty_file", "source_corrupt")>>)
inspect(kind) ==
  Host(Readable \o <<Source("kind_mismatch", "unsupported_source")>>)
  \o CASE kind = "iotdb_data"     -> inspectDir
       [] kind = "iotdb_data_tar" -> inspectTar
       [] OTHER                   -> Host(<<Request(Always, "unsupported_source")>>)

prepareStep == Exec(<<Tool("sandbox_error")>>)

\* The scripts' own exit codes: no data root found, several, or an archive that does
\* not unpack.
placeData ==
  Load(<<Source("no_data_root", "source_corrupt"), Source("several_data_roots", "source_corrupt"),
         Source("archive_damaged", "source_corrupt"), Tool("restore_failed")>>)

refuseNewerCopy == <<Source("newer_minor", "restore_failed")>>
nodeSettings == <<Source("remote_address", "restore_failed"), Source("bad_setting", "source_corrupt")>>
hostsStep == Exec(<<Sandbox("hosts_not_writable", "restore_failed")>>)
configureStep == Exec(<<Tool("sandbox_error")>>)

\* Properties that name neither node's version are not judged.
configure ==
  Exec(<<Source("no_properties", "source_corrupt")>>
       \o Unless("properties_silent", refuseNewerCopy \o nodeSettings)) \o hostsStep
    \o configureStep

loginRefused == <<Request("login_refused", "invalid_request")>>

\* The node is ready once every node and every region of the cluster runs.
readyScript == Await(loginRefused)
iotdb_startEngine == Start({}, <<Tool("engine_not_ready")>>) \o readyScript

\* Every value is read twice, once from the file's statistics and once decoded.
ttlHidesAll == <<Source("older_than_ttl", "restore_failed")>>
verdictScript ==
  <<Source("undecodable", "source_corrupt"), Request("no_such_database", "invalid_request")>> \o ttlHidesAll
  \o <<Source("read_disagrees", "source_corrupt"), Source("nothing_restored", "restore_failed")>>
verifyRestore == Exec(verdictScript \o loginRefused \o <<Tool("restore_failed")>>)

iotdb_opProvision(kind, password) ==
  Payload \o NoPITR \o resolveLogin(password) \o inspect(kind) \o assertSettled \o prepareStep \o Put(<<>>)
  \o placeData \o configure \o iotdb_startEngine \o verifyRestore

iotdb_plans ==
  [v \in iotdb_probePayload.kinds \X {{}, {"password"}} |->
     Plan(accept \o iotdb_opProvision(v[1], v[2] # {}), opHealthcheck, {}, "late")]
=============================================================================
