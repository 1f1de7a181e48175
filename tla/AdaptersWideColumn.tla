-------------------------- MODULE AdaptersWideColumn --------------------------
(***************************************************************************)
(* The adapters of the wide-column stores: snapshots of table files that a *)
(* node loads, next to a schema that is replayed.                          *)
(***************************************************************************)
EXTENDS AdapterSteps

\* What the adapters do alike, each in code of its own.

accept == Speaks

\* What an sstable's own TOC and the snapshot's manifest list must be there.
judgeComponents == <<Source("component_missing", "source_corrupt")>>

dirChecksum == Hash(Unreadable \o <<Source("no_files", "source_not_found")>>)
chooseTreeIn == Host(Readable \o <<Source("no_candidate", "source_not_found")>>)
parseProvisionRequest == Payload \o NoPITR \o NoTimezone
checkEngine == Exec(<<Sandbox("no_toolchain", "invalid_request")>>)
mkdirAll == Exec(<<Tool("internal")>>)
transferTree == Host(Unreadable) \o mkdirAll \o Put(<<>>)
mapSchemaFailure ==
  <<Request("schema_of_another_version", "invalid_request"),
    Source("schema_refused", "restore_failed")>>

\* One row of every table is read; a table that has lost only some of them is let
\* through.  One without any is refused when its sstables declare a TTL; without the tool
\* that reads them, or without an answer of it, they are taken to declare none.
declaredTTL == Exec(Unless("ttl_unread", <<Source("every_row_past_its_ttl", "restore_failed")>>))

opHealthcheck == Payload \o Ask

----------------------------------------------------------------------------
(***************************************************************************)
(* adapters/cassandra: a collected snapshot, one directory per keyspace    *)
(* and table, as a tree, in an archive or chosen among several. The tables *)
(* are recreated from their schema and loaded with sstableloader into a    *)
(* node the adapter starts. An archive the drill host cannot walk          *)
(* ("opaque") is judged in the sandbox alone.                              *)
(***************************************************************************)

cassandra_probePayload == Offers({"cassandra_snapshot_tar", "cassandra_snapshot", "cassandra_snapshot_dir"}, {})

cassandra_selectsAMember == {"cassandra_snapshot_dir"}
cassandra_backupSelection(kind) == Selection(kind \in cassandra_selectsAMember)

cassandra_judgeName == <<Request("system_keyspace", "invalid_request"), Request("quoted_name", "invalid_request")>>

judgeDigests == <<Source("digest_mismatch", "source_corrupt")>>
cassandra_judgeTable ==
  <<Source("live_directory", "unsupported_source"), Source("no_schema", "source_corrupt")>>
  \o judgeComponents \o judgeDigests

cassandra_inspectSnapshotTree ==
  Host(Unreadable \o cassandra_judgeName \o cassandra_judgeTable
    \o <<Source("no_tables", "source_corrupt")>>)

\* In a stream the raw-copy marker is met, and too much metadata refused, on the way.
cassandra_walkTarEntry ==
  <<Source("live_directory", "unsupported_source"),
    Source("too_many_entries", "source_corrupt")>>
cassandra_judgeTarTables == cassandra_judgeName \o cassandra_judgeTable \o <<Source("no_tables", "source_corrupt")>>
cassandra_inspectSnapshotTar == Host(cassandra_walkTarEntry \o cassandra_judgeTarTables)

cassandra_resolveTree ==
  Host(Readable \o <<Request("is_file", "invalid_request")>>)
    \o cassandra_inspectSnapshotTree \o dirChecksum
cassandra_resolveTar(opaque) ==
  Host(Readable \o <<Request("is_directory", "invalid_request")>>)
  \o When(~opaque, cassandra_inspectSnapshotTar) \o Hash(Unreadable)

cassandra_resolveSource(kind, opaque) ==
  cassandra_backupSelection(kind)
  \o CASE kind = "cassandra_snapshot_tar" -> cassandra_resolveTar(opaque)
       [] kind = "cassandra_snapshot"     -> cassandra_resolveTree
       [] kind = "cassandra_snapshot_dir" -> chooseTreeIn \o cassandra_resolveTree
       [] OTHER                           -> Host(<<Request(Always, "unsupported_source")>>)

prepareNode == Exec(<<Tool("internal")>>)

cassandra_unpackArchive ==
  mkdirAll \o Put(<<>>) \o Exec(<<Source("broken_archive", "source_corrupt")>>) \o Exec(<<>>)
cassandra_transferArtifact(kind) ==
  IF kind = "cassandra_snapshot_tar" THEN cassandra_unpackArchive
    ELSE transferTree

cassandra_discoverTables == Exec(<<Source("no_tables", "source_corrupt")>> \o cassandra_judgeName)

\* A start that failed is explained by the node's own log.
describeStartFailure == <<Sandbox("node_refused", "restore_failed")>>
cassandra_awaitReady == Await(describeStartFailure)
startEngine == Start({}, <<Tool("restore_failed")>>) \o cassandra_awaitReady

cassandra_restoreTable == Exec(mapSchemaFailure) \o Load(<<Tool("restore_failed")>>)
cassandra_restoreTables == Exec(<<Tool("restore_failed")>>) \o cassandra_restoreTable

cassandra_probeTables ==
  Exec(<<Source("digest_mismatch", "source_corrupt"), Tool("source_corrupt")>>)
    \o declaredTTL

cassandra_opProvision(kind, opaque) ==
  parseProvisionRequest \o cassandra_resolveSource(kind, opaque) \o checkEngine \o prepareNode
  \o cassandra_transferArtifact(kind) \o When(opaque, cassandra_discoverTables) \o startEngine
    \o cassandra_restoreTables \o cassandra_probeTables

cassandra_variants == (cassandra_probePayload.kinds \X {{}}) \cup {<<"cassandra_snapshot_tar", {"opaque"}>>}

cassandra_plans ==
  [v \in cassandra_variants |->
     Plan(accept \o cassandra_opProvision(v[1], "opaque" \in v[2]), opHealthcheck, {}, "no")]

----------------------------------------------------------------------------
(***************************************************************************)
(* adapters/scylladb: a collected snapshot, as a tree, in an archive or    *)
(* chosen among several, staged into the upload directories of a node that *)
(* already runs and taken in with nodetool refresh. An archive the drill   *)
(* host cannot walk ("opaque") is judged in the sandbox alone.             *)
(***************************************************************************)

scylladb_probePayload == Offers({"scylladb_snapshot_tar", "scylladb_snapshot", "scylladb_snapshot_dir"}, {})

scylladb_selectsAMember == {"scylladb_snapshot_dir"}
scylladb_backupSelection(kind) == Selection(kind \in scylladb_selectsAMember)

scylladb_judgeName == <<Request("quoted_name", "invalid_request"), Request("system_keyspace", "invalid_request")>>

scylladb_judgeTable ==
  <<Request("live_directory", "invalid_request"), Source("no_schema", "source_corrupt"),
    Source("no_manifest", "source_corrupt")>>
  \o judgeComponents

scylladb_inspectSnapshotTree ==
  Host(Unreadable \o scylladb_judgeName \o scylladb_judgeTable
    \o <<Source("no_tables", "source_corrupt")>>)

scylladb_walkTarEntry == <<Source("too_many_entries", "source_corrupt")>>
scylladb_judgeTarTables == <<Request("system_keyspace", "invalid_request")>> \o scylladb_judgeTable
scylladb_inspectSnapshotTar == Host(scylladb_walkTarEntry \o scylladb_judgeTarTables)

scylladb_resolveTree ==
  Host(Readable \o <<Request("is_file", "invalid_request")>>)
    \o scylladb_inspectSnapshotTree \o dirChecksum
scylladb_resolveTar(opaque) ==
  Host(Readable \o <<Request("is_directory", "invalid_request")>>)
  \o When(~opaque, scylladb_inspectSnapshotTar) \o Hash(Unreadable)

scylladb_resolveSource(kind, opaque) ==
  scylladb_backupSelection(kind)
  \o CASE kind = "scylladb_snapshot_tar" -> scylladb_resolveTar(opaque)
       [] kind = "scylladb_snapshot"     -> scylladb_resolveTree
       [] kind = "scylladb_snapshot_dir" -> chooseTreeIn \o scylladb_resolveTree
       [] OTHER                          -> Host(<<Request(Always, "unsupported_source")>>)

scylladb_awaitReady == Await(<<>>)

\* Stopping the image's version check is best effort: even a cancelled call is passed over.
quietenHousekeeping == Attempt("none", {})

scylladb_unpackArchive ==
  mkdirAll \o Put(<<>>)
  \o Exec(<<Sandbox("no_extractor", "invalid_request"), Source("broken_archive", "source_corrupt")>>) \o Exec(<<>>)
scylladb_transferArtifact(kind) == IF kind = "scylladb_snapshot_tar" THEN scylladb_unpackArchive ELSE transferTree

scylladb_discoverTables == Exec(<<Source("no_tables", "source_corrupt")>> \o scylladb_judgeName)

\* refresh takes an empty upload directory for a success, so a table that stages no
\* file at all is refused before refresh is asked: also one nobody ever wrote to, whose
\* directory has a manifest and a schema and no sstable.
stageScript ==
  <<Source("component_missing", "source_corrupt"),
    Source("empty_table", "source_corrupt"), Tool("source_corrupt")>>
scylladb_restoreTable ==
  Exec(mapSchemaFailure) \o Exec(stageScript)
    \o Load(<<Source("damaged", "source_corrupt"), Tool("source_corrupt")>>)
scylladb_restoreTables == Exec(<<Tool("restore_failed")>>) \o scylladb_restoreTable

scylladb_probeTables == Exec(<<Tool("source_corrupt")>>) \o declaredTTL

scylladb_opProvision(kind, opaque) ==
  parseProvisionRequest \o scylladb_resolveSource(kind, opaque) \o checkEngine \o scylladb_awaitReady
  \o quietenHousekeeping \o scylladb_transferArtifact(kind) \o When(opaque, scylladb_discoverTables)
  \o scylladb_restoreTables \o scylladb_probeTables

scylladb_variants == (scylladb_probePayload.kinds \X {{}}) \cup {<<"scylladb_snapshot_tar", {"opaque"}>>}

scylladb_plans ==
  [v \in scylladb_variants |->
     Plan(accept \o scylladb_opProvision(v[1], "opaque" \in v[2]), opHealthcheck, {}, "no")]
=============================================================================
