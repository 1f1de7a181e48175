---------------------------- MODULE AdaptersVector ----------------------------
(***************************************************************************)
(* The adapters of the vector databases.                                   *)
(***************************************************************************)
EXTENDS AdapterSteps

\* What the adapters do alike, each in code of its own.

accept == Speaks
fileChecksum == Hash(Unreadable)
opHealthcheck == Payload \o Ask

----------------------------------------------------------------------------
(***************************************************************************)
(* adapters/qdrant: the snapshot of one collection or of the whole store,  *)
(* named or the newest of a directory, which the engine restores while it  *)
(* starts.                                                                 *)
(***************************************************************************)

qdrant_probePayload ==
  Offers({"qdrant_snapshot", "qdrant_snapshot_dir", "qdrant_full_snapshot", "qdrant_full_snapshot_dir"}, {})

qdrant_selectsAMember == {"qdrant_snapshot_dir", "qdrant_full_snapshot_dir"}
qdrant_backupSelection(kind) == Selection(kind \in qdrant_selectsAMember)

assertSettled == Settle(Readable)
refuseDirectory == Host(Readable \o <<Request("is_directory", "invalid_request")>>)

\* The engine restores a snapshot with flipped bits without a word: where a checksum
\* was written beside it, the drill host compares.
verifyDeclaredChecksum ==
  Host(<<Source("sidecar_unreadable", "source_unreadable"), Source("sidecar_malformed", "source_corrupt"),
         Source("checksum_differs", "source_corrupt")>>)
resolveSnapshot ==
  Host(Readable \o <<Request("is_directory", "invalid_request"), Source("empty", "source_corrupt")>>)
  \o fileChecksum \o verifyDeclaredChecksum

chooseSnapshot == Host(Readable \o <<Source("no_candidate", "source_not_found")>>)
chooseIn == chooseSnapshot \o assertSettled

qdrant_resolveSource(kind) ==
  qdrant_backupSelection(kind)
  \o CASE kind \in {"qdrant_snapshot", "qdrant_full_snapshot"} -> refuseDirectory \o resolveSnapshot
       [] kind \in qdrant_selectsAMember                              -> chooseIn \o resolveSnapshot
       [] OTHER -> Host(<<Request(Always, "unsupported_source")>>)

qdrant_checkSandbox == Exec(<<Sandbox("no_qdrant", "invalid_request"), Sandbox("not_idle", "invalid_request")>>)
prepareWorkDir == Exec(<<Tool("internal")>>)

\* One script starts the engine on the snapshot and waits until it answers.  Whatever
\* goes wrong in it, an engine that is merely slow included, is held against the snapshot.
startEngineScript == Start({}, <<Source("snapshot_damaged", "source_corrupt"), Tool("source_corrupt")>>)
qdrant_startEngine == startEngineScript

\* A collection of no points restores as well as any other.
qdrant_assertRestored ==
  Exec(<<Source("not_served", "restore_failed"), Source("no_points", "source_corrupt"), Tool("restore_failed")>>)

qdrant_opProvision(kind) ==
  Payload \o NoPITR \o qdrant_resolveSource(kind) \o qdrant_checkSandbox \o prepareWorkDir \o Place(<<>>)
    \o qdrant_startEngine \o qdrant_assertRestored

qdrant_plans ==
  [v \in qdrant_probePayload.kinds \X {{}} |->
     Plan(accept \o qdrant_opProvision(v[1]), opHealthcheck,
          {}, IF v[1] \in qdrant_selectsAMember THEN "first" ELSE "no")]

----------------------------------------------------------------------------
(***************************************************************************)
(* adapters/chroma: the data directory of a server, as a tree or a tar,    *)
(* put in place before the adapter starts the engine on it.                *)
(***************************************************************************)

chroma_probePayload == Offers({"chroma_data_tar", "chroma_data"}, {})

\* The adapter takes no parameters at all, not even one it could ignore.
refuseUnknownParams == Host(<<Request("params_given", "invalid_request")>>)

treeChecksum == Hash(Unreadable)

checkSQLiteHeader ==
  Unreadable \o <<Source("header_short", "source_corrupt"), Source("header_foreign", "source_corrupt")>>

\* A rollback journal is the mark of a copy taken in the middle of a transaction.
inspectDir ==
  Host(<<Source("no_database", "unsupported_source")>> \o Unreadable
       \o <<Source("database_not_a_file", "source_corrupt")>> \o checkSQLiteHeader
       \o <<Source("rollback_journal", "source_corrupt"), Source("wal_sidecar", "unsupported_source")>>)
  \o treeChecksum

inspectTar == fileChecksum \o Host(<<Source("empty", "source_corrupt")>>)

wrongShape == <<Request("wrong_shape", "unsupported_source")>>
inspect(kind) ==
  CASE kind = "chroma_data"     -> Host(Readable \o wrongShape) \o inspectDir
    [] kind = "chroma_data_tar" -> Host(Readable \o wrongShape) \o inspectTar
    [] OTHER                    -> Host(<<Request(Always, "unsupported_source")>>)

prepareSandbox == Exec(<<Tool("sandbox_error")>>)

\* The scripts stop at the first command that fails.
placeData ==
  Load(<<Source("archive_damaged", "source_corrupt"),
    Source("no_database", "source_corrupt"), Tool("source_corrupt")>>)

chroma_startEngine == Start({}, <<Tool("engine_not_ready")>>) \o Await(<<>>)

\* Counts are read from the database and vectors from the index beside it: only a
\* nearest-neighbour query of every collection shows that the index came along.
verifyRestore ==
  Exec(<<Source("no_collections", "restore_failed"),
    Source("index_lost", "source_corrupt"), Tool("restore_failed")>>)

chroma_opProvision(kind) ==
  Payload \o refuseUnknownParams \o inspect(kind) \o prepareSandbox \o Put(<<>>) \o placeData
    \o chroma_startEngine \o verifyRestore

chroma_plans ==
  [v \in chroma_probePayload.kinds \X {{}} |->
     Plan(accept \o chroma_opProvision(v[1]), opHealthcheck, {}, "no")]

----------------------------------------------------------------------------
(***************************************************************************)
(* adapters/weaviate: a backup of the filesystem backend, as a tar, a tree *)
(* or the newest completed one of a directory, placed where a server the   *)
(* adapter starts finds it and then asked for through the engine's API.    *)
(***************************************************************************)

weaviate_probePayload == Offers({"weaviate_backup_tar", "weaviate_backup", "weaviate_backup_dir"}, {})

rejectBackupTimezone == NoTimezone

weaviate_selectsAMember == {"weaviate_backup_dir"}
weaviate_backupSelection(kind) == Selection(kind \in weaviate_selectsAMember)

readMetaFile == Unreadable \o <<Source("meta_too_large", "source_corrupt")>>
readBackupMeta == readMetaFile \o <<Source("no_meta", "source_corrupt"), Source("bad_meta", "source_corrupt")>>

\* A backup that failed is a bad one; one that is not finished yet may become good.
requireCompleted == <<Source("backup_failed", "source_corrupt"), Source("backup_unfinished", "source_unreadable")>>
singleNode == <<Source("several_nodes", "invalid_request")>>

\* A chunk that was lost in a copy is missed by its name, a damaged one is not.
verifyChunks ==
  readMetaFile \o <<Source("no_node_meta", "source_corrupt"), Source("bad_node_meta", "source_corrupt"),
                    Source("chunk_missing", "source_corrupt")>>

dirChecksum == Hash(Unreadable \o <<Source("no_files", "source_not_found")>>)

resolveBackupDir ==
  Host(Readable \o <<Request("is_file", "invalid_request")>> \o readBackupMeta \o requireCompleted
    \o singleNode \o verifyChunks)
  \o dirChecksum
resolveTar ==
  Host(Readable \o <<Request("is_directory", "invalid_request"), Source("empty", "source_corrupt")>>)
    \o fileChecksum

\* A directory of nothing but attempts is answered with one of them.
noWinnerError ==
  <<Source("only_failed", "source_corrupt"), Source("only_unfinished", "source_unreadable"),
    Source("no_candidate", "source_not_found")>>

\* The newest completed backup is not the newest when a later attempt did not complete.
refuseNewerAttempt == <<Source("newer_failed", "source_corrupt"), Source("newer_unfinished", "source_unreadable")>>
chooseBackupIn(newest) == Host(Readable \o noWinnerError \o When(newest, refuseNewerAttempt))

weaviate_resolveSource(kind, newest) ==
  weaviate_backupSelection(kind)
  \o CASE kind = "weaviate_backup_tar" -> resolveTar
       [] kind = "weaviate_backup"     -> resolveBackupDir
       [] kind = "weaviate_backup_dir" -> chooseBackupIn(newest) \o resolveBackupDir
       [] OTHER                        -> Host(<<Request(Always, "unsupported_source")>>)

weaviate_checkSandbox == Exec(<<Sandbox("no_weaviate", "invalid_request"), Sandbox("not_idle", "invalid_request")>>)
mkdirAll == Exec(<<Tool("internal")>>)

\* Metadata that does not parse is left for the engine to refuse.
readArchiveMeta(parses) ==
  Exec(<<Source("no_meta", "source_corrupt"), Tool("source_corrupt")>>
       \o When(parses, requireCompleted \o singleNode))
transferArchive(parses) ==
  mkdirAll \o Put(<<>>) \o Exec(<<Source("archive_damaged", "source_corrupt"), Tool("source_corrupt")>>)
    \o Exec(<<>>)
  \o readArchiveMeta(parses) \o Exec(<<Tool("internal")>>)
transferTree == Host(Unreadable) \o mkdirAll \o Put(<<>>)
transferArtifact(kind, parses) == IF kind = "weaviate_backup_tar" THEN transferArchive(parses) ELSE transferTree

chooseClass == Host(<<Request("class_unknown", "invalid_request"), Request("class_unnamed", "invalid_request")>>)

weaviate_startEngine == Start({}, <<Sandbox("never_answers", "restore_failed")>>)

\* The request and the polling of its status are one script: any end of it but SUCCESS
\* is held against the backup.
restoreBackup == Load(<<Source("restore_refused", "source_corrupt"), Tool("source_corrupt")>>)

weaviate_assertRestored ==
  Exec(<<Source("not_served", "restore_failed"), Source("no_objects", "source_corrupt"), Tool("restore_failed")>>)

weaviate_opProvision(kind, parses, newest) ==
  Payload \o NoPITR \o rejectBackupTimezone \o weaviate_resolveSource(kind, newest) \o weaviate_checkSandbox
    \o mkdirAll
  \o transferArtifact(kind, parses) \o When(parses, chooseClass) \o weaviate_startEngine \o restoreBackup
    \o weaviate_assertRestored

attempts == {"only_failed", "only_unfinished", "newer_failed", "newer_unfinished"}

\* A tar whose metadata does not parse, and the policies other than the newest.
variants == {<<"weaviate_backup_tar", {"bad_meta"}>>, <<"weaviate_backup_dir", {"oldest"}>>}

weaviate_plans ==
  [v \in (weaviate_probePayload.kinds \X {{}}) \cup variants |->
     Plan(accept \o weaviate_opProvision(v[1], "bad_meta" \notin v[2], "oldest" \notin v[2]), opHealthcheck,
          {}, "no")]
=============================================================================
