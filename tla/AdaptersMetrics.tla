--------------------------- MODULE AdaptersMetrics ----------------------------
(***************************************************************************)
(* The adapters of the metrics stores: blocks or parts on which a server   *)
(* is started with its retention out of reach.                             *)
(***************************************************************************)
EXTENDS AdapterSteps

\* What the adapters do alike, each in code of its own.

accept == Speaks
rejectBackupTimezone == NoTimezone
dirChecksum == Hash(Unreadable)
mkdirAll == Exec(<<Tool("internal")>>)
opHealthcheck == Payload \o Ask

----------------------------------------------------------------------------
(***************************************************************************)
(* adapters/prometheus: a TSDB snapshot, as a tree, the newest tree of a   *)
(* directory, or a tar archive, served by an engine the adapter starts     *)
(* with a retention that ages nothing out.                                 *)
(***************************************************************************)

prometheus_probePayload == Offers({"prometheus_snapshot_tar", "prometheus_snapshot", "prometheus_snapshot_dir"}, {})

prometheus_selectsAMember == {"prometheus_snapshot_dir"}
prometheus_backupSelection(kind) == Selection(kind \in prometheus_selectsAMember)

\* A write-ahead log beside the blocks is the mark of a data directory in use.
refuseLiveMarkers == <<Source("live_marker", "unsupported_source")>>
noBlocks == <<Source("no_blocks", "source_corrupt")>>
refuseSupersededOnly == <<Source("superseded_only", "source_corrupt")>>

inspectSnapshotDir ==
  Host(Unreadable \o refuseLiveMarkers \o <<Source("block_without_meta", "source_corrupt")>> \o noBlocks
    \o refuseSupersededOnly)
resolveSnapshotDir ==
  Host(Readable \o <<Request("is_file", "invalid_request")>>) \o inspectSnapshotDir \o dirChecksum

\* An archive the drill host cannot walk is opaque: no verdict here.
tooMuchKept == <<Source("too_much_kept", "source_corrupt")>>
listTarSnapshot == Host(tooMuchKept \o refuseLiveMarkers \o refuseSupersededOnly \o noBlocks)
prometheus_resolveTar(opaque) ==
  Host(Readable \o <<Request("is_directory", "invalid_request")>>)
  \o When(~opaque, listTarSnapshot) \o Hash(Unreadable)

chooseSnapshotIn == Host(Readable \o <<Source("no_candidate", "source_not_found")>>)

prometheus_resolveSource(kind, opaque) ==
  prometheus_backupSelection(kind)
  \o CASE kind = "prometheus_snapshot_tar" -> prometheus_resolveTar(opaque)
       [] kind = "prometheus_snapshot"     -> resolveSnapshotDir
       [] kind = "prometheus_snapshot_dir" -> chooseSnapshotIn \o resolveSnapshotDir
       [] OTHER                            -> Host(<<Request(Always, "unsupported_source")>>)

prometheus_checkEngine == Exec(<<Sandbox("no_prometheus", "invalid_request")>>)
prometheus_unpackArchive ==
  mkdirAll \o Put(<<>>) \o Load(<<Source("archive_damaged", "source_corrupt")>>)
    \o Exec(<<>>)
prometheus_transferTree == Host(Unreadable) \o mkdirAll \o Place(<<>>)
prometheus_transferArtifact(kind) ==
  IF kind = "prometheus_snapshot_tar" THEN prometheus_unpackArchive
    ELSE prometheus_transferTree

\* What an opaque archive holds is counted where it was unpacked.
recoverCensus == Exec(noBlocks \o refuseSupersededOnly)

\* The age and size limits of the engine are launch flags.
retentionTime == {"retention"}
prometheus_describeStartFailure ==
  <<Source("tsdb_damaged", "source_corrupt"), Sandbox("start_error_logged",
    "restore_failed")>>
prometheus_awaitReady == Await(prometheus_describeStartFailure)
prometheus_startEngine ==
  Exec(<<Tool("internal")>>) \o Start(retentionTime, <<Tool("restore_failed")>>)
    \o prometheus_awaitReady

\* The engine skips a block it cannot open; it loads what is left.  A metrics page that
\* does not say how many it loaded is passed over, and so is a query with no instant to
\* put it at, or whose count cannot be read.
checkCensus == Exec(Unless("metrics_unread", <<Source("block_skipped", "source_corrupt")>>))
probeData ==
  Exec(Unless("newest_unknown",
              Unless("count_unread", <<Source("no_series", "source_corrupt")>>) \o <<Tool("source_corrupt")>>))

prometheus_opProvision(kind, opaque) ==
  Payload \o NoPITR \o rejectBackupTimezone \o prometheus_resolveSource(kind, opaque)
    \o prometheus_checkEngine \o prometheus_transferArtifact(kind)
  \o When(opaque, recoverCensus) \o prometheus_startEngine \o checkCensus \o probeData

prometheus_plans ==
  [v \in (prometheus_probePayload.kinds \X {{}}) \cup {<<"prometheus_snapshot_tar", {"opaque"}>>} |->
     Plan(accept \o prometheus_opProvision(v[1], v[2] # {}), opHealthcheck,
          HeldBy(retentionTime), "no")]

----------------------------------------------------------------------------
(***************************************************************************)
(* adapters/victoriametrics: the output of vmbackup, as a tar, a tree or   *)
(* the newest tree of a directory, restored with vmrestore into a storage  *)
(* path on which the adapter starts a server.                              *)
(***************************************************************************)

victoriametrics_probePayload ==
  Offers({"victoriametrics_backup_tar", "victoriametrics_backup", "victoriametrics_backup_dir"}, {})

victoriametrics_selectsAMember == {"victoriametrics_backup_dir"}
victoriametrics_backupSelection(kind) == Selection(kind \in victoriametrics_selectsAMember)

\* A storage path in use holds what no backup holds.
refuseLiveCopy == <<Source("live_copy", "unsupported_source")>>
refuseIncomplete == <<Source("incomplete", "source_corrupt")>>

readBackupMetadata == Unreadable \o <<Source("bad_metadata", "source_corrupt")>>

\* Every part a partition lists must be there.
partCensus == Unreadable \o <<Source("part_missing", "source_corrupt")>>
inspectBackupDir ==
  Host(Unreadable \o refuseLiveCopy \o <<Source("no_metadata", "source_corrupt")>> \o refuseIncomplete
       \o readBackupMetadata \o partCensus)

fileChecksum == Hash(Unreadable)
resolveBackupDir == Host(Readable \o <<Request("is_file", "invalid_request")>>) \o inspectBackupDir \o dirChecksum

\* An archive the drill host cannot walk is opaque: no verdict here.
vetTarEntries == Host(refuseLiveCopy \o <<Source("no_markers", "source_corrupt")>> \o refuseIncomplete)
victoriametrics_resolveTar(opaque) ==
  Host(Readable \o <<Request("is_directory", "invalid_request")>>) \o When(~opaque, vetTarEntries) \o fileChecksum

chooseBackupIn == Host(Readable \o <<Source("no_candidate", "source_not_found")>>)

victoriametrics_resolveSource(kind, opaque) ==
  victoriametrics_backupSelection(kind)
  \o CASE kind = "victoriametrics_backup_tar" -> victoriametrics_resolveTar(opaque)
       [] kind = "victoriametrics_backup"     -> resolveBackupDir
       [] kind = "victoriametrics_backup_dir" -> chooseBackupIn \o resolveBackupDir
       [] OTHER                               -> Host(<<Request(Always, "unsupported_source")>>)

victoriametrics_checkEngine == Exec(<<Sandbox("no_victoriametrics", "invalid_request")>>)

\* Where the tree lies in the archive is a guess that falls back to its top.
victoriametrics_unpackArchive ==
  mkdirAll \o Put(<<>>) \o Exec(<<Source("archive_damaged", "source_corrupt"), Tool("source_corrupt")>>)
    \o Exec(<<>>)
victoriametrics_transferTree == Host(Unreadable) \o mkdirAll \o Put(<<>>)
victoriametrics_transferArtifact(kind) ==
  IF kind = "victoriametrics_backup_tar"
    THEN victoriametrics_unpackArchive ELSE victoriametrics_transferTree

\* The instant of the backup, where the drill host did not find it in the archive.
recoverMetadata == Exec(<<Source("no_markers", "source_corrupt"), Tool("source_corrupt")>>)

\* vmrestore looks for the marker of a completed backup itself.
mapRestoreFailure == refuseIncomplete \o <<Tool("restore_failed")>>
execRestore == Load(mapRestoreFailure)

\* The engine's retention is one month unless a launch flag says otherwise.
retentionPeriod == {"retention"}
victoriametrics_describeStartFailure ==
  <<Source("file_missing",
    "source_corrupt"), Sandbox("start_error_logged", "restore_failed")>>
victoriametrics_awaitReady == Await(victoriametrics_describeStartFailure)
victoriametrics_startEngine == Start(retentionPeriod, <<Tool("restore_failed")>>) \o victoriametrics_awaitReady

\* A census the engine does not answer gives no verdict.
checkSeries == Exec(Unless("series_unread", <<Source("no_series", "source_corrupt")>>))

victoriametrics_opProvision(kind, opaque) ==
  Payload \o NoPITR \o rejectBackupTimezone \o victoriametrics_resolveSource(kind, opaque)
    \o victoriametrics_checkEngine \o victoriametrics_transferArtifact(kind)
  \o When(opaque, recoverMetadata) \o execRestore \o victoriametrics_startEngine \o checkSeries

victoriametrics_plans ==
  [v \in (victoriametrics_probePayload.kinds \X {{}}) \cup {<<"victoriametrics_backup_tar", {"opaque"}>>} |->
     Plan(accept \o victoriametrics_opProvision(v[1], v[2] # {}), opHealthcheck,
          HeldBy(retentionPeriod), "no")]
=============================================================================
