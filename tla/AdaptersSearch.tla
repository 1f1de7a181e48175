---------------------------- MODULE AdaptersSearch ----------------------------
(***************************************************************************)
(* The adapters of the search engines: backups are repositories or trees   *)
(* that a node registers and restores itself.                              *)
(***************************************************************************)
EXTENDS AdapterSteps

\* What the adapters do alike, each in code of its own.

accept == Speaks
parseProvisionRequest == Payload \o NoPITR \o NoTimezone
liveMarkers == <<Source("live_data_directory", "unsupported_source")>>
readGeneration ==
  <<Source("no_index_latest", "source_corrupt")>> \o Unreadable
    \o <<Source("bad_index_latest", "source_corrupt")>>
parseRepoIndex == <<Source("index_damaged", "source_corrupt"), Source("no_snapshots", "source_corrupt")>>
generationMissing == <<Source("generation_missing", "source_corrupt")>>
inspectRepoDir == Host(Unreadable \o liveMarkers \o readGeneration \o generationMissing \o parseRepoIndex)
resolveRepoDir ==
  Host(Readable \o <<Request("is_file", "invalid_request")>>) \o inspectRepoDir \o Hash(Unreadable)

checkEngine == Exec(<<Sandbox("toolchain_missing", "invalid_request")>>)
mkdirAll == Exec(<<Tool("internal")>>)
describeStartFailure == <<Sandbox("start_error_logged", "restore_failed")>>
newerSnapshot == <<Source("newer_snapshot", "invalid_request")>>

\* A version that either side does not state, or states in another form, is not compared.
checkVersions(opaque) == When(~opaque, Host(Unless("version_unread", newerSnapshot)))

\* unzip exits non-zero on a truncated or foreign archive, cp on a full disk.
unpackArchive ==
  mkdirAll \o Put(<<>>) \o Exec(<<Source("archive_damaged", "source_corrupt")>>) \o Exec(<<Tool("internal")>>)

transferTree == Host(Unreadable) \o mkdirAll \o Put(<<>>)
registerRepo == Exec(<<Source("repository_refused", "source_corrupt"), Tool("restore_failed")>>)

\* An engine that lists none is held against what the repository's files claim; an
\* opaque archive claims nothing.
selectSnapshot(opaque) ==
  Exec(<<Tool("restore_failed"), Source("list_damaged", "source_corrupt")>>
       \o When(~opaque, <<Source("none_listed", "source_corrupt")>>))

incomplete == Host(<<Source("newest_not_success", "source_corrupt")>> \o Unless("version_unread", newerSnapshot))

\* The call returns 200 with failed shards: the shard counts are the verdict, and an
\* answer without them is none.
runRestore ==
  Load(<<Tool("restore_failed")>> \o newerSnapshot
       \o Unless("restore_answer_unread", <<Source("shards_failed", "source_corrupt")>>))

checkHealth == Exec(Unless("health_unread", <<Source("below_green", "source_corrupt")>>))

\* Nothing claimed and nothing listed ends the restore there, without an error.
restoreNewest(opaque, listed) ==
  registerRepo \o selectSnapshot(opaque) \o When(listed, incomplete \o runRestore \o checkHealth)

opHealthcheck == Payload \o Ask

----------------------------------------------------------------------------
(***************************************************************************)
(* adapters/elasticsearch: an fs snapshot repository, as a directory or a  *)
(* zip archive, registered read-only with a node the adapter starts, of    *)
(* which the newest snapshot is restored. The node's lifecycle policies    *)
(* are suspended before there is data they could delete.                   *)
(***************************************************************************)

elasticsearch_probePayload == Offers({"elasticsearch_repo_zip", "elasticsearch_repo"}, {})

\* An archive whose directory shows no index.latest is opaque: no verdict here.
elasticsearch_takeEntry == liveMarkers \o <<Source("too_many_generations", "source_corrupt")>>
walkZip(opaque) == elasticsearch_takeEntry \o When(~opaque, generationMissing \o parseRepoIndex)
inspectRepoZip(opaque) == Host(walkZip(opaque))
resolveZip(opaque) ==
  Host(Readable \o <<Request("is_directory", "invalid_request")>>) \o inspectRepoZip(opaque) \o Hash(Unreadable)

elasticsearch_resolveSource(kind, opaque) ==
  CASE kind = "elasticsearch_repo_zip" -> resolveZip(opaque)
    [] kind = "elasticsearch_repo"     -> resolveRepoDir
    [] OTHER                           -> Host(<<Request(Always, "unsupported_source")>>)

\* The data stream lifecycle has no stop switch: its poll interval is a launch
\* setting.  Both are read back once the node answers, and what the node says otherwise
\* is refused; an order it acknowledged and cannot be asked about is taken to hold.
lifecyclePollInterval == {"data_stream_lifecycle"}
ilmStopped == {"index_lifecycle"}
stopILM ==
  Fence(ilmStopped, <<Tool("restore_failed")>>) \o Exec(<<Sandbox("ilm_still_running", "invalid_request")>>)
judgeDeprecationIndexing == <<Sandbox("deprecation_indexing_on", "invalid_request")>>
verifyLaunchSettings == Exec(<<Sandbox("poll_interval_refused", "invalid_request")>> \o judgeDeprecationIndexing)
pinLifecycle == stopILM \o verifyLaunchSettings

elasticsearch_awaitReady == Await(describeStartFailure)
readEngine == Exec(<<>>) \o Exec(<<>>)
elasticsearch_startEngine ==
  Start(lifecyclePollInterval, <<Tool("restore_failed")>>) \o elasticsearch_awaitReady \o pinLifecycle \o readEngine

elasticsearch_transferArtifact(kind) == IF kind = "elasticsearch_repo_zip" THEN unpackArchive ELSE transferTree

elasticsearch_opProvision(kind, opaque, listed) ==
  parseProvisionRequest \o elasticsearch_resolveSource(kind, opaque) \o checkEngine \o mkdirAll
    \o elasticsearch_startEngine \o checkVersions(opaque)
  \o elasticsearch_transferArtifact(kind) \o restoreNewest(opaque, listed)

automation == HeldBy(lifecyclePollInterval \cup ilmStopped)

\* Among the opaque archives are those that hold no repository: the engine registers
\* what they unpack to and lists nothing.
elasticsearch_variants ==
  (elasticsearch_probePayload.kinds \X {{}})
  \cup ({"elasticsearch_repo_zip"} \X {{"opaque"}, {"opaque", "no_repository"}})

elasticsearch_plans ==
  [v \in elasticsearch_variants |->
     Plan(accept \o elasticsearch_opProvision(v[1], "opaque" \in v[2], "no_repository" \notin v[2]),
          opHealthcheck, automation, "no")]

----------------------------------------------------------------------------
(***************************************************************************)
(* adapters/opensearch: an fs snapshot repository, as a directory or a tar *)
(* archive, registered read-only with a node the adapter starts, of which  *)
(* the newest snapshot is restored. Index state management keeps its       *)
(* policies in an index whose name begins with a dot, and those are not    *)
(* restored: there is nothing to suspend.                                  *)
(***************************************************************************)

opensearch_probePayload == Offers({"opensearch_repo_tar", "opensearch_repo"}, {})

\* An archive whose directory shows no index.latest is opaque: no verdict here.
opensearch_takeEntry == liveMarkers \o <<Source("too_much_kept", "source_corrupt")>>
walkTar(opaque) == opensearch_takeEntry \o When(~opaque, generationMissing \o parseRepoIndex)
inspectRepoTar(opaque) == Host(walkTar(opaque))
opensearch_resolveTar(opaque) ==
  Host(Readable \o <<Request("is_directory", "invalid_request")>>) \o inspectRepoTar(opaque) \o Hash(Unreadable)

opensearch_resolveSource(kind, opaque) ==
  CASE kind = "opensearch_repo_tar" -> opensearch_resolveTar(opaque)
    [] kind = "opensearch_repo"     -> resolveRepoDir
    [] OTHER                           -> Host(<<Request(Always, "unsupported_source")>>)

opensearch_awaitReady == Await(describeStartFailure)
readEngineVersion == Exec(<<>>)
opensearch_startEngine ==
  Start({}, <<Tool("restore_failed")>>) \o opensearch_awaitReady \o readEngineVersion

opensearch_transferArtifact(kind) == IF kind = "opensearch_repo_tar" THEN unpackArchive ELSE transferTree

opensearch_opProvision(kind, opaque, listed) ==
  parseProvisionRequest \o opensearch_resolveSource(kind, opaque) \o checkEngine \o mkdirAll
    \o opensearch_startEngine \o checkVersions(opaque)
  \o opensearch_transferArtifact(kind) \o restoreNewest(opaque, listed)

opensearch_variants ==
  (opensearch_probePayload.kinds \X {{}})
  \cup ({"opensearch_repo_tar"} \X {{"opaque"}, {"opaque", "no_repository"}})

opensearch_plans ==
  [v \in opensearch_variants |->
     Plan(accept \o opensearch_opProvision(v[1], "opaque" \in v[2], "no_repository" \notin v[2]),
          opHealthcheck, {}, "no")]

----------------------------------------------------------------------------
(***************************************************************************)
(* adapters/solr: a Collections API backup, as a directory, one of several *)
(* or a tar archive, restored by the server the image itself starts, in    *)
(* SolrCloud mode. A backup brings its collection's configuration along,   *)
(* and a configuration may delete documents on a timer: the adapter does   *)
(* not rewrite it, so it refuses the backup.                               *)
(***************************************************************************)

solr_probePayload == Offers({"solr_backup_tar", "solr_backup", "solr_backup_dir"}, {})

checkRequest == NoPITR \o NoTimezone

selectsAMember == {"solr_backup_dir"}
backupSelection(kind) == Selection(kind \in selectsAMember)

assertSettled == Settle(Readable)
chooseBackupIn == Host(Readable \o <<Source("no_candidate", "source_not_found")>>) \o assertSettled

soleCollection ==
  Host(Unreadable \o <<Source("no_collection", "source_corrupt"),
    Source("several_collections", "unsupported_source")>>)
resolveBackup ==
  Host(Readable \o <<Request("is_file", "invalid_request")>>) \o soleCollection \o Hash(Unreadable)

expirationRefusal == <<Source("config_expires", "unsupported_source")>>

\* The pass over an archive reads what tar.Reader can read.  Of a compressed archive
\* that is nothing, which is no verdict: the pass falls silent.
scanBackupTar(compressed) ==
  When(~compressed, <<Source("too_much_kept", "source_corrupt"),
    Source("several_collections", "unsupported_source")>>
                    \o expirationRefusal)
inspectBackupTar(compressed) == Host(Unreadable \o scanBackupTar(compressed))
solr_resolveTar(compressed) ==
  Host(Readable \o <<Request("is_directory", "invalid_request")>>) \o inspectBackupTar(compressed)
    \o Hash(Unreadable)

solr_resolveSource(kind, compressed) ==
  backupSelection(kind)
  \o CASE kind = "solr_backup_tar" -> solr_resolveTar(compressed)
       [] kind = "solr_backup"     -> resolveBackup
       [] kind = "solr_backup_dir" -> chooseBackupIn \o resolveBackup
       [] OTHER                    -> Host(<<Request(Always, "unsupported_source")>>)

\* Only a directory is walked here: an archive was looked at when it was resolved.
rejectExpiringBackup(kind) == When(kind # "solr_backup_tar", Host(Unreadable \o expirationRefusal))

solr_awaitReady == Await(<<>>)
assertCloudMode == Exec(<<Sandbox("standalone_mode", "invalid_request")>>)
prepareEngine == Exec(<<Tool("internal")>>) \o solr_awaitReady \o assertCloudMode

\* tar -xf in the sandbox detects a compression by itself.
extractScript == Exec(<<Source("archive_damaged", "source_corrupt"), Source("no_properties", "source_corrupt")>>)
placeArtifact(kind) == Put(<<>>) \o When(kind = "solr_backup_tar", extractScript)

collectionPattern(requested) == When(~requested, Host(<<Source("bad_held_name", "source_corrupt")>>))

mapRestoreFailure == <<Source("damaged", "source_corrupt"), Tool("restore_failed")>>
restoreCollection == Load(mapRestoreFailure)

\* The collection is asked for its count until it serves what its cores hold.
assertServing ==
  Exec(<<Source("not_listed", "restore_failed"),
    Source("serves_too_few", "restore_failed"), Tool("restore_failed")>>)

solr_opProvision(kind, requested, compressed) ==
  Payload \o checkRequest \o solr_resolveSource(kind, compressed) \o rejectExpiringBackup(kind)
  \o When(requested, Host(<<Request("bad_collection_name", "invalid_request")>>))
  \o prepareEngine \o placeArtifact(kind) \o collectionPattern(requested) \o restoreCollection \o assertServing

solr_variants ==
  (solr_probePayload.kinds \X {{}, {"collection"}}) \cup {<<"solr_backup_tar", {"compressed"}>>}

\* Solr answers a restore with success and empties the collection seconds later when
\* its configuration expires documents; that of a compressed archive was never read.
configExpires(options) == IF "compressed" \in options THEN {Unheld} ELSE {}

settles(kind) == IF kind \in selectsAMember THEN "first" ELSE "no"

solr_plans ==
  [v \in solr_variants |->
     Plan(accept \o solr_opProvision(v[1], "collection" \in v[2], "compressed" \in v[2]), opHealthcheck,
          configExpires(v[2]), settles(v[1]))]
=============================================================================
