----------------------------- MODULE AdapterInfluxdb -----------------------------
(***************************************************************************)
(* adapters/influxdb: an influx backup, as a directory, one of several or  *)
(* an archive, restored into a fresh instance the adapter sets up.  The    *)
(* instance's retention enforcement is put off for a century before it     *)
(* starts, and the buckets it lists are held against the manifest's.       *)
(***************************************************************************)
EXTENDS AdapterSteps

accept == Speaks

probePayload == Offers({"influx_backup_tar", "influx_backup", "influx_backup_dir"}, {})

rejectBackupTimezone == NoTimezone

selectsAMember == {"influx_backup_dir"}
backupSelection(kind) == Selection(kind \in selectsAMember)

chooseBackupIn == Host(Readable \o <<Source("no_candidate", "source_not_found")>>)

readBackupDir == Host(Readable \o <<Request("is_file", "invalid_request")>> \o Unreadable)
chooseManifest == Host(<<Source("no_manifest", "source_corrupt"), Source("undated_manifest", "source_corrupt")>>)
parseManifestBytes ==
  <<Source("manifest_damaged", "source_corrupt"), Source("version_1_backup", "unsupported_source"),
    Source("other_manifest_version", "unsupported_source"), Source("no_kv", "source_corrupt"),
      Source("no_buckets", "source_corrupt")>>
parseManifest == Host(Unreadable \o <<Source("manifest_too_large", "source_corrupt")>> \o parseManifestBytes)
memberFiles == Host(<<Source("member_missing", "source_corrupt")>>)
memberChecksum == Hash(Unreadable)
resolveBackupDir == readBackupDir \o chooseManifest \o parseManifest \o memberFiles \o memberChecksum

\* An archive the pass cannot read to its end is opaque: nothing is said about it
\* here, and its manifest is recovered from the sandbox.
listTarBackup == Host(<<Source("too_much_kept", "source_corrupt")>>)
chooseTarManifest == chooseManifest
tarCompleteness == Host(<<Source("member_missing", "source_corrupt")>>)
resolveTar(opaque) ==
  Host(Readable \o <<Request("is_directory", "invalid_request")>>) \o listTarBackup
  \o When(~opaque, chooseTarManifest \o Host(parseManifestBytes) \o tarCompleteness) \o Hash(Unreadable)

resolveSource(kind, opaque) ==
  backupSelection(kind)
  \o CASE kind = "influx_backup_tar" -> resolveTar(opaque)
       [] kind = "influx_backup"     -> resolveBackupDir
       [] kind = "influx_backup_dir" -> chooseBackupIn \o resolveBackupDir
       [] OTHER                      -> Host(<<Request(Always, "unsupported_source")>>)

connectionOrg ==
  Host(Unless("manifest_unread",
              <<Request("org_unknown", "invalid_request"), Request("org_ambiguous", "invalid_request")>>))
checkKnownOrgs(opaque) == When(~opaque, connectionOrg)

checkEngine ==
  Exec(<<Sandbox("no_influxd", "invalid_request"), Sandbox("other_generation", "invalid_request")>>)
  \o Exec(<<Sandbox("no_influx_cli", "invalid_request")>>)

makeDirectory == Exec(<<Tool("internal")>>)
stageBackup == makeDirectory \o Put(<<>>)
stageTarball ==
  makeDirectory \o Put(<<>>) \o Exec(<<Source("archive_damaged", "source_corrupt")>>)
  \o Exec(<<Source("no_manifest", "source_corrupt")>>)

\* A manifest that cannot be recovered is no verdict, one of another version is.
recoverOrgs ==
  Exec(Unless("manifest_unread",
              <<Source("version_1_backup", "unsupported_source"),
                Source("other_manifest_version", "unsupported_source")>>))
stageArtifact(tarball, opaque) == (IF tarball THEN stageTarball ELSE stageBackup) \o When(opaque, recoverOrgs)

retentionCheckInterval == {"retention"}
describeStartFailure == <<Sandbox("start_error_logged", "restore_failed")>>
awaitEngine == Await(describeStartFailure)
startEngine == Start(retentionCheckInterval, <<Tool("restore_failed")>>) \o awaitEngine
setupInstance == Exec(<<Tool("restore_failed")>>)

execRestore ==
  Load(<<Source("manifest_damaged", "source_corrupt"), Source("damaged", "source_corrupt"),
         Source("no_kv", "restore_failed"), Source("member_missing", "restore_failed"), Tool("restore_failed")>>)

\* A listing that fails is passed over, and so is a manifest that was not recovered.
checkBucketCensus ==
  Exec(Unless("buckets_unread", Unless("manifest_unread", <<Source("bucket_missing", "source_corrupt")>>)))

opProvision(kind, opaque) ==
  Payload \o NoPITR \o rejectBackupTimezone \o resolveSource(kind, opaque) \o checkKnownOrgs(opaque) \o checkEngine
  \o stageArtifact(kind = "influx_backup_tar", opaque) \o connectionOrg \o startEngine \o setupInstance
    \o execRestore
  \o checkBucketCensus

opHealthcheck == Payload \o Ask

variants == (probePayload.kinds \X {{}}) \cup {<<"influx_backup_tar", {"opaque"}>>}

plans ==
  [v \in variants |->
     Plan(accept \o opProvision(v[1], v[2] # {}), opHealthcheck,
          HeldBy(retentionCheckInterval), "no")]
=============================================================================
