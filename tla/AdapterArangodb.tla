---------------------------- MODULE AdapterArangodb ----------------------------
(***************************************************************************)
(* adapters/arangodb: an arangodump directory, as it is, in a tar archive  *)
(* or chosen among several, restored with arangorestore into a server the  *)
(* adapter starts.  An archive the drill host cannot walk ("opaque") is    *)
(* judged in the sandbox alone.                                            *)
(***************************************************************************)
EXTENDS AdapterSteps

accept == Speaks

probePayload == Offers({"arangodb_dump", "arangodb_dump_tar", "arangodb_dump_dir"}, {})

selectsAMember == {"arangodb_dump_dir"}
backupSelection(kind) == Selection(kind \in selectsAMember)

judgeName == <<Source("bad_database_name", "invalid_request")>>

\* arangodump writes a structure and a data file for every collection, even for an
\* empty one: half a pair is half a dump.
judgePairs ==
  <<Source("data_missing", "source_corrupt"), Source("structure_missing", "source_corrupt"),
    Source("no_collection_in_dump", "source_corrupt")>>

judgeDump ==
  <<Source("encrypted", "unsupported_source"), Source("no_manifest", "source_corrupt"),
    Source("no_database", "source_corrupt")>>
  \o judgeName \o judgePairs

inspectDumpDir == Host(Unreadable \o judgeDump)
inspectDumpTar == Host(<<Source("too_many_entries", "source_corrupt")>> \o judgeDump)

dirChecksum == Hash(Unreadable \o <<Source("no_files", "source_not_found")>>)
fileChecksum == Hash(Unreadable)

resolveDir == Host(Readable \o <<Request("is_file", "invalid_request")>>) \o inspectDumpDir \o dirChecksum

resolveTar(opaque) ==
  Host(Readable \o <<Request("is_directory", "invalid_request")>>)
  \o When(~opaque, inspectDumpTar) \o fileChecksum

\* A candidate that cannot be judged still ranks, by its time, behind those that can.
chooseDumpIn == Host(Readable \o <<Source("no_candidate", "source_not_found")>>)

resolveSource(kind, opaque) ==
  backupSelection(kind)
  \o CASE kind = "arangodb_dump"     -> resolveDir
       [] kind = "arangodb_dump_tar" -> resolveTar(opaque)
       [] kind = "arangodb_dump_dir" -> chooseDumpIn \o resolveDir
       [] OTHER                      -> Host(<<Request(Always, "unsupported_source")>>)

parseProvisionRequest == Payload \o NoPITR \o NoTimezone
checkEngine == Exec(<<Sandbox("no_arangodb_tools", "invalid_request")>>)

mkdirAll == Exec(<<Tool("internal")>>)

\* Where the dump is in the archive is looked up; not finding it falls back to the top.
unpackArchive == mkdirAll \o Put(<<>>) \o Exec(<<Source("broken_archive", "source_corrupt")>>) \o Exec(<<>>)
transferDir == Host(Unreadable) \o mkdirAll \o Put(<<>>)
transferArtifact(kind) == IF kind = "arangodb_dump_tar" THEN unpackArchive ELSE transferDir

writeRunner == Exec(<<Tool("internal")>>)

\* --ttl.frequency 0: the thread that deletes expired documents never runs.
engineArgs == {"ttl"}
describeStartFailure == <<Source("start_refused", "restore_failed")>>
awaitReady == Await(describeStartFailure)
startEngine == Start(engineArgs, <<Tool("restore_failed")>>) \o awaitReady

databaseFromDump == Exec(<<Source("no_database", "source_corrupt")>> \o judgeName)

restoreDump == Load(<<Source("restore_refused", "source_corrupt")>>)

\* arangorestore reports success for a dump it restored nothing of.
countCollections == Exec(<<Tool("restore_failed"), Source("nothing_restored", "source_corrupt")>>)

opProvision(kind, opaque) ==
  parseProvisionRequest \o resolveSource(kind, opaque) \o checkEngine \o transferArtifact(kind)
  \o writeRunner \o startEngine \o When(opaque, databaseFromDump) \o restoreDump \o countCollections

opHealthcheck == Payload \o Ask

plans ==
  [v \in (probePayload.kinds \X {{}}) \cup {<<"arangodb_dump_tar", {"opaque"}>>} |->
     LET opaque == "opaque" \in v[2]
     IN  Plan(accept \o opProvision(v[1], opaque), opHealthcheck, HeldBy(engineArgs), "no")]
=============================================================================
