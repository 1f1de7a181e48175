----------------------------- MODULE AdapterNeo4j -----------------------------
(***************************************************************************)
(* adapters/neo4j: a dump, or the newest of a directory, loaded with       *)
(* neo4j-admin before the adapter starts the engine on it.                 *)
(***************************************************************************)
EXTENDS AdapterSteps

accept == Speaks

probePayload == Offers({"neo4j_dump", "neo4j_dump_dir"}, {})

selectsAMember == {"neo4j_dump_dir"}
backupSelection(kind) == Selection(kind \in selectsAMember)

rejectBackupTimezone == NoTimezone
parseProvisionTarget == NoPITR \o rejectBackupTimezone \o Host(<<Request("bad_database_name", "invalid_request")>>)

assertSettled == Settle(Readable)
fileChecksum == Hash(Unreadable)
resolveFile == Host(Readable \o <<Request("is_directory", "invalid_request")>>) \o fileChecksum
chooseDumpIn == Host(Readable \o <<Source("no_candidate", "source_not_found")>>) \o assertSettled

resolveSource(kind) ==
  backupSelection(kind)
  \o CASE kind = "neo4j_dump"     -> resolveFile
       [] kind = "neo4j_dump_dir" -> chooseDumpIn \o resolveFile
       [] OTHER                   -> Host(<<Request(Always, "unsupported_source")>>)

\* The name of the host must resolve, or the engine does not start; the password can
\* only be set before its first start.
prepareEngine ==
  Exec(<<Sandbox("hosts_read_only", "engine_not_ready")>>)
  \o Exec(<<Sandbox("no_toolchain", "invalid_request")>>)
  \o Exec(<<Tool("sandbox_error")>>)
  \o Exec(<<Sandbox("password_refused", "engine_not_ready")>>)

readArchive == Exec(<<Source("no_archive", "source_corrupt"), Tool("source_corrupt")>>)

mapLoadFailure == <<Source("archive_rejected", "source_corrupt"), Tool("restore_failed")>>
loadArchive == Load(mapLoadFailure)

\* A query on a database the engine did not mount is answered by another one, so the
\* system database is asked whether this one is there and online.
awaitServing ==
  Await(<<Source("not_mounted", "restore_failed"), Source("not_online", "restore_failed"), Tool("restore_failed")>>)
startEngine == Start({}, <<Tool("engine_not_ready")>>) \o awaitServing

opProvision(kind) ==
  Payload \o parseProvisionTarget \o resolveSource(kind) \o prepareEngine \o Put(<<>>) \o readArchive \o loadArchive
  \o startEngine

opHealthcheck == Payload \o Ask

plans ==
  [v \in probePayload.kinds \X {{}} |->
     Plan(accept \o opProvision(v[1]), opHealthcheck,
          {}, IF v[1] \in selectsAMember THEN "first" ELSE "no")]
=============================================================================
