---------------------------- MODULE AdaptersRedis -----------------------------
(***************************************************************************)
(* The adapters of the Redis family: the same tools and formats, each with *)
(* a dialect the other does not load.                                      *)
(***************************************************************************)
EXTENDS AdapterSteps

\* What the adapters do alike, each in code of its own.

accept == Speaks
assertSettled == Settle(Readable)

\* The head of an RDB.  One that does not parse states nothing.
readRDBMeta(fact, code) == <<Source(fact, code)>>

refuseGzip == Host(Unreadable \o <<Source("gzip", "unsupported_source")>>)
refuseDirectory == Host(Readable \o <<Request("is_directory", "invalid_request")>>)

\* Files without an RDB head are passed over; what is chosen must have settled.
chooseRDBIn == Host(Readable \o <<Source("no_candidate", "source_not_found")>>) \o assertSettled

readAOFDir == Host(Readable \o <<Request("is_file", "invalid_request")>>)
findManifest ==
  Host(<<Source("two_manifests", "source_corrupt"), Request("manifest_in_subdirectory", "invalid_request"),
         Source("no_manifest", "source_corrupt")>>)

parseAOFManifest == Host(Unreadable \o <<Source("broken_manifest", "source_corrupt")>>)

\* The manifest says which files the set must hold.
resolveAOFDir ==
  readAOFDir \o findManifest \o parseAOFManifest
    \o Host(<<Source("member_missing", "source_corrupt")>>)

aofChecksum == Hash(Unreadable)
checkEngineVersion == Host(Unless("version_unread", readRDBMeta("newer_than_the_engine", "invalid_request")))
prepareDir == Exec(<<Tool("internal")>>)
checkRDB == Exec(<<Source("damaged", "source_corrupt"), Tool("source_corrupt")>>)

\* A start that never answers is explained by the server's own log.
describeStartFailure == <<Sandbox("server_refused", "restore_failed")>>

awaitEngine == Await(describeStartFailure)
startEngine == Start({}, <<Tool("restore_failed")>>) \o awaitEngine
opHealthcheck == Payload \o Ask

\* Option "ttl" is an append-only set all of whose keys are past their instant: the
\* expiry cycle of the started server takes them, and the adapter has no order for it.
expiryCycle(options) == IF "ttl" \in options THEN {Unheld} ELSE {}

----------------------------------------------------------------------------
(***************************************************************************)
(* adapters/redis: one RDB file, a directory of them, or a copied          *)
(* append-only directory, staged where the server looks for it, vetted by  *)
(* the engine's own checker and loaded by starting the server on it.       *)
(***************************************************************************)

redis_probePayload == Offers({"redis_rdb", "redis_rdb_dir", "redis_aof"}, {})

redis_selectsAMember == {"redis_rdb_dir"}
redis_backupSelection(kind) == Selection(kind \in redis_selectsAMember)

\* Only what the head states is held against the backup: the aux field or the magic
\* that Valkey alone writes.
refuseValkeyDialect == Host(readRDBMeta("valkey_dialect", "unsupported_source"))

redis_resolveFile == Host(Readable) \o refuseGzip \o refuseValkeyDialect \o Hash(Unreadable)

redis_resolveAOF == resolveAOFDir \o refuseValkeyDialect \o aofChecksum

redis_resolveSource(kind) ==
  redis_backupSelection(kind)
  \o CASE kind = "redis_rdb"     -> refuseDirectory \o redis_resolveFile
       [] kind = "redis_rdb_dir" -> chooseRDBIn \o redis_resolveFile
       [] kind = "redis_aof"     -> redis_resolveAOF
       [] OTHER           -> Host(<<Request(Always, "unsupported_source")>>)

redis_checkEngine == Exec(<<Sandbox("no_server", "invalid_request"), Sandbox("valkey_server", "invalid_request")>>)
checkAOF == Exec(<<Source("damaged", "source_corrupt"), Tool("source_corrupt")>>)
redis_stageArtifact(kind) ==
  prepareDir \o Place(<<>>) \o (IF kind = "redis_aof" THEN checkAOF ELSE checkRDB)

\* The server's account of the load against what it serves now.  A key of an RDB past
\* its instant is dropped while the file is read; a key of an append-only set is
\* loaded, counted, and taken by the expiry cycle some time later.
redis_readKeyCensus(kind) ==
  Exec(Unless("census_unread",
              <<Source(IF kind = "redis_aof" THEN "expired" ELSE "all_keys_expired", "restore_failed")>>))

redis_opProvision(kind) ==
  Payload \o NoPITR \o NoTimezone \o redis_resolveSource(kind) \o redis_checkEngine \o checkEngineVersion
  \o redis_stageArtifact(kind) \o startEngine \o redis_readKeyCensus(kind)

redis_settles(kind) == IF kind \in redis_selectsAMember THEN "first" ELSE "no"

redis_plans ==
  [v \in (redis_probePayload.kinds \X {{}}) \cup {<<"redis_aof", {"ttl"}>>} |->
     Plan(accept \o redis_opProvision(v[1]), opHealthcheck, expiryCycle(v[2]), redis_settles(v[1]))]

----------------------------------------------------------------------------
(***************************************************************************)
(* adapters/valkey: one RDB file, a directory of them, or a copied         *)
(* append-only directory, staged where the server looks for it, vetted by  *)
(* the engine's own checker and loaded by starting the server on it.       *)
(***************************************************************************)

valkey_probePayload == Offers({"valkey_rdb", "valkey_rdb_dir", "valkey_aof"}, {})

valkey_selectsAMember == {"valkey_rdb_dir"}
valkey_backupSelection(kind) == Selection(kind \in valkey_selectsAMember)

\* Only what the head states is held against the backup: the aux field that Redis
\* alone writes, or a format version no Valkey loads and its checker passes.
refuseRedisDialect ==
  Host(readRDBMeta("redis_dialect", "unsupported_source") \o readRDBMeta("redis_format", "unsupported_source"))

valkey_resolveFile == Host(Readable) \o refuseGzip \o refuseRedisDialect \o Hash(Unreadable)

valkey_resolveAOF == resolveAOFDir \o refuseRedisDialect \o aofChecksum

valkey_resolveSource(kind) ==
  valkey_backupSelection(kind)
  \o CASE kind = "valkey_rdb"     -> refuseDirectory \o valkey_resolveFile
       [] kind = "valkey_rdb_dir" -> chooseRDBIn \o valkey_resolveFile
       [] kind = "valkey_aof"     -> valkey_resolveAOF
       [] OTHER            -> Host(<<Request(Always, "unsupported_source")>>)

valkey_checkEngine == Exec(<<Sandbox("no_server", "invalid_request"), Sandbox("redis_server", "invalid_request")>>)

\* The base and every incremental segment on its own, with the tool of its format.
checkAOFMember == Exec(<<Source("damaged", "source_corrupt"), Tool("source_corrupt")>>)
checkAOFSet == checkAOFMember \o checkAOFMember
valkey_stageArtifact(kind) ==
  prepareDir \o Place(<<>>) \o (IF kind = "valkey_aof" THEN checkAOFSet ELSE checkRDB)

\* The server's account of the load against what it serves now.  A key of an RDB past
\* its instant is dropped while the file is read; a key of an append-only set is
\* loaded, counted, and taken by the expiry cycle some time later.
valkey_readKeyCensus(kind) ==
  Exec(Unless("census_unread",
              <<Source(IF kind = "valkey_aof" THEN "expired" ELSE "all_keys_expired", "restore_failed")>>))

valkey_opProvision(kind) ==
  Payload \o NoPITR \o NoTimezone \o valkey_resolveSource(kind) \o valkey_checkEngine \o checkEngineVersion
  \o valkey_stageArtifact(kind) \o startEngine \o valkey_readKeyCensus(kind)

valkey_settles(kind) == IF kind \in valkey_selectsAMember THEN "first" ELSE "no"

valkey_plans ==
  [v \in (valkey_probePayload.kinds \X {{}}) \cup {<<"valkey_aof", {"ttl"}>>} |->
     Plan(accept \o valkey_opProvision(v[1]), opHealthcheck,
          expiryCycle(v[2]), valkey_settles(v[1]))]
=============================================================================
