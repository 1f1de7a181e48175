--------------------------- MODULE AdapterClickhouse ---------------------------
(***************************************************************************)
(* adapters/clickhouse: a backup archive, or the newest of a directory,    *)
(* restored with RESTORE ALL into the engine of the sandbox.               *)
(***************************************************************************)
EXTENDS AdapterSteps

accept == Speaks

probePayload == Offers({"clickhouse_backup", "clickhouse_backup_dir"}, {})

selectsAMember == {"clickhouse_backup_dir"}
backupSelection(kind) == Selection(kind \in selectsAMember)

\* The manifest holds a wall clock, which a zone that exists turns into an instant.
backupLocation == Host(<<Request("unknown_zone", "invalid_request")>>)
parseProvisionTarget == NoPITR \o Host(<<Request("bad_database_name", "invalid_request")>>) \o backupLocation

assertSettled == Settle(Readable)
fileChecksum == Hash(Unreadable)
resolveFile == Host(Readable \o <<Request("is_directory", "invalid_request")>>) \o fileChecksum

\* Only archives with a readable manifest are candidates; an archive without one that
\* is newer than the newest of them may be the backup that was meant.
refuseNewerUnreadable == <<Source("newer_unreadable", "source_unreadable")>>
chooseBackupIn(newest) ==
  Host(Readable \o <<Source("no_candidate", "source_not_found")>> \o When(newest, refuseNewerUnreadable))
  \o assertSettled

resolveSource(kind, newest) ==
  backupSelection(kind)
  \o CASE kind = "clickhouse_backup"     -> resolveFile
       [] kind = "clickhouse_backup_dir" -> chooseBackupIn(newest) \o resolveFile
       [] OTHER                          -> Host(<<Request(Always, "unsupported_source")>>)

awaitEngine == Await(<<>>)

\* Where the engine keeps backups is asked of it, with a default for no answer.
backupDir == Exec(<<>>)
prepareBackupDir == Exec(<<Tool("restore_failed")>>)

\* TTL merges can only be stopped for tables that exist: the structure comes first,
\* the order next and the data last.  The engine says RESTORED of an archive without
\* a table too, so they are counted.
ttlMerges == {"ttl_merges"}
mapRestoreFailure ==
  <<Source("not_restored", "restore_failed"), Source("archive_damaged", "source_corrupt"),
    Sandbox("backups_not_allowed", "restore_failed"), Tool("restore_failed")>>
refusedPin == <<Sandbox("pin_refused", "invalid_request")>>
emptyRestore == <<Source("no_tables", "restore_failed")>>
restoreScript ==
  Exec(mapRestoreFailure) \o Fence(ttlMerges, refusedPin) \o Load(mapRestoreFailure) \o Exec(emptyRestore)
execRestore == restoreScript

opProvision(kind, newest) ==
  Payload \o parseProvisionTarget \o resolveSource(kind, newest) \o awaitEngine \o backupDir \o prepareBackupDir
  \o Put(<<>>) \o execRestore

opHealthcheck == Payload \o Ask

\* An option "random" is a selection policy under which no archive is the newest.
variants == (probePayload.kinds \X {{}}) \cup {<<"clickhouse_backup_dir", {"random"}>>}

plans ==
  [v \in variants |->
     Plan(accept \o opProvision(v[1], v[2] = {}), opHealthcheck,
          HeldBy(ttlMerges), IF v[1] \in selectsAMember THEN "first" ELSE "no")]
=============================================================================
