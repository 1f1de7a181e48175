----------------------------- MODULE AdaptersFile -----------------------------
(***************************************************************************)
(* The adapters of the embedded databases: a file is placed, or made from  *)
(* a dump, and opened; there is no server.                                 *)
(***************************************************************************)
EXTENDS AdapterSteps

\* What the adapters do alike, each in code of its own.

accept == Speaks
assertSettled == Settle(Readable)
refuseDirectory == Host(Readable \o <<Request("is_directory", "invalid_request")>>)
prepareWorkDir == Exec(<<Tool("internal")>>)
opHealthcheck == Payload \o Ask
rejectBackupTimezone == NoTimezone
statAndHead == Host(Readable)
refuseGzip == <<Source("gzip", "unsupported_source")>>
fileChecksum == Hash(Unreadable)

----------------------------------------------------------------------------
(***************************************************************************)
(* adapters/sqlite: a database file that is placed and read through once,  *)
(* or a dump that is replayed into a fresh file. There is no server.       *)
(***************************************************************************)

sqlite_probePayload == Offers({"sqlite_db", "sqlite_db_dir", "sqlite_dump", "sqlite_dump_dir"}, {})

sqlite_selectsAMember == {"sqlite_db_dir", "sqlite_dump_dir"}
sqlite_backupSelection(kind) == Selection(kind \in sqlite_selectsAMember)

chooseWhereUnsettled ==   \* mutant: the choice is not waited for
  Host(Readable \o <<Source("no_candidate", "source_not_found")>>)

\* Only files with the SQLite magic are candidates; a directory of dumps has no
\* magic to go by and ranks every file.  What is chosen must have settled.
chooseWhere == Host(Readable \o <<Source("no_candidate", "source_not_found")>>) \o assertSettled

\* Every refusal precedes the checksum.
sqlite_resolveDatabase ==
  Host(<<Source("gzip", "unsupported_source"), Request("dump_text", "invalid_request"),
         Source("empty", "source_corrupt"), Source("live_siblings", "unsupported_source")>>)
  \o Hash(Unreadable)

\* A file with the dump's opening line must also have its closing one.
resolveDump ==
  Host(<<Source("gzip", "unsupported_source"), Request("database_file", "invalid_request"),
         Source("empty", "source_corrupt"), Source("no_trailer", "source_corrupt")>>)
  \o Hash(Unreadable)

sqlite_resolveSource(kind) ==
  sqlite_backupSelection(kind)
  \o CASE kind = "sqlite_db"       -> refuseDirectory \o sqlite_resolveDatabase
       [] kind = "sqlite_db_dir"   -> chooseWhere \o sqlite_resolveDatabase
       [] kind = "sqlite_dump"     -> refuseDirectory \o resolveDump
       [] kind = "sqlite_dump_dir" -> chooseWhere \o resolveDump
       [] OTHER                    -> Host(<<Request(Always, "unsupported_source")>>)

sqlite_checkEngine == Exec(<<Sandbox("no_sqlite3", "invalid_request")>>)

\* PRAGMA integrity_check walks every page of the placed file; it exits 0 on a file
\* it found damaged, so the script turns its output into an exit status.
sqlite_placeDatabase == Put(<<>>) \o Load(<<Source("damaged", "source_corrupt"), Tool("source_corrupt")>>)

\* With -bail the first statement that fails ends the replay.
replayDump == Put(<<>>) \o Load(<<Source("cut_in_statement", "source_corrupt"), Tool("restore_failed")>>)

sqlite_opProvision(kind) ==
  Payload \o NoPITR \o NoTimezone \o sqlite_resolveSource(kind) \o sqlite_checkEngine \o prepareWorkDir
  \o (IF kind \in {"sqlite_dump", "sqlite_dump_dir"} THEN replayDump ELSE sqlite_placeDatabase)

sqlite_plans ==
  [v \in sqlite_probePayload.kinds \X {{}} |->
     Plan(accept \o sqlite_opProvision(v[1]), opHealthcheck,
          {}, IF v[1] \in sqlite_selectsAMember THEN "first" ELSE "no")]

----------------------------------------------------------------------------
(***************************************************************************)
(* adapters/duckdb: a database file, on its own or the newest of a         *)
(* directory, that is placed and opened; or an export that is imported     *)
(* into a fresh file. There is no server.                                  *)
(***************************************************************************)

duckdb_probePayload == Offers({"duckdb_db", "duckdb_db_dir", "duckdb_export"}, {})

duckdb_selectsAMember == {"duckdb_db_dir"}
duckdb_backupSelection(kind) == Selection(kind \in duckdb_selectsAMember)

refuseDirectoryForFileKind == Host(Readable \o <<Request("is_directory", "invalid_request")>>)

\* A write-ahead log beside the file: the engine opens the file without it and
\* misses every transaction in it.
refuseLiveCopy == <<Source("live_wal", "unsupported_source")>>

duckdb_resolveDatabase == statAndHead \o Host(refuseGzip \o refuseLiveCopy) \o fileChecksum

dirChecksum == Hash(Unreadable)
resolveExport ==
  Host(Readable \o <<Request("is_file", "invalid_request"), Source("no_schema", "source_corrupt")>>) \o dirChecksum

\* Only files with the magic of the engine are candidates.
chosenDatabaseIn == Host(Readable \o <<Source("no_candidate", "source_not_found")>>) \o assertSettled

duckdb_resolveSource(kind) ==
  duckdb_backupSelection(kind)
  \o CASE kind = "duckdb_db"     -> refuseDirectoryForFileKind \o duckdb_resolveDatabase
       [] kind = "duckdb_db_dir" -> chosenDatabaseIn \o duckdb_resolveDatabase
       [] kind = "duckdb_export" -> resolveExport
       [] OTHER                  -> Host(<<Request(Always, "unsupported_source")>>)

duckdb_checkEngine == Exec(<<Sandbox("no_duckdb", "invalid_request")>>)

\* A file of a newer storage format asks for a newer image; any other refusal of the
\* engine is the file's.
mapOpenFailure ==
  <<Sandbox("older_engine", "invalid_request"), Source("damaged", "source_corrupt"), Tool("source_corrupt")>>
duckdb_placeDatabase == prepareWorkDir \o Put(<<>>) \o Load(mapOpenFailure)

exportFiles == Host(Unreadable)
importExport ==
  prepareWorkDir \o exportFiles \o Put(<<>>)
  \o Load(<<Source("data_file_missing", "source_corrupt"), Tool("restore_failed")>>)

restoreArtifact(kind) == IF kind = "duckdb_export" THEN importExport ELSE duckdb_placeDatabase

duckdb_opProvision(kind) ==
  Payload \o NoPITR \o rejectBackupTimezone \o duckdb_resolveSource(kind) \o duckdb_checkEngine
    \o restoreArtifact(kind)

duckdb_plans ==
  [v \in duckdb_probePayload.kinds \X {{}} |->
     Plan(accept \o duckdb_opProvision(v[1]), opHealthcheck,
          {}, IF v[1] \in duckdb_selectsAMember THEN "first" ELSE "no")]

----------------------------------------------------------------------------
(***************************************************************************)
(* adapters/h2: a database file, or the archive BACKUP TO writes, on their *)
(* own or the newest of a directory. There is no server: the file is       *)
(* placed, or unpacked, and opened.                                        *)
(***************************************************************************)

h2_probePayload == Offers({"h2_db", "h2_db_dir", "h2_backup", "h2_backup_dir"}, {})

h2_selectsAMember == {"h2_db_dir", "h2_backup_dir"}
h2_backupSelection(kind) == Selection(kind \in h2_selectsAMember)

\* A variable the drill does not declare is one the sandbox will not have.
resolvePasswordEnv == Host(<<Request("undeclared_password", "invalid_request")>>)

refuseEmpty == <<Source("empty", "source_corrupt")>>
refuseForeignFormat == <<Source("foreign_format", "unsupported_source")>>

zipHoldsDatabase == <<Source("zip_unreadable", "source_corrupt"), Source("no_database_inside", "source_corrupt")>>
resolveArchive ==
  statAndHead
  \o Host(refuseEmpty \o <<Request("database_file", "invalid_request"), Source("not_a_zip", "unsupported_source")>>
          \o zipHoldsDatabase)
  \o fileChecksum

h2_resolveDatabase ==
  statAndHead \o Host(refuseGzip \o <<Request("archive_file", "invalid_request")>> \o refuseEmpty
    \o refuseForeignFormat)
  \o fileChecksum

\* Only files with the magic of the kind are candidates.
chooseIn == Host(Readable \o <<Source("no_candidate", "source_not_found")>>) \o assertSettled

h2_resolveSource(kind) ==
  h2_backupSelection(kind)
  \o CASE kind = "h2_backup"     -> refuseDirectory \o resolveArchive
       [] kind = "h2_backup_dir" -> chooseIn \o resolveArchive
       [] kind = "h2_db"         -> refuseDirectory \o h2_resolveDatabase
       [] kind = "h2_db_dir"     -> chooseIn \o h2_resolveDatabase
       [] OTHER                  -> Host(<<Request(Always, "unsupported_source")>>)

h2_checkEngine == Exec(<<Sandbox("no_h2_jar", "invalid_request")>>)
place(kind) ==
  IF kind \in {"h2_backup", "h2_backup_dir"}
    THEN Put(<<>>) \o Load(<<Source("archive_damaged", "source_corrupt"), Tool("source_corrupt")>>)
    ELSE Place(<<>>)

\* The engine falls back to an older state of a damaged file without a word, and a
\* query that fails prints its error and exits 0: the tables are counted.
assertRestored ==
  Exec(<<Source("does_not_open", "source_corrupt"), Source("no_tables", "source_corrupt"), Tool("source_corrupt")>>)

h2_opProvision(kind) ==
  Payload \o NoPITR \o rejectBackupTimezone \o resolvePasswordEnv \o h2_resolveSource(kind) \o h2_checkEngine
  \o prepareWorkDir \o place(kind) \o assertRestored

h2_plans ==
  [v \in h2_probePayload.kinds \X {{}} |->
     Plan(accept \o h2_opProvision(v[1]), opHealthcheck,
          {}, IF v[1] \in h2_selectsAMember THEN "first" ELSE "no")]

----------------------------------------------------------------------------
(***************************************************************************)
(* adapters/firebird: a gbak backup, or the newest of a directory,         *)
(* restored into a file that the embedded engine then opens.               *)
(***************************************************************************)

firebird_probePayload == Offers({"firebird_gbak", "firebird_gbak_dir"}, {})

firebird_selectsAMember == {"firebird_gbak_dir"}
firebird_backupSelection(kind) == Selection(kind \in firebird_selectsAMember)

\* The header's clock is a wall clock, which a zone that exists turns into an instant.
backupLocation == Host(<<Request("unknown_zone", "invalid_request")>>)

resolveBackup == Host(Readable \o <<Request("is_directory", "invalid_request")>>) \o fileChecksum
chooseBackupIn == Host(Readable \o <<Source("no_candidate", "source_not_found")>>) \o assertSettled

firebird_resolveSource(kind) ==
  backupLocation \o firebird_backupSelection(kind)
  \o CASE kind = "firebird_gbak"     -> resolveBackup
       [] kind = "firebird_gbak_dir" -> chooseBackupIn \o resolveBackup
       [] OTHER                      -> Host(<<Request(Always, "unsupported_source")>>)

firebird_checkEngine == Exec(<<Sandbox("no_gbak", "invalid_request")>>)

\* gbak leaves a file that opens when it fails half way, so the script removes it.
restoreCorruptMarkers == <<Source("truncated", "source_corrupt"), Source("damaged", "source_corrupt")>>
mapRestoreFailure == restoreCorruptMarkers \o <<Tool("restore_failed")>>
restoreBackup == Put(<<>>) \o Load(mapRestoreFailure)

assertServing == Exec(<<Source("does_not_open", "restore_failed"), Tool("restore_failed")>>)

firebird_opProvision(kind) ==
  Payload \o NoPITR \o firebird_resolveSource(kind) \o firebird_checkEngine \o prepareWorkDir
    \o restoreBackup \o assertServing

firebird_plans ==
  [v \in firebird_probePayload.kinds \X {{}} |->
     Plan(accept \o firebird_opProvision(v[1]), opHealthcheck,
          {}, IF v[1] \in firebird_selectsAMember THEN "first" ELSE "no")]
=============================================================================
