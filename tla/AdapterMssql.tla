------------------------------ MODULE AdapterMssql ------------------------------
(***************************************************************************)
(* adapters/mssql: native backup media, restored by the server itself.     *)
(* What a file holds is read from its headers in the sandbox (RESTORE      *)
(* HEADERONLY), so the candidates of a directory are transferred and       *)
(* probed before one is chosen; a chain is put together from the log       *)
(* sequence numbers the headers carry.                                     *)
(***************************************************************************)
EXTENDS AdapterSteps

accept == Speaks

probePayload == Offers({"bak", "bak_dir", "bak_with_logins", "bak_chain"}, {})

parseProvisionTarget == NoPITR \o Host(<<Request("bad_name", "invalid_request")>>)
backupLocation == Host(<<Request("timezone_unknown", "invalid_request")>>)

\* A backup that is named outright leaves nothing to select.
selectsAMember == {"bak_dir", "bak_with_logins", "bak_chain"}
backupSelection(kind, named) == Selection(kind \in selectsAMember /\ ~named)

mustBeFile == Host(Readable \o <<Request("is_directory", "invalid_request")>>)
memberName == Host(<<Request("bad_member_name", "invalid_request")>>)
statRegularFile == Host(Readable \o <<Request("member_is_directory", "invalid_request")>>)

\* A file that does not begin like backup media is passed over, and named if none is.
candidatesIn == Host(Readable \o <<Source("no_files", "source_not_found")>>)

planWithLogins(named) ==
  Host(Readable \o <<Request("is_file", "invalid_request")>>) \o memberName \o statRegularFile
  \o IF named THEN memberName \o statRegularFile ELSE candidatesIn

resolveSource(kind, named) ==
  backupLocation \o backupSelection(kind, named)
  \o CASE kind = "bak"             -> mustBeFile
       [] kind = "bak_dir"         -> candidatesIn
       [] kind = "bak_chain"       -> candidatesIn \o Host(<<Request("bad_database_name", "invalid_request")>>)
       [] kind = "bak_with_logins" -> planWithLogins(named)
       [] OTHER                    -> Host(<<Request(Always, "unsupported_source")>>)

writeInitFile == Exec(<<Tool("internal")>>)
awaitEngine == Await(<<>>)

\* A server that answers is used as it is.
ensureEngine(running) ==
  Exec(<<Sandbox("login_refused", "invalid_request")>>)
  \o When(~running, Start({}, <<Sandbox("start_refused", "invalid_request")>>) \o awaitEngine)

mapRestoreFailure == <<Source("not_media", "source_corrupt"), Tool("restore_failed")>>

\* A row whose columns do not line up is refused rather than guessed at.
parseBackupSets == <<Source("header_unreadable", "source_corrupt")>>
probeBackupSets == Exec(mapRestoreFailure \o parseBackupSets)

assertSettled == Settle(Readable)
noFullBackup == <<Source("no_full_backup", "source_not_found")>>

\* An answer without a row leaves the media to the restore, but a chain has no member
\* without one.
selectNamed ==
  Put(<<>>) \o probeBackupSets \o Host(Unless("header_silent", <<Source("no_full_backup", "invalid_request")>>))
selectBackup(fixed) ==
  IF fixed THEN selectNamed
           ELSE Put(<<>>) \o probeBackupSets \o Host(Unless("header_silent", noFullBackup)) \o assertSettled
                \o Put(<<>>)

\* The checksum is taken once the transfer has told which candidate it is of.
identity == statRegularFile \o Hash(Unreadable)
chainIdentity == statRegularFile \o Hash(Unreadable)

checkEngineVersion == Exec(Unless("version_unread", <<Sandbox("older_major", "invalid_request")>>))
selectAndVet(fixed) == selectBackup(fixed) \o identity \o checkEngineVersion

\* sqlcmd goes on past an error of the logins script, so its messages are read: only
\* a collision with a principal of the image itself is passed over.
loginsFailure == <<Source("login_not_created", "restore_failed")>>
loadLogins == Put(<<>>) \o Exec(loginsFailure \o <<Tool("restore_failed")>>)
execRestore == Load(<<Source("damaged", "restore_failed")>> \o mapRestoreFailure)
verifyLoginsCoverRestoredUsers == Exec(<<Tool("restore_failed"), Source("orphaned_user", "restore_failed")>>)

chooseDatabase(requested) ==
  Host(IF requested THEN <<Source("database_absent", "source_not_found")>>
                    ELSE <<Source("no_database_named", "source_corrupt"), Request("several_databases",
                      "invalid_request")>>)
chooseFull == Host(<<Source("no_checkpoint", "source_corrupt"), Source("no_full_backup", "source_not_found")>>)

\* The logs are walked by their sequence numbers: one that begins beyond what is
\* restored so far means that one before it is missing.
nextLog == Host(<<Source("log_gap", "source_not_found")>>)
logsFrom == nextLog
buildChain == chooseFull \o Host(<<Source("no_end_position", "source_corrupt")>>) \o logsFrom

selectChain(requested) ==
  Put(<<>>) \o probeBackupSets \o Host(noFullBackup) \o chooseDatabase(requested) \o buildChain
mapChainFailure ==
  <<Source("not_media", "source_corrupt"),
    Source("damaged", "restore_failed"), Tool("restore_failed")>>

\* Every member but the last leaves the database restoring.
execChainRestore(last) == IF last THEN Load(mapChainFailure) ELSE Exec(mapChainFailure)
restoreChain == Put(<<>>) \o execChainRestore(FALSE) \o Put(<<>>) \o execChainRestore(TRUE)
provisionChain(requested) == selectChain(requested) \o checkEngineVersion \o chainIdentity \o restoreChain

opProvision(kind, named, running) ==
  Payload \o parseProvisionTarget \o resolveSource(kind, named) \o writeInitFile \o ensureEngine(running)
  \o IF kind = "bak_chain"
       THEN provisionChain(named)
       ELSE selectAndVet(kind = "bak" \/ named)
            \o When(kind = "bak_with_logins", loadLogins) \o execRestore
            \o When(kind = "bak_with_logins", verifyLoginsCoverRestoredUsers)

opHealthcheck == Payload \o Ask

variants ==
  (probePayload.kinds \X {{}}) \cup {<<"bak_with_logins", {"named"}>>, <<"bak_chain", {"named"}>>, <<"bak", {"running"}>>}

plans ==
  [v \in variants |->
     LET named == "named" \in v[2]
     IN  Plan(accept \o opProvision(v[1], named, "running" \in v[2]), opHealthcheck,
              {}, IF v[1] \in {"bak_dir", "bak_with_logins"} /\ ~named THEN "first" ELSE "no")]
=============================================================================
