---------------------------- MODULE AdapterAerospike ----------------------------
(***************************************************************************)
(* adapters/aerospike: one asbackup file, or a directory of the files of   *)
(* one backup, restored with asrestore into an engine that the adapter     *)
(* starts with its own configuration.                                      *)
(***************************************************************************)
EXTENDS AdapterSteps

accept == Speaks

probePayload == Offers({"asbackup", "asbackup_dir"}, {})

dataSizePattern == Host(<<Request("bad_data_size", "invalid_request")>>)

assertSettled == Settle(Readable)

\* The header names the namespace; the first-file marker tells a backup from a
\* fragment of one.
resolveFile ==
  Host(Readable \o <<Request("is_directory", "invalid_request")>>)
  \o Host(Unreadable \o <<Source("gzip", "unsupported_source"), Source("no_header", "unsupported_source"),
                          Source("no_first_file", "source_corrupt")>>)
  \o assertSettled \o Hash(Unreadable)

\* Every file that opens like a backup must be of the same namespace and must have
\* settled; the others are passed over.
scanDir ==
  Host(Unreadable \o <<Source("two_namespaces", "source_corrupt")>>)
  \o assertSettled

treeIdentity == Hash(Unreadable)

resolveDir ==
  Host(Readable \o <<Request("is_file", "invalid_request")>>)
  \o scanDir
  \o Host(<<Source("no_candidate", "source_not_found"), Source("no_first_file", "source_corrupt"),
            Source("two_backups", "source_corrupt")>>)
  \o treeIdentity

resolveSource(kind) ==
  CASE kind = "asbackup"     -> resolveFile
    [] kind = "asbackup_dir" -> resolveDir
    [] OTHER                 -> Host(<<Request(Always, "unsupported_source")>>)

namespacePattern == Host(<<Source("bad_namespace", "source_corrupt")>>)

prepareSandbox == Exec(<<Sandbox("not_idle", "invalid_request")>>)

\* The configuration the adapter writes turns the reaper of expired records off
\* (nsup-period 0); the start script waits for a stable cluster itself.
drillConfig == {"nsup"}
startEngine ==
  Exec(<<Tool("internal")>>) \o Start(drillConfig, <<Sandbox("never_stable", "engine_not_ready")>>)

\* The summary asrestore prints is the verdict: it exits 0 when it dropped, ignored
\* or failed to write records, and when it inserted none.
verdict ==
  <<Source("records_expired", "restore_failed"), Source("records_lost", "restore_failed"),
    Source("nothing_inserted", "source_corrupt")>>
restore ==
  Load(<<Tool("source_corrupt"), Source("no_summary", "restore_failed")>> \o verdict)

assertReadable == Exec(<<Source("nothing_readable", "restore_failed")>>)

opProvision(kind) ==
  Payload \o NoPITR \o NoTimezone \o dataSizePattern \o resolveSource(kind) \o namespacePattern
  \o prepareSandbox \o startEngine \o Put(<<>>) \o restore \o assertReadable

opHealthcheck == Payload \o Ask

plans ==
  [v \in probePayload.kinds \X {{}} |->
     Plan(accept \o opProvision(v[1]), opHealthcheck, HeldBy(drillConfig), "first")]
=============================================================================
