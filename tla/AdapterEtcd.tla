------------------------------ MODULE AdapterEtcd ------------------------------
(***************************************************************************)
(* adapters/etcd: a snapshot, or the newest of a directory, restored with  *)
(* etcdutl into a data directory on which the adapter starts a server.     *)
(***************************************************************************)
EXTENDS AdapterSteps

accept == Speaks

probePayload == Offers({"etcd_snapshot", "etcd_snapshot_dir"}, {})

selectsAMember == {"etcd_snapshot_dir"}
backupSelection(kind) == Selection(kind \in selectsAMember)

rejectBackupTimezone == NoTimezone

assertSettled == Settle(Readable)
fileChecksum == Hash(Unreadable)
resolveFile == Host(Readable \o <<Request("is_directory", "invalid_request")>>) \o fileChecksum
chosenSnapshotIn == Host(Readable \o <<Source("no_candidate", "source_not_found")>>) \o assertSettled

resolveSource(kind) ==
  backupSelection(kind)
  \o CASE kind = "etcd_snapshot"     -> resolveFile
       [] kind = "etcd_snapshot_dir" -> chosenSnapshotIn \o resolveFile
       [] OTHER                      -> Host(<<Request(Always, "unsupported_source")>>)

\* An image without a shell may show as an exit status or as an error of the call.
checkSandbox == Blame("no_shell", "invalid_request")

checkSnapshot == Exec(<<Source("snapshot_damaged", "source_corrupt"), Tool("source_corrupt")>>)

mapRestoreFailure == <<Source("hash_mismatch", "source_corrupt"), Tool("restore_failed")>>

\* A server that never answers is explained by its own log.
describeStartFailure == <<Sandbox("start_error_logged", "restore_failed")>>
awaitEngine == Await(describeStartFailure)
startEngine == Start({}, <<Tool("restore_failed")>>) \o awaitEngine

\* No order stops the lessor: a loop in the sandbox renews every lease instead, once
\* the server runs and one renewal has been seen to work.
leaseKeeperScript == {"lease_keeper"}
listLeases == Exec(<<Tool("invalid_request")>>)
holdLeases(leases) ==
  listLeases
  \o When(leases, Exec(<<Sandbox("renewal_refused", "invalid_request")>>)
                  \o Fence(leaseKeeperScript, <<Tool("invalid_request")>>))

\* The server answers for an empty key space as it does for any other.
assertKeysServed == Exec(<<Tool("restore_failed"), Source("no_keys", "restore_failed")>>)

opProvision(kind, leases) ==
  Payload \o NoPITR \o rejectBackupTimezone \o resolveSource(kind) \o checkSandbox \o Put(<<>>) \o checkSnapshot
  \o Load(mapRestoreFailure) \o startEngine \o holdLeases(leases) \o assertKeysServed

opHealthcheck == Payload \o Ask

\* A restored lease runs from the start of the server on, and the loop is only started
\* then: leases that are short enough are gone before it, and nothing holds them.
plans ==
  [v \in probePayload.kinds \X {{}, {"leases"}} |->
     Plan(accept \o opProvision(v[1], v[2] # {}), opHealthcheck,
          IF v[2] = {} THEN {} ELSE {Unheld} \cup HeldBy(leaseKeeperScript),
          IF v[1] \in selectsAMember THEN "first" ELSE "no")]
=============================================================================
