--------------------------- MODULE EvidenceStore ---------------------------
(***************************************************************************)
(* The single-writer, append-only evidence log of                          *)
(* internal/evidence/store.go, with the ways its steps fail: a write that  *)
(* stops half way, an fsync that reports an error, a writer that is killed,*)
(* a machine that loses power with bytes still in the page cache.          *)
(*                                                                         *)
(* Storage assumption: a power loss keeps what was fsynced and some byte   *)
(* prefix of what was appended after it.                                   *)
(***************************************************************************)
EXTENDS EvidenceChain, FiniteSets

CONSTANTS
  Writers,      (* processes that open the store (drills, from cron or hand)*)
  NoWriter,     (* the lock holder when nobody holds it                     *)
  Malformed,    (* records Validate refuses                                 *)
  DirSync       (* whether the filesystem can sync a directory at all       *)

ASSUME WriterAssumption == NoWriter \notin Writers
ASSUME MalformedAssumption == Malformed \subseteq Ids
ASSUME DirSyncAssumption == DirSync \in BOOLEAN

VARIABLES
  file,       (* the log's lines                                            *)
  durable,    (* how many of them an fsync has covered, terminator included *)
  linked,     (* the log's directory entry is on disk                       *)
  lock,       (* who holds the flock on <path>.lock                         *)
  pc,         (* where each writer is                                       *)
  nextSeq, prevHash,   (* the Store fields of each writer                   *)
  line,       (* the sealed line a writer is about to write                 *)
  spent,      (* records some Append was called with                        *)
  acked,      (* records whose Append returned nil, in order (history)      *)
  refused     (* some Open returned ErrChainState (history)                 *)

fileVars   == <<file, durable, linked>>
writerVars == <<lock, pc, nextSeq, prevHash, line>>
history    == <<spent, acked, refused>>
vars       == <<fileVars, writerVars, history>>

NoLine == [id |-> Genesis, seq |-> 0, prev |-> Genesis, whole |-> FALSE, nl |-> FALSE]

PCs == {"closed", "locked", "opened", "resuming", "ready", "sealed",
        "written", "broken"}

TypeOK ==
  /\ file \in Seq(Line)
  /\ durable \in 0 .. Len(file)
  /\ linked \in BOOLEAN
  /\ lock \in Writers \cup {NoWriter}
  /\ pc \in [Writers -> PCs]
  /\ nextSeq \in [Writers -> Nat \ {0}]
  /\ prevHash \in [Writers -> Ids \cup {Genesis}]
  /\ line \in [Writers -> Line \cup {NoLine}]
  /\ spent \subseteq Ids
  /\ acked \in Seq(Ids)
  /\ refused \in BOOLEAN

Init ==
  /\ file = <<>> /\ durable = 0 /\ linked = FALSE
  /\ lock = NoWriter
  /\ pc = [w \in Writers |-> "closed"]
  /\ nextSeq = [w \in Writers |-> 1]
  /\ prevHash = [w \in Writers |-> Genesis]
  /\ line = [w \in Writers |-> NoLine]
  /\ spent = {} /\ acked = <<>> /\ refused = FALSE

-----------------------------------------------------------------------------
(* Bytes. Appending to a file whose last line is unterminated runs the two *)
(* lines together, and the result parses as neither.                       *)
Torn(f) == f # <<>> /\ ~ f[Len(f)].nl

AppendBytes(f, ln) ==
  IF Torn(f) THEN [f EXCEPT ![Len(f)] = [@ EXCEPT !.whole = FALSE, !.nl = ln.nl]]
             ELSE Append(f, ln)

Terminate(f) == [f EXCEPT ![Len(f)] = [@ EXCEPT !.nl = TRUE]]

(* What can be left of a line when only a prefix of its bytes is.          *)
Prefixes(ln) == {[ln EXCEPT !.whole = b, !.nl = FALSE] : b \in {FALSE, ln.whole}}

(* What a power loss can leave of f when its first d lines are durable.    *)
Cuts(f, d) ==
  {SubSeq(f, 1, k) : k \in d .. Len(f)} \cup
  UNION {{[SubSeq(f, 1, k) EXCEPT ![k] = p] : p \in Prefixes(f[k])} : k \in (d + 1) .. Len(f)}

(* The Store fields are abandoned and the flock goes with the descriptor.  *)
Release(w) ==
  /\ lock' = NoWriter
  /\ pc' = [pc EXCEPT ![w] = "closed"]
  /\ line' = [line EXCEPT ![w] = NoLine]
  /\ UNCHANGED <<nextSeq, prevHash>>

Goto(w, label) == pc' = [pc EXCEPT ![w] = label]

-----------------------------------------------------------------------------
(* Open: acquireLock, then the log itself, then resume. An Open that finds *)
(* the lock held returns ErrLocked and changes nothing.                    *)
AcquireLockBlindly(w) ==   (* mutant: the flock result is ignored *)
  /\ pc[w] = "closed"
  /\ lock' = w
  /\ Goto(w, "locked")
  /\ UNCHANGED <<fileVars, nextSeq, prevHash, line, history>>

AcquireLock(w) ==
  /\ pc[w] = "closed"
  /\ lock = NoWriter
  /\ lock' = w
  /\ Goto(w, "locked")
  /\ UNCHANGED <<fileVars, nextSeq, prevHash, line, history>>

(* OpenFile with O_CREATE, then syncDir: the name becomes durable, or the  *)
(* filesystem answers EINVAL and the open goes on without that promise.    *)
OpenLogNoDirSync(w) ==   (* mutant: syncDir is not called *)
  /\ pc[w] = "locked"
  /\ Goto(w, "opened")
  /\ UNCHANGED <<fileVars, lock, nextSeq, prevHash, line, history>>

OpenLog(w) ==
  /\ pc[w] = "locked"
  /\ linked' \in IF DirSync THEN {TRUE} ELSE {linked}
  /\ Goto(w, "opened")
  /\ UNCHANGED <<file, durable, lock, nextSeq, prevHash, line, history>>

(* Any other error of OpenFile, syncDir, Stat, ReadAt, Seek or of the read *)
(* itself: Open closes what it opened and returns it.                      *)
OpenFails(w) ==
  /\ pc[w] \in {"locked", "opened", "resuming"}
  /\ Release(w)
  /\ UNCHANGED <<fileVars, history>>

DropTornTail(w) ==   (* mutant: the torn tail is truncated away *)
  /\ pc[w] = "opened"
  /\ file' = IF Torn(file) THEN SubSeq(file, 1, Len(file) - 1) ELSE file
  /\ Goto(w, "resuming")
  /\ UNCHANGED <<durable, linked, lock, nextSeq, prevHash, line, history>>

CloseTornTail(w) ==
  /\ pc[w] = "opened"
  /\ file' = IF Torn(file) THEN Terminate(file) ELSE file
  /\ Goto(w, "resuming")
  /\ UNCHANGED <<durable, linked, lock, nextSeq, prevHash, line, history>>

(* The walk: refuse the log, or continue the chain from its last record.   *)
Resume(w) ==
  /\ pc[w] = "resuming"
  /\ ~ WalkFailed(file)
  /\ \E j \in 0 .. Len(file) :
       /\ LastReadable(file, Len(file), j)
       /\ nextSeq' = [nextSeq EXCEPT ![w] = Head0(file, j).seq + 1]
       /\ prevHash' = [prevHash EXCEPT ![w] = Head0(file, j).hash]
  /\ Goto(w, "ready")
  /\ UNCHANGED <<fileVars, lock, line, history>>

RefuseChain(w) ==
  /\ pc[w] = "resuming"
  /\ WalkFailed(file)
  /\ refused' = TRUE
  /\ Release(w)
  /\ UNCHANGED <<fileVars, spent, acked>>

-----------------------------------------------------------------------------
(* Append, first half: the chain fields are filled in and the line sealed. *)
Accepts(id) == id \notin Malformed /\ SizeOf[id] <= MaxRecordBytes

Seal(w, id) ==
  /\ pc[w] = "ready"
  /\ id \notin spent
  /\ Accepts(id)
  /\ line' = [line EXCEPT ![w] = [id |-> id, seq |-> nextSeq[w], prev |-> prevHash[w],
                                  whole |-> TRUE, nl |-> TRUE]]
  /\ spent' = spent \cup {id}
  /\ Goto(w, "sealed")
  /\ UNCHANGED <<fileVars, lock, nextSeq, prevHash, acked, refused>>

(* ErrInvalidRecord or ErrRecordTooLarge: the store stays usable.          *)
Reject(w, id) ==
  /\ pc[w] = "ready"
  /\ id \notin spent
  /\ ~ Accepts(id)
  /\ spent' = spent \cup {id}
  /\ UNCHANGED <<fileVars, writerVars, acked, refused>>

(* Append, second half: one write of line and newline, then fsync. A write *)
(* that fails may have stored any prefix of the bytes.                     *)
Write(w) ==
  /\ pc[w] = "sealed"
  /\ file' = AppendBytes(file, line[w])
  /\ Goto(w, "written")
  /\ UNCHANGED <<durable, linked, lock, nextSeq, prevHash, line, history>>

WriteFailsQuietly(w) ==   (* mutant: the store is not marked broken *)
  /\ pc[w] = "sealed"
  /\ \/ file' = file
     \/ \E p \in Prefixes(line[w]) : file' = AppendBytes(file, p)
  /\ Goto(w, "ready")
  /\ UNCHANGED <<durable, linked, lock, nextSeq, prevHash, line, history>>

WriteFails(w) ==
  /\ pc[w] = "sealed"
  /\ \/ file' = file
     \/ \E p \in Prefixes(line[w]) : file' = AppendBytes(file, p)
  /\ Goto(w, "broken")
  /\ UNCHANGED <<durable, linked, lock, nextSeq, prevHash, line, history>>

Sync(w) ==
  /\ pc[w] = "written"
  /\ durable' = Len(file)
  /\ prevHash' = [prevHash EXCEPT ![w] = line[w].id]
  /\ nextSeq' = [nextSeq EXCEPT ![w] = @ + 1]
  /\ acked' = Append(acked, line[w].id)
  /\ Goto(w, "ready")
  /\ UNCHANGED <<file, linked, lock, line, spent, refused>>

SyncFailsAcked(w) ==   (* mutant: the fsync error is dropped *)
  /\ pc[w] = "written"
  /\ acked' = Append(acked, line[w].id)
  /\ Goto(w, "broken")
  /\ UNCHANGED <<fileVars, lock, nextSeq, prevHash, line, spent, refused>>

SyncFails(w) ==
  /\ pc[w] = "written"
  /\ Goto(w, "broken")
  /\ UNCHANGED <<fileVars, lock, nextSeq, prevHash, line, history>>

(* A broken store answers every Append with an error until it is closed.   *)
Close(w) ==
  /\ pc[w] \in {"ready", "broken"}
  /\ Release(w)
  /\ UNCHANGED <<fileVars, history>>

-----------------------------------------------------------------------------
(* The environment: kill -9 between any two steps, and a power loss.       *)
Kill(w) ==
  /\ pc[w] # "closed"
  /\ Release(w)
  /\ UNCHANGED <<fileVars, history>>

PowerLoss ==
  /\ file' \in Cuts(file, durable) \cup (IF linked THEN {} ELSE {<<>>})
  /\ durable' = IF Torn(file') THEN Len(file') - 1 ELSE Len(file')
  /\ lock' = NoWriter
  /\ pc' = [w \in Writers |-> "closed"]
  /\ line' = [w \in Writers |-> NoLine]
  /\ UNCHANGED <<linked, nextSeq, prevHash, history>>

Open(w) == \/ AcquireLock(w) \/ OpenLog(w) \/ OpenFails(w)
           \/ CloseTornTail(w) \/ Resume(w) \/ RefuseChain(w)

AppendRecord(w) == \/ \E id \in Ids : Seal(w, id) \/ Reject(w, id)
                   \/ Write(w) \/ WriteFails(w) \/ Sync(w) \/ SyncFails(w)

Next == \/ \E w \in Writers : Open(w) \/ AppendRecord(w) \/ Close(w) \/ Kill(w)
        \/ PowerLoss

Spec == Init /\ [][Next]_vars

-----------------------------------------------------------------------------
(* Every record in the file carries the seq and the hash of the record     *)
(* before it, whatever was torn, killed or lost in between: a walk of the  *)
(* log never reports tampering that is only a crash.                       *)
ChainUnbroken == \A i \in 1 .. Len(file) : Readable(file[i]) => Follows(file, i)

(* A record whose Append returned nil is in the file, complete, inside the *)
(* fsynced prefix and under a durable name: no crash takes it back.        *)
AckedSurvive ==
  DirSync =>
    \A k \in 1 .. Len(acked) :
      /\ linked
      /\ \E i \in 1 .. durable : Readable(file[i]) /\ file[i].id = acked[k]

(* Whatever crashes came before, Open never refuses a log that only this   *)
(* writer wrote.                                                           *)
NeverRefused == ~ refused

(* Append-only: short of a power loss no byte of the file changes; a line  *)
(* that is terminated stays as it is and the torn tail can only grow.      *)
Extends(f, g) ==
  /\ Len(f) <= Len(g)
  /\ \A i \in 1 .. Len(f) : \/ g[i] = f[i]
                            \/ i = Len(f) /\ ~ f[i].nl /\ g[i] = [f[i] EXCEPT !.nl = TRUE]

AppendOnly == [][Extends(file, file') \/ PowerLoss]_vars

(***************************************************************************)
(* The inductive invariant behind ChainUnbroken and AckedSurvive.          *)
(***************************************************************************)
(* The flock is held by whoever is past acquireLock.                       *)
LockInv == \A w \in Writers : pc[w] # "closed" => lock = w

(* Also the complete but unterminated line a failed write can leave links  *)
(* to its predecessor: closing it makes it a record.                       *)
WholeFollows == \A i \in 1 .. Len(file) : file[i].whole => Follows(file, i)

(* After closeTornTail no writer ever writes behind a torn line.           *)
TailInv == \A w \in Writers :
             pc[w] \in {"resuming", "ready", "sealed", "written"} => ~ Torn(file)

(* The fields of a ready writer are the head of the file.                  *)
AtHead(w) == \E j \in 0 .. Len(file) :
               /\ LastReadable(file, Len(file), j)
               /\ nextSeq[w] = Head0(file, j).seq + 1
               /\ prevHash[w] = Head0(file, j).hash

HeadInv == \A w \in Writers : pc[w] \in {"ready", "sealed"} => AtHead(w)

LineInv == \A w \in Writers :
  /\ pc[w] \in {"sealed", "written"} =>
       /\ line[w] \in Line
       /\ line[w].seq = nextSeq[w] /\ line[w].prev = prevHash[w]
       /\ Readable(line[w])
       /\ Accepts(line[w].id)
  /\ pc[w] = "written" => file # <<>> /\ file[Len(file)] = line[w]

(* Only the last line can be torn, and not once it is durable; a writer    *)
(* past syncDir has a durable name.                                        *)
DurableInv ==
  /\ \A i \in 1 .. Len(file) : i < Len(file) \/ i <= durable => file[i].nl
  /\ DirSync => \A w \in Writers : pc[w] \notin {"closed", "locked"} => linked

(* Every line came through sealed's size rule.                             *)
SizeInv == \A i \in 1 .. Len(file) : Accepts(file[i].id)

IInv == /\ TypeOK /\ LockInv /\ WholeFollows /\ TailInv /\ HeadInv
        /\ LineInv /\ DurableInv /\ SizeInv /\ AckedSurvive

-----------------------------------------------------------------------------
(* The records a verifier reads off the file, in order: the n-th of them   *)
(* has n - 1 before it.                                                    *)
Records(f) == {i \in 1 .. Len(f) : Readable(f[i])}
NthRecord(f, n) == CHOOSE i \in Records(f) : Cardinality({k \in Records(f) : k < i}) = n - 1
ChainOf(f) == [n \in 1 .. Cardinality(Records(f)) |-> f[NthRecord(f, n)].id]

VerifiedChain == ChainOf(file)

(* How many of them are at or before a record whose Append returned nil.   *)
Acked(a, id) == \E k \in 1 .. Len(a) : a[k] = id
LastAcked(c, a, n) == /\ n > 0 => Acked(a, c[n])
                      /\ \A m \in (n + 1) .. Len(c) : ~ Acked(a, c[m])
Committed(c, a) == CHOOSE n \in 0 .. Len(c) : LastAcked(c, a, n)

CommittedLength == Committed(VerifiedChain, acked)

(* No record is written twice: what a writer is about to write is neither  *)
(* in the file nor acknowledged.                                           *)
OnceInv ==
  /\ \A i, j \in 1 .. Len(file) : file[i].id = file[j].id => i = j
  /\ \A i \in 1 .. Len(file) : file[i].id \in spent
  /\ \A k \in 1 .. Len(acked) : acked[k] \in spent
  /\ \A w \in Writers :
       /\ pc[w] = "sealed" => /\ line[w].id \in spent /\ ~ Acked(acked, line[w].id)
                              /\ \A i \in 1 .. Len(file) : file[i].id # line[w].id
       /\ pc[w] = "written" => ~ Acked(acked, line[w].id)

(* The store implements EvidenceLog: the verified chain grows at its end   *)
(* only, and a power loss takes back unacknowledged records only.          *)
Log == INSTANCE EvidenceLog WITH chain <- VerifiedChain, committed <- CommittedLength
ImplementsLog == Log!Spec
=============================================================================
