------------------------ MODULE EvidenceStoreProofs ------------------------
(***************************************************************************)
(* Proofs about EvidenceStore for any set of writers and records: the      *)
(* chain is never broken by crashes, and what was acknowledged survives    *)
(* them.                                                                   *)
(***************************************************************************)
EXTENDS EvidenceStore, SequenceTheorems, FiniteSetTheorems, TLAPS

-----------------------------------------------------------------------------
(* Lemmas about the chain operators.                                       *)

(* Whether line i links to its predecessor depends on nothing after it,    *)
(* and not on how much of line i itself is in the file.                    *)
LEMMA FollowsSame ==
  ASSUME NEW f, NEW g, NEW i \in Nat \ {0},
         \A k \in 1 .. (i - 1) : g[k] = f[k],
         g[i].seq = f[i].seq, g[i].prev = f[i].prev,
         Follows(f, i)
  PROVE  Follows(g, i)
<1>1. PICK j \in 0 .. (i - 1) : /\ LastReadable(f, i - 1, j)
                                /\ f[i].seq = Head0(f, j).seq + 1
                                /\ f[i].prev = Head0(f, j).hash
  BY DEF Follows
<1>2. LastReadable(g, i - 1, j)
  BY <1>1 DEF LastReadable
<1>3. Head0(g, j) = Head0(f, j)
  BY DEF Head0
<1>4. QED
  BY <1>1, <1>2, <1>3 DEF Follows

(* A line built from the head of f links when it is appended to f.         *)
LEMMA FollowsHead ==
  ASSUME NEW f \in Seq(Line), NEW ln \in Line, NEW j \in 0 .. Len(f),
         LastReadable(f, Len(f), j),
         ln.seq = Head0(f, j).seq + 1, ln.prev = Head0(f, j).hash
  PROVE  Follows(Append(f, ln), Len(f) + 1)
<1> DEFINE g == Append(f, ln)
<1>1. /\ Len(f) \in Nat
      /\ g[Len(f) + 1] = ln
      /\ \A k \in 1 .. Len(f) : g[k] = f[k]
  OBVIOUS
<1> HIDE DEF g
<1>2. LastReadable(g, Len(f), j)
  BY <1>1 DEF LastReadable
<1>3. Head0(g, j) = Head0(f, j)
  BY <1>1 DEF Head0
<1>4. QED
  BY <1>1, <1>2, <1>3 DEF Follows, g

(* The head of a file whose last line is a record is that record.          *)
LEMMA HeadIsLast ==
  ASSUME NEW f \in Seq(Line), f # <<>>, Readable(f[Len(f)])
  PROVE  /\ LastReadable(f, Len(f), Len(f))
         /\ Head0(f, Len(f)) = [seq |-> f[Len(f)].seq, hash |-> f[Len(f)].id]
BY DEF LastReadable, Head0

(* A line cut short is still a line, and unterminated.                     *)
LEMMA PrefixIsLine ==
  ASSUME NEW ln \in Line, NEW p \in Prefixes(ln)
  PROVE  /\ p \in Line
         /\ p.id = ln.id /\ p.seq = ln.seq /\ p.prev = ln.prev
         /\ p.whole => ln.whole
         /\ p.nl = FALSE
BY DEF Prefixes, Line

(* Replacing one line of a file.                                           *)
LEMMA ReplaceLine ==
  ASSUME NEW s \in Seq(Line), NEW k \in 1 .. Len(s), NEW e \in Line, NEW g,
         g = [s EXCEPT ![k] = e]
  PROVE  /\ g \in Seq(Line)
         /\ Len(g) = Len(s)
         /\ \A i \in 1 .. Len(s) : g[i] = IF i = k THEN e ELSE s[i]
<1>1. Len(s) \in Nat /\ s \in [1 .. Len(s) -> Line] /\ DOMAIN s = 1 .. Len(s)
  BY LenProperties
<1>2. g \in [1 .. Len(s) -> Line] /\ DOMAIN g = 1 .. Len(s)
  BY <1>1
<1>3. \A i \in 1 .. Len(s) : g[i] = IF i = k THEN e ELSE s[i]
  BY <1>1
<1>4. g \in Seq(Line) /\ Len(g) = Len(s)
  BY <1>1, <1>2
<1>5. QED
  BY <1>3, <1>4

(* Closing the torn tail changes the terminator of the last line only.     *)
LEMMA TerminateFile ==
  ASSUME NEW f \in Seq(Line), f # <<>>
  PROVE  /\ Terminate(f) \in Seq(Line)
         /\ Len(Terminate(f)) = Len(f)
         /\ \A i \in 1 .. (Len(f) - 1) : Terminate(f)[i] = f[i]
         /\ LET t == Terminate(f)[Len(f)]
            IN  /\ t.id = f[Len(f)].id /\ t.seq = f[Len(f)].seq /\ t.prev = f[Len(f)].prev
                /\ t.whole = f[Len(f)].whole
                /\ t.nl = TRUE
<1>1. Len(f) \in 1 .. Len(f) /\ Len(f) \in Nat
  OBVIOUS
<1>2. f[Len(f)] \in Line
  BY <1>1
<1>3. [f[Len(f)] EXCEPT !.nl = TRUE] \in Line
  BY <1>2 DEF Line
<1>4. Terminate(f) = [f EXCEPT ![Len(f)] = [f[Len(f)] EXCEPT !.nl = TRUE]]
  BY DEF Terminate
<1> DEFINE e == [f[Len(f)] EXCEPT !.nl = TRUE]
           g == Terminate(f)
<1>5. /\ g \in Seq(Line) /\ Len(g) = Len(f)
      /\ \A i \in 1 .. Len(f) : g[i] = IF i = Len(f) THEN e ELSE f[i]
  <2> HIDE DEF e, g
  <2>1. e \in Line /\ g = [f EXCEPT ![Len(f)] = e]
    BY <1>3, <1>4 DEF e, g
  <2>2. QED
    BY <1>1, <2>1, ReplaceLine
<1>6. /\ e.id = f[Len(f)].id /\ e.seq = f[Len(f)].seq /\ e.prev = f[Len(f)].prev
      /\ e.whole = f[Len(f)].whole /\ e.nl = TRUE
  BY <1>2 DEF Line
<1> HIDE DEF e
<1>7. Terminate(f)[Len(f)] = e /\ \A i \in 1 .. (Len(f) - 1) : Terminate(f)[i] = f[i]
  BY <1>1, <1>5
<1>8. QED
  BY <1>5, <1>6, <1>7

(* What a power loss leaves: the durable lines as they were, the others up *)
(* to some point, the last of them possibly cut short.                     *)
LEMMA CutFile ==
  ASSUME NEW f \in Seq(Line), NEW d \in 0 .. Len(f), NEW g \in Cuts(f, d)
  PROVE  /\ g \in Seq(Line)
         /\ Len(g) \in d .. Len(f)
         /\ \A i \in 1 .. Len(g) : i <= d \/ i < Len(g) => g[i] = f[i]
         /\ \A i \in 1 .. Len(g) :
              /\ g[i].id = f[i].id /\ g[i].seq = f[i].seq /\ g[i].prev = f[i].prev
              /\ g[i].whole => f[i].whole
              /\ g[i].nl => g[i] = f[i]
<1>1. CASE \E k \in d .. Len(f) : g = SubSeq(f, 1, k)
  BY <1>1, SubSeqProperties
<1>2. CASE \E k \in (d + 1) .. Len(f) : \E p \in Prefixes(f[k]) :
             g = [SubSeq(f, 1, k) EXCEPT ![k] = p]
  <2>1. PICK k \in (d + 1) .. Len(f) : \E p \in Prefixes(f[k]) :
               g = [SubSeq(f, 1, k) EXCEPT ![k] = p]
    BY <1>2
  <2>2. PICK p \in Prefixes(f[k]) : g = [SubSeq(f, 1, k) EXCEPT ![k] = p]
    BY <2>1
  <2>3. /\ f[k] \in Line /\ k \in Nat \ {0}
        /\ SubSeq(f, 1, k) \in Seq(Line)
        /\ Len(SubSeq(f, 1, k)) = k
        /\ \A i \in 1 .. k : SubSeq(f, 1, k)[i] = f[i]
    BY SubSeqProperties
  <2>4. /\ p \in Line
        /\ p.id = f[k].id /\ p.seq = f[k].seq /\ p.prev = f[k].prev
        /\ (p.whole => f[k].whole) /\ p.nl = FALSE
    BY <2>2, <2>3, PrefixIsLine
  <2>5. /\ g \in Seq(Line) /\ Len(g) = k
        /\ \A i \in 1 .. k : g[i] = IF i = k THEN p ELSE f[i]
    <3> DEFINE s == SubSeq(f, 1, k)
    <3>1. s \in Seq(Line) /\ k \in 1 .. Len(s) /\ g = [s EXCEPT ![k] = p]
      BY <2>2, <2>3
    <3>2. \A i \in 1 .. k : s[i] = f[i]
      BY <2>3
    <3>3. Len(s) = k
      BY <2>3
    <3> HIDE DEF s
    <3>4. QED
      BY <2>4, <3>1, <3>2, <3>3, ReplaceLine
  <2>6. QED
    BY <2>4, <2>5
<1>3. QED
  BY <1>1, <1>2 DEF Cuts

-----------------------------------------------------------------------------
(* The inductive invariant.                                                *)

(* Init establishes it: an empty file has no line that could break it.     *)
LEMMA InitInv == Init => IInv
<1> SUFFICES ASSUME Init PROVE IInv
  OBVIOUS
<1>1. TypeOK
  <2>1. file \in Seq(Line) /\ durable \in 0 .. Len(file) /\ acked \in Seq(Ids)
    BY DEF Init
  <2>0. linked \in BOOLEAN /\ refused \in BOOLEAN
    BY Zenon DEF Init
  <2>2. /\ spent \subseteq Ids /\ lock \in Writers \cup {NoWriter}
        /\ pc \in [Writers -> PCs] /\ nextSeq \in [Writers -> Nat \ {0}]
        /\ prevHash \in [Writers -> Ids \cup {Genesis}]
    BY DEF Init, PCs
  <2>3. line \in [Writers -> Line \cup {NoLine}]
    BY DEF Init
  <2>4. QED
    BY <2>0, <2>1, <2>2, <2>3 DEF TypeOK
<1>2. LockInv /\ WholeFollows /\ TailInv /\ HeadInv /\ LineInv /\ DurableInv /\ SizeInv
  BY DEF Init, LockInv, WholeFollows, TailInv, HeadInv, LineInv, DurableInv, SizeInv
<1>3. AckedSurvive
  BY DEF Init, AckedSurvive
<1>4. QED
  BY <1>1, <1>2, <1>3 DEF IInv

(* The flock excludes every other writer.                                  *)
LEMMA OthersClosed ==
  ASSUME LockInv, NEW w \in Writers, pc[w] # "closed"
  PROVE  \A v \in Writers : v # w => pc[v] = "closed"
BY DEF LockInv

(* Steps of one writer that leave the file and its durability alone and    *)
(* only move that writer, or close it, keep the file part of the invariant.*)
LEMMA ReleaseInv ==
  ASSUME IInv, NEW w \in Writers, pc[w] # "closed", Release(w),
         UNCHANGED <<fileVars, spent, acked>>, refused' \in BOOLEAN
  PROVE  IInv'
<1> USE DEF Release, fileVars
<1>0. \A v \in Writers : pc'[v] = "closed"
  BY OthersClosed DEF IInv, TypeOK
<1>1. TypeOK'
  BY DEF IInv, TypeOK, PCs
<1>2. LockInv' /\ TailInv' /\ HeadInv' /\ LineInv'
  BY <1>0 DEF LockInv, TailInv, HeadInv, LineInv
<1>3. WholeFollows' /\ SizeInv' /\ AckedSurvive'
  BY DEF IInv, WholeFollows, SizeInv, AckedSurvive
<1>4. DurableInv'
  BY <1>0 DEF IInv, DurableInv
<1>5. QED
  BY <1>1, <1>2, <1>3, <1>4 DEF IInv

(* The steps of Open that keep the lock.                                   *)
LEMMA AcquireLockInv ==
  ASSUME IInv, NEW w \in Writers, AcquireLock(w)
  PROVE  IInv'
<1> USE DEF AcquireLock, Goto, fileVars, history
<1>1. TypeOK'
  BY DEF IInv, TypeOK, PCs
<1>2. LockInv'
  BY WriterAssumption DEF IInv, TypeOK, LockInv
<1>3. WholeFollows' /\ SizeInv' /\ AckedSurvive'
  BY DEF IInv, WholeFollows, SizeInv, AckedSurvive
<1>4. TailInv' /\ DurableInv'
  BY DEF IInv, TypeOK, TailInv, DurableInv
<1>5. LineInv'
  BY DEF IInv, TypeOK, LineInv
<1>6. HeadInv'
  BY DEF IInv, TypeOK, HeadInv, AtHead
<1>7. QED
  BY <1>1, <1>2, <1>3, <1>4, <1>5, <1>6 DEF IInv

(* Opening the file and syncing its directory only makes the name durable.*)
LEMMA OpenLogInv ==
  ASSUME IInv, NEW w \in Writers, OpenLog(w)
  PROVE  IInv'
<1> USE DEF OpenLog, Goto, fileVars, history
<1>0. \A v \in Writers : v # w => pc'[v] = "closed"
  BY OthersClosed DEF IInv, TypeOK
<1>1. TypeOK'
  BY DEF IInv, TypeOK, PCs
<1>2. LockInv'
  BY <1>0 DEF IInv, TypeOK, LockInv
<1>3. WholeFollows' /\ SizeInv'
  BY DEF IInv, WholeFollows, SizeInv
<1>4. AckedSurvive'
  BY DEF IInv, AckedSurvive
<1>5. DurableInv'
  BY <1>0 DEF IInv, TypeOK, DurableInv
<1>6. TailInv' /\ HeadInv' /\ LineInv'
  BY <1>0 DEF IInv, TypeOK, TailInv, HeadInv, LineInv
<1>7. QED
  BY <1>1, <1>2, <1>3, <1>4, <1>5, <1>6 DEF IInv

(* closeTornTail terminates the last line and changes no other.            *)
LEMMA CloseTornTailInv ==
  ASSUME IInv, NEW w \in Writers, CloseTornTail(w)
  PROVE  IInv'
<1> USE DEF CloseTornTail, Goto, history
<1>0. \A v \in Writers : v # w => pc'[v] = "closed"
  BY OthersClosed DEF IInv, TypeOK
<1>00. pc'[w] = "resuming" /\ file \in Seq(Line) /\ Len(file) \in Nat
  BY DEF IInv, TypeOK
<1>1. /\ file' \in Seq(Line) /\ Len(file') = Len(file) /\ ~ Torn(file')
      /\ \A i \in 1 .. Len(file) :
           /\ file'[i].id = file[i].id /\ file'[i].seq = file[i].seq
           /\ file'[i].prev = file[i].prev /\ file'[i].whole = file[i].whole
           /\ file[i].nl => file'[i].nl
      /\ \A i \in 1 .. (Len(file) - 1) : file'[i] = file[i]
  <2>1. CASE Torn(file)
    <3>1. file # <<>> /\ file' = Terminate(file)
      BY <2>1 DEF Torn
    <3>2. /\ file' \in Seq(Line) /\ Len(file') = Len(file)
          /\ \A i \in 1 .. (Len(file) - 1) : file'[i] = file[i]
      BY <1>00, <3>1, TerminateFile
    <3>3. LET t == file'[Len(file)]
          IN  /\ t.id = file[Len(file)].id /\ t.seq = file[Len(file)].seq
              /\ t.prev = file[Len(file)].prev /\ t.whole = file[Len(file)].whole
              /\ t.nl = TRUE
      BY <1>00, <3>1, TerminateFile
    <3>4. ~ Torn(file')
      BY <3>2, <3>3 DEF Torn
    <3>5. ASSUME NEW i \in 1 .. Len(file)
          PROVE  /\ file'[i].id = file[i].id /\ file'[i].seq = file[i].seq
                 /\ file'[i].prev = file[i].prev /\ file'[i].whole = file[i].whole
                 /\ file[i].nl => file'[i].nl
      <4>1. CASE i = Len(file)
        BY <3>3, <4>1
      <4>2. CASE i # Len(file)
        <5>1. file'[i] = file[i]
          BY <1>00, <3>2, <4>2
        <5>2. QED
          BY <5>1
      <4>3. QED
        BY <4>1, <4>2
    <3>6. QED
      BY <3>2, <3>4, <3>5
  <2>2. CASE ~ Torn(file)
    BY <1>00, <2>2
  <2>3. QED
    BY <2>1, <2>2
<1>2. TypeOK'
  BY <1>1 DEF IInv, TypeOK, PCs
<1>3. LockInv'
  BY <1>0 DEF IInv, TypeOK, LockInv
<1>4. WholeFollows'
  <2> SUFFICES ASSUME NEW i \in 1 .. Len(file), file[i].whole
               PROVE  Follows(file', i)
    BY <1>1 DEF WholeFollows
  <2>1. Follows(file, i)
    BY DEF IInv, WholeFollows
  <2>2. QED
    BY <1>00, <1>1, <2>1, FollowsSame
<1>5. SizeInv'
  BY <1>1 DEF IInv, SizeInv
<1>6. AckedSurvive'
  <2> SUFFICES ASSUME DirSync, NEW k \in 1 .. Len(acked)
               PROVE  linked /\ \E i \in 1 .. durable :
                                  Readable(file'[i]) /\ file'[i].id = acked[k]
    BY DEF AckedSurvive
  <2>1. linked /\ durable \in 0 .. Len(file)
    BY DEF IInv, TypeOK, AckedSurvive
  <2>2. PICK i \in 1 .. durable : Readable(file[i]) /\ file[i].id = acked[k]
    BY DEF IInv, AckedSurvive
  <2>3. Readable(file'[i]) /\ file'[i].id = acked[k]
    BY <1>00, <1>1, <2>1, <2>2 DEF Readable
  <2>4. QED
    BY <2>1, <2>3
<1>7. DurableInv'
  BY <1>00, <1>0, <1>1 DEF IInv, TypeOK, DurableInv
<1>8. TailInv' /\ HeadInv' /\ LineInv'
  BY <1>00, <1>0, <1>1 DEF TailInv, HeadInv, LineInv
<1>9. QED
  BY <1>2, <1>3, <1>4, <1>5, <1>6, <1>7, <1>8 DEF IInv

(* resume picks up the head of the file it has just walked.                *)
LEMMA ResumeInv ==
  ASSUME IInv, NEW w \in Writers, Resume(w)
  PROVE  IInv'
<1> USE DEF Resume, Goto, fileVars, history
<1>0. \A v \in Writers : v # w => pc'[v] = "closed"
  BY OthersClosed DEF IInv, TypeOK
<1>00. /\ pc'[w] = "ready" /\ file \in Seq(Line) /\ Len(file) \in Nat
  BY DEF IInv, TypeOK
<1>1. PICK j \in 0 .. Len(file) :
        /\ LastReadable(file, Len(file), j)
        /\ nextSeq' = [nextSeq EXCEPT ![w] = Head0(file, j).seq + 1]
        /\ prevHash' = [prevHash EXCEPT ![w] = Head0(file, j).hash]
  OBVIOUS
<1>2. Head0(file, j).seq \in Nat /\ Head0(file, j).hash \in Ids \cup {Genesis}
  <2>1. CASE j = 0
    BY <2>1 DEF Head0
  <2>2. CASE j # 0
    <3>1. file[j] \in Line
      BY <1>00, <2>2
    <3>2. QED
      BY <2>2, <3>1 DEF Head0, Line
  <2>3. QED
    BY <2>1, <2>2
<1>3. TypeOK'
  BY <1>1, <1>2 DEF IInv, TypeOK, PCs
<1>4. LockInv'
  BY <1>0 DEF IInv, TypeOK, LockInv
<1>5. WholeFollows' /\ SizeInv' /\ AckedSurvive'
  BY DEF IInv, WholeFollows, SizeInv, AckedSurvive
<1>6. AtHead(w)'
  BY <1>1 DEF IInv, TypeOK, AtHead
<1>7. HeadInv' /\ TailInv' /\ LineInv'
  BY <1>0, <1>00, <1>6 DEF IInv, HeadInv, TailInv, LineInv
<1>8. DurableInv'
  BY <1>0 DEF IInv, TypeOK, DurableInv
<1>9. QED
  BY <1>3, <1>4, <1>5, <1>7, <1>8 DEF IInv

(* A sealed record carries the writer's head and has not been written.     *)
LEMMA SealInv ==
  ASSUME IInv, NEW w \in Writers, NEW id \in Ids, Seal(w, id)
  PROVE  IInv'
<1> USE DEF Seal, Goto, fileVars
<1>0. \A v \in Writers : v # w => pc'[v] = "closed"
  BY OthersClosed DEF IInv, TypeOK
<1>00. pc'[w] = "sealed"
  BY DEF IInv, TypeOK
<1>1. /\ line'[w] \in Line
      /\ line'[w].seq = nextSeq'[w] /\ line'[w].prev = prevHash'[w]
      /\ Readable(line'[w]) /\ Accepts(line'[w].id)
  BY DEF IInv, TypeOK, Line, Readable
<1>2. TypeOK'
  BY <1>1 DEF IInv, TypeOK, PCs
<1>3. LockInv'
  BY <1>0 DEF IInv, TypeOK, LockInv
<1>4. WholeFollows' /\ SizeInv' /\ AckedSurvive'
  BY DEF IInv, WholeFollows, SizeInv, AckedSurvive
<1>5. LineInv'
  BY <1>0, <1>00, <1>1 DEF LineInv
<1>6. HeadInv' /\ TailInv'
  BY <1>0, <1>00 DEF IInv, HeadInv, AtHead, TailInv
<1>7. DurableInv'
  BY <1>0, <1>00 DEF IInv, DurableInv
<1>8. QED
  BY <1>2, <1>3, <1>4, <1>5, <1>6, <1>7 DEF IInv

(* A record that Append refuses for its shape leaves everything alone.     *)
LEMMA RejectInv ==
  ASSUME IInv, NEW w \in Writers, NEW id \in Ids, Reject(w, id)
  PROVE  IInv'
<1> USE DEF Reject, fileVars, writerVars
<1>1. TypeOK' /\ LockInv' /\ WholeFollows' /\ TailInv' /\ SizeInv' /\ AckedSurvive'
  BY DEF IInv, TypeOK, LockInv, WholeFollows, TailInv, SizeInv, AckedSurvive
<1>2. HeadInv' /\ LineInv' /\ DurableInv'
  BY DEF IInv, HeadInv, AtHead, LineInv, DurableInv
<1>3. QED
  BY <1>1, <1>2 DEF IInv

(* A step that appends one line, linked to the head if it is complete, to  *)
(* a file without a torn tail keeps the file part of the invariant.        *)
LEMMA AppendLine ==
  ASSUME IInv, ~ Torn(file), NEW ln \in Line, NEW w \in Writers, AtHead(w),
         ln.seq = nextSeq[w], ln.prev = prevHash[w], Accepts(ln.id),
         file' = Append(file, ln), UNCHANGED <<durable, linked, acked>>
  PROVE  /\ file' \in Seq(Line) /\ Len(file') = Len(file) + 1
         /\ file'[Len(file')] = ln
         /\ WholeFollows' /\ SizeInv' /\ AckedSurvive'
         /\ durable' \in 0 .. Len(file')
         /\ \A i \in 1 .. Len(file') : i < Len(file') \/ i <= durable' => file'[i].nl
<1>0. /\ file \in Seq(Line) /\ Len(file) \in Nat /\ durable \in 0 .. Len(file)
  BY DEF IInv, TypeOK
<1>1. /\ file' \in Seq(Line) /\ Len(file') = Len(file) + 1
      /\ file'[Len(file) + 1] = ln
      /\ \A i \in 1 .. Len(file) : file'[i] = file[i]
  BY <1>0
<1>2. Follows(file', Len(file) + 1)
  BY <1>0, FollowsHead DEF AtHead
<1>3. WholeFollows'
  <2> SUFFICES ASSUME NEW i \in 1 .. Len(file'), file'[i].whole
               PROVE  Follows(file', i)
    BY DEF WholeFollows
  <2>1. CASE i = Len(file) + 1
    BY <1>2, <2>1
  <2>2. CASE i # Len(file) + 1
    <3>1. /\ i \in 1 .. Len(file) /\ i \in Nat \ {0} /\ file'[i] = file[i]
          /\ \A k \in 1 .. (i - 1) : file'[k] = file[k]
      BY <1>0, <1>1, <2>2
    <3>2. Follows(file, i)
      BY <3>1 DEF IInv, WholeFollows
    <3>3. QED
      BY <3>1, <3>2, FollowsSame
  <2>3. QED
    BY <2>1, <2>2
<1>4. SizeInv'
  BY <1>0, <1>1 DEF IInv, SizeInv
<1>5. AckedSurvive'
  <2> SUFFICES ASSUME DirSync, NEW k \in 1 .. Len(acked)
               PROVE  linked /\ \E i \in 1 .. durable :
                                  Readable(file'[i]) /\ file'[i].id = acked[k]
    BY DEF AckedSurvive
  <2>1. linked
    BY DEF IInv, AckedSurvive
  <2>2. PICK i \in 1 .. durable : Readable(file[i]) /\ file[i].id = acked[k]
    BY DEF IInv, AckedSurvive
  <2>3. file'[i] = file[i]
    BY <1>0, <1>1
  <2>4. QED
    BY <2>1, <2>2, <2>3
<1>6. durable' \in 0 .. Len(file')
  BY <1>0, <1>1
<1>7. \A i \in 1 .. Len(file') : i < Len(file') \/ i <= durable' => file'[i].nl
  <2> SUFFICES ASSUME NEW i \in 1 .. Len(file') , i < Len(file') \/ i <= durable'
               PROVE  file'[i].nl
    OBVIOUS
  <2>1. i \in 1 .. Len(file) /\ file'[i] = file[i]
    BY <1>0, <1>1
  <2>2. CASE i = Len(file)
    <3>1. file # <<>>
      BY <2>1, <2>2
    <3>2. QED
      BY <2>1, <2>2, <3>1 DEF Torn
  <2>3. CASE i # Len(file)
    BY <1>0, <2>1, <2>3 DEF IInv, DurableInv
  <2>4. QED
    BY <2>2, <2>3
<1>8. QED
  BY <1>0, <1>1, <1>3, <1>4, <1>5, <1>6, <1>7

(* A complete write appends a linked line that is not durable yet.         *)
LEMMA WriteInv ==
  ASSUME IInv, NEW w \in Writers, Write(w)
  PROVE  IInv'
<1> USE DEF Write, Goto, history
<1>0. \A v \in Writers : v # w => pc'[v] = "closed"
  BY OthersClosed DEF IInv, TypeOK
<1>00. pc'[w] = "written"
  BY DEF IInv, TypeOK
<1>1. /\ ~ Torn(file) /\ AtHead(w) /\ line[w] \in Line
      /\ line[w].seq = nextSeq[w] /\ line[w].prev = prevHash[w]
      /\ Readable(line[w]) /\ Accepts(line[w].id)
  BY DEF IInv, TailInv, HeadInv, LineInv
<1>2. file' = Append(file, line[w])
  BY <1>1 DEF AppendBytes
<1>3. /\ file' \in Seq(Line) /\ Len(file') = Len(file) + 1
      /\ file'[Len(file')] = line[w]
      /\ WholeFollows' /\ SizeInv' /\ AckedSurvive'
      /\ durable' \in 0 .. Len(file')
      /\ \A i \in 1 .. Len(file') : i < Len(file') \/ i <= durable' => file'[i].nl
  BY <1>1, <1>2, AppendLine
<1>4. file' # <<>> /\ ~ Torn(file')
  BY <1>1, <1>3 DEF Torn, Readable, IInv, TypeOK
<1>5. TypeOK'
  BY <1>3 DEF IInv, TypeOK, PCs
<1>6. LockInv'
  BY <1>0 DEF IInv, TypeOK, LockInv
<1>7. TailInv' /\ HeadInv'
  BY <1>0, <1>00, <1>4 DEF TailInv, HeadInv
<1>8. LineInv'
  BY <1>0, <1>00, <1>1, <1>3, <1>4 DEF LineInv
<1>9. DurableInv'
  BY <1>0, <1>00, <1>3 DEF IInv, DurableInv
<1>10. QED
  BY <1>3, <1>5, <1>6, <1>7, <1>8, <1>9 DEF IInv

(* A short write leaves a torn tail, and its store accepts no more records.*)
LEMMA WriteFailsInv ==
  ASSUME IInv, NEW w \in Writers, WriteFails(w)
  PROVE  IInv'
<1> USE DEF WriteFails, Goto, history
<1>0. \A v \in Writers : v # w => pc'[v] = "closed"
  BY OthersClosed DEF IInv, TypeOK
<1>00. pc'[w] = "broken"
  BY DEF IInv, TypeOK
<1>1. /\ ~ Torn(file) /\ AtHead(w) /\ line[w] \in Line
      /\ line[w].seq = nextSeq[w] /\ line[w].prev = prevHash[w]
      /\ Accepts(line[w].id)
  BY DEF IInv, TailInv, HeadInv, LineInv
<1>2. /\ file' \in Seq(Line)
      /\ WholeFollows' /\ SizeInv' /\ AckedSurvive'
      /\ durable' \in 0 .. Len(file')
      /\ \A i \in 1 .. Len(file') : i < Len(file') \/ i <= durable' => file'[i].nl
  <2>1. CASE file' = file
    BY <2>1 DEF IInv, TypeOK, WholeFollows, SizeInv, AckedSurvive, DurableInv
  <2>2. CASE \E p \in Prefixes(line[w]) : file' = AppendBytes(file, p)
    <3>1. PICK p \in Prefixes(line[w]) : file' = AppendBytes(file, p)
      BY <2>2
    <3>2. /\ p \in Line /\ p.seq = nextSeq[w] /\ p.prev = prevHash[w]
          /\ Accepts(p.id)
      BY <1>1, PrefixIsLine
    <3>3. file' = Append(file, p)
      BY <1>1, <3>1 DEF AppendBytes
    <3>4. QED
      BY <1>1, <3>2, <3>3, AppendLine
  <2>3. QED
    BY <2>1, <2>2
<1>3. TypeOK'
  BY <1>2 DEF IInv, TypeOK, PCs
<1>4. LockInv'
  BY <1>0 DEF IInv, TypeOK, LockInv
<1>5. TailInv' /\ HeadInv' /\ LineInv'
  BY <1>0, <1>00 DEF TailInv, HeadInv, LineInv
<1>6. DurableInv'
  BY <1>0, <1>00, <1>2 DEF IInv, DurableInv
<1>7. QED
  BY <1>2, <1>3, <1>4, <1>5, <1>6 DEF IInv

(* fsync returned nil: the record counts as stored, and is.                *)
LEMMA SyncInv ==
  ASSUME IInv, NEW w \in Writers, Sync(w)
  PROVE  IInv'
<1> USE DEF Sync, Goto
<1>0. \A v \in Writers : v # w => pc'[v] = "closed"
  BY OthersClosed DEF IInv, TypeOK
<1>00. /\ pc'[w] = "ready" /\ file \in Seq(Line) /\ Len(file) \in Nat
       /\ acked \in Seq(Ids) /\ Len(acked) \in Nat
  BY DEF IInv, TypeOK
<1>1. /\ ~ Torn(file) /\ line[w] \in Line /\ Readable(line[w])
      /\ line[w].seq = nextSeq[w]
      /\ file # <<>> /\ file[Len(file)] = line[w]
  BY DEF IInv, TailInv, LineInv
<1>2. line[w].id \in Ids /\ line[w].seq \in Nat \ {0}
  BY <1>1 DEF Line
<1>3. TypeOK'
  BY <1>00, <1>2 DEF IInv, TypeOK, PCs
<1>4. LockInv'
  BY <1>0 DEF IInv, TypeOK, LockInv
<1>5. WholeFollows' /\ SizeInv'
  BY DEF IInv, WholeFollows, SizeInv
<1>6. TailInv' /\ LineInv'
  BY <1>0, <1>00, <1>1 DEF TailInv, LineInv
<1>7. AtHead(w)'
  <2>1. /\ LastReadable(file, Len(file), Len(file))
        /\ Head0(file, Len(file)) = [seq |-> file[Len(file)].seq, hash |-> file[Len(file)].id]
    BY <1>00, <1>1, HeadIsLast
  <2>2. nextSeq'[w] = nextSeq[w] + 1 /\ prevHash'[w] = line[w].id
    BY DEF IInv, TypeOK
  <2>3. QED
    BY <1>00, <1>1, <2>1, <2>2 DEF AtHead
<1>8. HeadInv'
  BY <1>0, <1>7 DEF HeadInv
<1>9. DurableInv'
  <2>1. ASSUME NEW i \in 1 .. Len(file) PROVE file[i].nl
    <3>1. CASE i = Len(file)
      BY <1>1, <3>1 DEF Readable
    <3>2. CASE i # Len(file)
      <4>1. i < Len(file)
        BY <1>00, <3>2
      <4>2. QED
        BY <4>1 DEF IInv, DurableInv
    <3>3. QED
      BY <3>1, <3>2
  <2>2. QED
    BY <1>0, <1>00, <2>1 DEF IInv, DurableInv
<1>10. AckedSurvive'
  <2> SUFFICES ASSUME DirSync, NEW k \in 1 .. Len(acked')
               PROVE  linked /\ \E i \in 1 .. Len(file) :
                                  Readable(file[i]) /\ file[i].id = acked'[k]
    BY DEF AckedSurvive
  <2>1. linked
    BY DEF IInv, DurableInv
  <2>2. CASE k = Len(acked) + 1
    <3>1. acked'[k] = line[w].id /\ Len(file) \in 1 .. Len(file)
      BY <1>00, <1>1, <1>2, <2>2
    <3>2. QED
      BY <1>1, <2>1, <3>1
  <2>3. CASE k # Len(acked) + 1
    <3>1. k \in 1 .. Len(acked) /\ acked'[k] = acked[k]
      BY <1>00, <1>2, <2>3
    <3>2. PICK i \in 1 .. durable : Readable(file[i]) /\ file[i].id = acked[k]
      BY <3>1 DEF IInv, AckedSurvive
    <3>3. i \in 1 .. Len(file)
      BY DEF IInv, TypeOK
    <3>4. QED
      BY <2>1, <3>1, <3>2, <3>3
  <2>4. QED
    BY <2>2, <2>3
<1>11. QED
  BY <1>3, <1>4, <1>5, <1>6, <1>8, <1>9, <1>10 DEF IInv

(* A failed fsync acknowledges nothing, and closes the store to appends.   *)
LEMMA SyncFailsInv ==
  ASSUME IInv, NEW w \in Writers, SyncFails(w)
  PROVE  IInv'
<1> USE DEF SyncFails, Goto, fileVars, history
<1>0. \A v \in Writers : v # w => pc'[v] = "closed"
  BY OthersClosed DEF IInv, TypeOK
<1>00. pc'[w] = "broken"
  BY DEF IInv, TypeOK
<1>1. TypeOK'
  BY DEF IInv, TypeOK, PCs
<1>2. LockInv'
  BY <1>0 DEF IInv, TypeOK, LockInv
<1>3. WholeFollows' /\ SizeInv' /\ AckedSurvive'
  BY DEF IInv, WholeFollows, SizeInv, AckedSurvive
<1>4. TailInv' /\ HeadInv' /\ LineInv'
  BY <1>0, <1>00 DEF TailInv, HeadInv, LineInv
<1>5. DurableInv'
  BY <1>0, <1>00 DEF IInv, DurableInv
<1>6. QED
  BY <1>1, <1>2, <1>3, <1>4, <1>5 DEF IInv

(* A power loss keeps the durable lines, all of them terminated; without a *)
(* durable name nothing has been acknowledged yet.                         *)
LEMMA PowerLossInv ==
  ASSUME IInv, PowerLoss
  PROVE  IInv'
<1> USE DEF PowerLoss, history
<1>0. \A v \in Writers : pc'[v] = "closed"
  OBVIOUS
<1>00. /\ file \in Seq(Line) /\ Len(file) \in Nat /\ durable \in 0 .. Len(file)
  BY DEF IInv, TypeOK
<1>1. /\ file' \in Seq(Line) /\ Len(file') \in 0 .. Len(file)
      /\ \A i \in 1 .. Len(file') :
           /\ i < Len(file') => file'[i] = file[i]
           /\ file'[i].id = file[i].id /\ file'[i].seq = file[i].seq
           /\ file'[i].prev = file[i].prev
           /\ file'[i].whole => file[i].whole
      /\ linked => durable <= Len(file') /\ \A i \in 1 .. durable : file'[i] = file[i]
  <2>1. CASE file' \in Cuts(file, durable)
    <3>1. /\ file' \in Seq(Line)
          /\ Len(file') \in durable .. Len(file)
          /\ \A i \in 1 .. Len(file') : i <= durable \/ i < Len(file') => file'[i] = file[i]
          /\ \A i \in 1 .. Len(file') :
               /\ file'[i].id = file[i].id /\ file'[i].seq = file[i].seq
               /\ file'[i].prev = file[i].prev
               /\ file'[i].whole => file[i].whole
      BY <1>00, <2>1, CutFile
    <3>2. QED
      BY <1>00, <3>1
  <2>2. CASE file' = <<>> /\ ~ linked
    BY <1>00, <2>2
  <2>3. QED
    BY <2>1, <2>2
<1>2. Len(file') \in Nat
  BY <1>1
<1>3. /\ Torn(file') => durable' = Len(file') - 1 /\ Len(file') > 0
      /\ ~ Torn(file') => durable' = Len(file')
  BY <1>1, <1>2 DEF Torn
<1>4. durable' \in 0 .. Len(file')
  BY <1>2, <1>3
<1>5. TypeOK'
  <2>1. pc' \in [Writers -> PCs] /\ line' \in [Writers -> Line \cup {NoLine}]
    BY DEF PCs
  <2>2. QED
    BY <1>1, <1>4, <2>1 DEF IInv, TypeOK
<1>6. LockInv' /\ TailInv' /\ HeadInv' /\ LineInv'
  BY <1>0 DEF LockInv, TailInv, HeadInv, LineInv
<1>7. WholeFollows'
  <2> SUFFICES ASSUME NEW i \in 1 .. Len(file'), file'[i].whole
               PROVE  Follows(file', i)
    BY DEF WholeFollows
  <2>1. /\ i \in 1 .. Len(file) /\ i \in Nat \ {0} /\ file[i].whole
        /\ \A k \in 1 .. (i - 1) : file'[k] = file[k]
        /\ file'[i].seq = file[i].seq /\ file'[i].prev = file[i].prev
    BY <1>00, <1>1
  <2>2. Follows(file, i)
    BY <2>1 DEF IInv, WholeFollows
  <2>3. QED
    BY <2>1, <2>2, FollowsSame
<1>8. SizeInv'
  BY <1>00, <1>1 DEF IInv, SizeInv
<1>9. DurableInv'
  <2>1. ASSUME NEW i \in 1 .. Len(file'), i < Len(file') \/ i <= durable'
        PROVE  file'[i].nl
    <3>1. CASE i < Len(file')
      <4>1. file'[i] = file[i] /\ i \in 1 .. Len(file) /\ i < Len(file)
        BY <1>00, <1>1, <3>1
      <4>2. QED
        BY <4>1 DEF IInv, DurableInv
    <3>2. CASE i = Len(file')
      <4>1. ~ Torn(file') /\ file' # <<>>
        BY <1>2, <1>3, <2>1, <3>2
      <4>2. QED
        BY <3>2, <4>1 DEF Torn
    <3>3. QED
      BY <1>2, <3>1, <3>2
  <2>2. QED
    BY <1>0, <2>1 DEF DurableInv
<1>10. AckedSurvive'
  <2> SUFFICES ASSUME DirSync, NEW k \in 1 .. Len(acked)
               PROVE  linked /\ \E i \in 1 .. durable' :
                                  Readable(file'[i]) /\ file'[i].id = acked[k]
    BY DEF AckedSurvive
  <2>1. linked
    BY DEF IInv, AckedSurvive
  <2>2. PICK i \in 1 .. durable : Readable(file[i]) /\ file[i].id = acked[k]
    BY DEF IInv, AckedSurvive
  <2>3. file'[i] = file[i] /\ i \in 1 .. Len(file')
    BY <1>00, <1>1, <2>1, <2>2
  <2>4. i \in 1 .. durable'
    <3>1. CASE Torn(file')
      <4>1. i # Len(file')
        BY <2>2, <2>3, <3>1 DEF Torn, Readable
      <4>2. durable' = Len(file') - 1
        BY <1>3, <3>1
      <4> HIDE DEF PowerLoss
      <4>3. QED
        BY <1>2, <2>3, <4>1, <4>2
    <3>2. CASE ~ Torn(file')
      BY <1>3, <2>3, <3>2
    <3>3. QED
      BY <3>1, <3>2
  <2>5. QED
    BY <2>1, <2>2, <2>3, <2>4
<1>11. QED
  BY <1>5, <1>6, <1>7, <1>8, <1>9, <1>10 DEF IInv

(* Every step of a writer, every kill and every power loss keeps it.       *)
LEMMA NextInv == IInv /\ [Next]_vars => IInv'
<1> SUFFICES ASSUME IInv, [Next]_vars PROVE IInv'
  OBVIOUS
<1>1. ASSUME NEW w \in Writers, Open(w) PROVE IInv'
  <2>1. CASE AcquireLock(w)
    BY <2>1, AcquireLockInv
  <2>2. CASE OpenLog(w)
    BY <2>2, OpenLogInv
  <2>3. CASE OpenFails(w)
    <3>1. pc[w] # "closed" /\ Release(w) /\ UNCHANGED <<fileVars, spent, acked, refused>>
      BY <2>3 DEF OpenFails, history
    <3>2. QED
      BY <3>1, ReleaseInv DEF IInv, TypeOK
  <2>4. CASE CloseTornTail(w)
    BY <2>4, CloseTornTailInv
  <2>5. CASE Resume(w)
    BY <2>5, ResumeInv
  <2>6. CASE RefuseChain(w)
    <3>1. /\ pc[w] # "closed" /\ Release(w) /\ UNCHANGED <<fileVars, spent, acked>>
          /\ refused' = TRUE
      BY <2>6 DEF RefuseChain
    <3>2. QED
      BY <3>1, ReleaseInv
  <2>7. QED
    BY <1>1, <2>1, <2>2, <2>3, <2>4, <2>5, <2>6 DEF Open
<1>2. ASSUME NEW w \in Writers, AppendRecord(w) PROVE IInv'
  BY <1>2, SealInv, RejectInv, WriteInv, WriteFailsInv, SyncInv, SyncFailsInv
     DEF AppendRecord
<1>3. ASSUME NEW w \in Writers, Close(w) \/ Kill(w) PROVE IInv'
  <2>1. pc[w] # "closed" /\ Release(w) /\ UNCHANGED <<fileVars, spent, acked, refused>>
    BY <1>3 DEF Close, Kill, history
  <2>2. QED
    BY <2>1, ReleaseInv DEF IInv, TypeOK
<1>4. CASE PowerLoss
  BY <1>4, PowerLossInv
<1>5. CASE UNCHANGED vars
  <2> USE <1>5 DEF vars, fileVars, writerVars, history
  <2>1. TypeOK' /\ LockInv' /\ WholeFollows' /\ TailInv' /\ SizeInv' /\ AckedSurvive'
    BY DEF IInv, TypeOK, LockInv, WholeFollows, TailInv, SizeInv, AckedSurvive
  <2>2. HeadInv' /\ LineInv' /\ DurableInv'
    BY DEF IInv, HeadInv, AtHead, LineInv, DurableInv
  <2>3. QED
    BY <2>1, <2>2 DEF IInv
<1>6. QED
  BY <1>1, <1>2, <1>3, <1>4, <1>5 DEF Next

(* The inductive invariant holds of every reachable state of the store:    *)
(* lock, head, tail, pending line and durability of store.go agree.        *)
THEOREM Invariance == Spec => []IInv
BY InitInv, NextInv, PTL DEF Spec

(* The variables of the store keep their types, through every failure of   *)
(* store.go's writes and through crashes.                                  *)
THEOREM TypeCorrect == Spec => []TypeOK
<1>1. IInv => TypeOK
  BY DEF IInv
<1>2. QED
  BY <1>1, Invariance, PTL

(* Crashes, torn writes and failed fsyncs never break the chain that       *)
(* resume picked up and Append continues.                                  *)
THEOREM ChainIsUnbroken == Spec => []ChainUnbroken
<1>1. IInv => ChainUnbroken
  BY DEF IInv, WholeFollows, ChainUnbroken, Readable
<1>2. QED
  BY <1>1, Invariance, PTL

(* A record whose Append returned nil is never lost.                       *)
THEOREM AckedRecordsSurvive == Spec => []AckedSurvive
<1>1. IInv => AckedSurvive
  BY DEF IInv
<1>2. QED
  BY <1>1, Invariance, PTL

(* As long as no record's canonical line is exactly MaxRecordBytes long,   *)
(* Open never refuses a log that this store wrote.                         *)
THEOREM OpenNeverRefuses ==
  ASSUME \A id \in Ids : SizeOf[id] # MaxRecordBytes
  PROVE  Spec => []NeverRefused
<1>1. IInv => ~ WalkFailed(file)
  <2> SUFFICES ASSUME IInv, NEW i \in 1 .. Len(file), Broken(file, i)
               PROVE  FALSE
    BY DEF WalkFailed
  <2>1. Readable(file[i]) => Follows(file, i)
    BY DEF IInv, WholeFollows, Readable
  <2>2. file[i].id \in Ids /\ SizeOf[file[i].id] <= MaxRecordBytes
    <3>1. file[i] \in Line
      BY DEF IInv, TypeOK
    <3>2. QED
      BY <3>1 DEF IInv, SizeInv, Accepts, Line
  <2>3. ~ TooLong(file[i])
    BY <2>2, SizeAssumption DEF TooLong
  <2>4. QED
    BY <2>1, <2>3 DEF Broken
<1>2. Init => NeverRefused
  BY DEF Init, NeverRefused
<1>3. IInv /\ NeverRefused /\ [Next]_vars => NeverRefused'
  <2> SUFFICES ASSUME IInv, NeverRefused, [Next]_vars PROVE UNCHANGED refused
    BY DEF NeverRefused
  <2>1. ~ \E w \in Writers : RefuseChain(w)
    BY <1>1 DEF RefuseChain
  <2>2. ASSUME NEW w \in Writers, Open(w) PROVE UNCHANGED refused
    BY <2>1, <2>2 DEF Open, AcquireLock, OpenLog, OpenFails, CloseTornTail, Resume, history
  <2>3. ASSUME NEW w \in Writers, AppendRecord(w) PROVE UNCHANGED refused
    BY <2>3 DEF AppendRecord, Seal, Reject, Write, WriteFails, Sync, SyncFails, history
  <2>4. QED
    BY <2>2, <2>3 DEF Next, Close, Kill, PowerLoss, vars, history
<1>4. QED
  BY <1>1, <1>2, <1>3, Invariance, PTL DEF Spec
-----------------------------------------------------------------------------
(* Append-only.                                                            *)

(* What a step does to the file, short of a power loss: it leaves it,      *)
(* closes its torn tail, or puts one line behind a closed one.             *)
LEMMA FileStep ==
  ASSUME IInv, [Next]_vars, ~ PowerLoss
  PROVE  \/ UNCHANGED file
         \/ Torn(file) /\ file' = Terminate(file)
         \/ \E w \in Writers, ln \in Line :
              /\ pc[w] = "sealed" /\ ~ Torn(file) /\ file' = Append(file, ln)
              /\ ln.id = line[w].id
              /\ \/ Write(w) /\ ln = line[w]
                 \/ WriteFails(w) /\ ~ ln.nl
<1>1. ASSUME NEW w \in Writers, Write(w) \/ WriteFails(w), ~ UNCHANGED file
      PROVE  \E ln \in Line :
               /\ pc[w] = "sealed" /\ ~ Torn(file) /\ file' = Append(file, ln)
               /\ ln.id = line[w].id
               /\ \/ Write(w) /\ ln = line[w]
                  \/ WriteFails(w) /\ ~ ln.nl
  <2>1. pc[w] = "sealed" /\ ~ Torn(file) /\ line[w] \in Line
    BY <1>1 DEF IInv, TailInv, LineInv, Write, WriteFails
  <2>2. CASE Write(w)
    BY <2>1, <2>2 DEF Write, AppendBytes
  <2>3. CASE WriteFails(w)
    <3>1. PICK p \in Prefixes(line[w]) : file' = AppendBytes(file, p)
      BY <2>3, <1>1 DEF WriteFails
    <3>2. p \in Line /\ p.id = line[w].id /\ p.nl = FALSE
      BY <2>1, <3>1, PrefixIsLine
    <3>3. QED
      BY <2>1, <2>3, <3>1, <3>2 DEF AppendBytes
  <2>4. QED
    BY <1>1, <2>2, <2>3
<1>2. ASSUME NEW w \in Writers, Open(w)
      PROVE  UNCHANGED file \/ (Torn(file) /\ file' = Terminate(file))
  BY <1>2 DEF Open, AcquireLock, OpenLog, OpenFails, CloseTornTail, Resume, RefuseChain, fileVars
<1>3. ASSUME NEW w \in Writers, AppendRecord(w), ~ Write(w), ~ WriteFails(w)
      PROVE  UNCHANGED file
  BY <1>3 DEF AppendRecord, Seal, Reject, Sync, SyncFails, fileVars
<1>4. ASSUME NEW w \in Writers, Close(w) \/ Kill(w)
      PROVE  UNCHANGED file
  BY <1>4 DEF Close, Kill, fileVars
<1>5. ASSUME UNCHANGED vars
      PROVE  UNCHANGED file
  BY <1>5 DEF vars, fileVars
<1>6. QED
  BY <1>1, <1>2, <1>3, <1>4, <1>5 DEF Next

LEMMA StepExtends ==
  ASSUME IInv, [Next]_vars, ~ PowerLoss
  PROVE  Extends(file, file')
<1>1. file \in Seq(Line) /\ Len(file) \in Nat
  BY DEF IInv, TypeOK
<1>2. CASE UNCHANGED file
  BY <1>1, <1>2 DEF Extends
<1>3. CASE Torn(file) /\ file' = Terminate(file)
  <2> DEFINE n == Len(file)
             e == [file[n] EXCEPT !.nl = TRUE]
  <2>1. n \in 1 .. n /\ ~ file[n].nl /\ file[n] \in Line
    BY <1>1, <1>3 DEF Torn
  <2>2. e \in Line
    BY <2>1 DEF Line
  <2>3. file' = [file EXCEPT ![n] = e]
    BY <1>3 DEF Terminate
  <2> HIDE DEF e
  <2>4. Len(file') = n /\ \A i \in 1 .. n : file'[i] = IF i = n THEN e ELSE file[i]
    BY <1>1, <2>1, <2>2, <2>3, ReplaceLine
  <2>5. \A i \in 1 .. n : \/ file'[i] = file[i]
                          \/ i = n /\ ~ file[i].nl /\ file'[i] = [file[i] EXCEPT !.nl = TRUE]
    BY <2>1, <2>4 DEF e
  <2>6. QED
    BY <1>1, <2>4, <2>5 DEF Extends
<1>4. CASE \E ln \in Line : file' = Append(file, ln)
  <2>1. PICK ln \in Line : file' = Append(file, ln)
    BY <1>4
  <2>2. Len(file') = Len(file) + 1 /\ \A i \in 1 .. Len(file) : file'[i] = file[i]
    BY <1>1, <2>1
  <2>3. QED
    BY <1>1, <2>2 DEF Extends
<1>5. QED
  BY <1>2, <1>3, <1>4, FileStep

(* Short of a power loss the store never changes a byte it has written: it *)
(* closes a torn tail and appends.                                         *)
THEOREM FileIsAppendOnly == Spec => AppendOnly
<1>1. IInv /\ [Next]_vars => [Extends(file, file') \/ PowerLoss]_vars
  BY StepExtends
<1>2. QED
  BY <1>1, Invariance, PTL DEF Spec, AppendOnly

-----------------------------------------------------------------------------
(* No record is written twice.                                             *)
LEMMA OnceStep ==
  ASSUME IInv, OnceInv, IInv', [Next]_vars
  PROVE  OnceInv'
<1>0. file \in Seq(Line) /\ Len(file) \in Nat /\ acked \in Seq(Ids) /\ Len(acked) \in Nat
      /\ pc \in [Writers -> PCs] /\ line \in [Writers -> Line \cup {NoLine}]
  BY DEF IInv, TypeOK
<1>1. ASSUME UNCHANGED <<file, acked>>, spent \subseteq spent',
             \A w \in Writers : /\ pc'[w] = "sealed" => pc[w] = "sealed" /\ line'[w] = line[w]
                                /\ pc'[w] = "written" => pc[w] = "written" /\ line'[w] = line[w]
      PROVE  OnceInv'
  BY <1>1 DEF OnceInv, Acked
<1>2. ASSUME NEW w \in Writers, Release(w), UNCHANGED <<file, acked, spent>>
      PROVE  OnceInv'
  <2>1. \A v \in Writers : pc'[v] \in {"sealed", "written"}
                             => v # w /\ pc'[v] = pc[v] /\ line'[v] = line[v]
    BY <1>0, <1>2 DEF Release
  <2>2. QED
    BY <1>1, <1>2, <2>1
<1>3. ASSUME NEW w \in Writers, NEW label \in {"locked", "opened", "resuming", "ready", "broken"},
             Goto(w, label), UNCHANGED <<file, acked, spent, line>>
      PROVE  OnceInv'
  <2>1. \A v \in Writers : pc'[v] \in {"sealed", "written"}
                             => pc'[v] = pc[v] /\ line'[v] = line[v]
    BY <1>0, <1>3 DEF Goto
  <2>2. QED
    BY <1>1, <1>3, <2>1
<1>4. ASSUME NEW w \in Writers, Open(w), ~ CloseTornTail(w)
      PROVE  OnceInv'
  <2>1. CASE AcquireLock(w) \/ OpenLog(w) \/ Resume(w)
    BY <2>1, <1>3 DEF AcquireLock, OpenLog, Resume, fileVars, history
  <2>2. CASE OpenFails(w) \/ RefuseChain(w)
    BY <2>2, <1>2 DEF OpenFails, RefuseChain, fileVars, history
  <2>3. QED
    BY <1>4, <2>1, <2>2 DEF Open
<1>5. ASSUME NEW w \in Writers, CloseTornTail(w)
      PROVE  OnceInv'
  <2>1. CASE ~ Torn(file)
    BY <2>1, <1>3, <1>5 DEF CloseTornTail, history
  <2>2. CASE Torn(file)
    <3>1. file # <<>> /\ file' = Terminate(file)
      BY <1>5, <2>2 DEF CloseTornTail, Torn
    <3>2. Len(file') = Len(file)
          /\ (\A i \in 1 .. (Len(file) - 1) : file'[i] = file[i])
          /\ file'[Len(file)].id = file[Len(file)].id
      BY <1>0, <3>1, TerminateFile
    <3>3. \A i \in 1 .. Len(file) : file'[i].id = file[i].id
      <4> TAKE i \in 1 .. Len(file)
      <4>1. CASE i = Len(file)
        BY <4>1, <3>2
      <4>2. CASE i # Len(file)
        <5>1. i \in 1 .. (Len(file) - 1)
          BY <4>2, <1>0
        <5>2. QED
          BY <5>1, <3>2
      <4>3. QED
        BY <4>1, <4>2
    <3>4. \A v \in Writers : pc'[v] \in {"sealed", "written"} => pc'[v] = pc[v]
      BY <1>0, <1>5 DEF CloseTornTail, Goto
    <3>5. UNCHANGED <<acked, spent, line>>
      BY <1>5 DEF CloseTornTail, history
    <3>6. QED
      BY <3>2, <3>3, <3>4, <3>5 DEF OnceInv, Acked
  <2>3. QED
    BY <2>1, <2>2
<1>6. ASSUME NEW w \in Writers, NEW id \in Ids, Seal(w, id)
      PROVE  OnceInv'
  <2>1. UNCHANGED <<file, acked>> /\ spent' = spent \cup {id} /\ id \notin spent
    BY <1>6 DEF Seal, fileVars
  <2>2. pc'[w] = "sealed" /\ line'[w].id = id
        /\ \A v \in Writers : v # w => pc'[v] = pc[v] /\ line'[v] = line[v]
    BY <1>0, <1>6 DEF Seal, Goto
  <2>3. QED
    BY <2>1, <2>2 DEF OnceInv, Acked
<1>7. ASSUME NEW w \in Writers, NEW id \in Ids, Reject(w, id)
      PROVE  OnceInv'
  BY <1>1, <1>7 DEF Reject, fileVars, writerVars
<1>8. ASSUME NEW w \in Writers, Write(w) \/ WriteFails(w)
      PROVE  OnceInv'
  <2>1. UNCHANGED <<acked, spent, line>> /\ pc[w] = "sealed"
        /\ Goto(w, IF pc'[w] = "written" THEN "written" ELSE "broken")
    BY <1>0, <1>8 DEF Write, WriteFails, Goto, history
  <2>2. \A v \in Writers : v # w => pc'[v] = "closed"
    BY <1>0, <2>1, OthersClosed DEF IInv, Goto
  <2>3. pc'[w] # "sealed"
    BY <1>0, <2>1 DEF Goto
  <2>4. CASE UNCHANGED file
    BY <2>1, <2>2, <2>3, <2>4 DEF OnceInv, Acked
  <2>5. CASE ~ UNCHANGED file
    <3>1. PICK ln \in Line : file' = Append(file, ln) /\ ln.id = line[w].id
      <4>1. line[w] \in Line /\ ~ Torn(file)
        BY <2>1 DEF IInv, LineInv, TailInv
      <4>2. CASE Write(w)
        BY <4>1, <4>2 DEF Write, AppendBytes
      <4>3. CASE WriteFails(w)
        BY <4>1, <4>3, <2>5, PrefixIsLine DEF WriteFails, AppendBytes
      <4>4. QED
        BY <1>8, <4>2, <4>3
    <3>2. Len(file') = Len(file) + 1 /\ file'[Len(file) + 1] = ln
          /\ \A i \in 1 .. Len(file) : file'[i] = file[i]
      BY <1>0, <3>1
    <3>3. line[w].id \in spent /\ ~ Acked(acked, line[w].id)
          /\ \A i \in 1 .. Len(file) : file[i].id # line[w].id
      BY <2>1 DEF OnceInv
    <3>4. \A i, j \in 1 .. Len(file') : file'[i].id = file'[j].id => i = j
      BY <1>0, <3>1, <3>2, <3>3 DEF OnceInv
    <3>5. \A i \in 1 .. Len(file') : file'[i].id \in spent'
      BY <1>0, <2>1, <3>1, <3>2, <3>3 DEF OnceInv
    <3>6. QED
      BY <2>1, <2>2, <2>3, <3>3, <3>4, <3>5 DEF OnceInv, Acked
  <2>6. QED
    BY <2>4, <2>5
<1>9. ASSUME NEW w \in Writers, Sync(w)
      PROVE  OnceInv'
  <2>1. UNCHANGED <<file, spent, line>> /\ acked' = Append(acked, line[w].id)
        /\ pc[w] = "written"
    BY <1>9 DEF Sync
  <2>2. file # <<>> /\ file[Len(file)] = line[w] /\ line[w] \in Line
    BY <2>1 DEF IInv, LineInv
  <2>3. line[w].id \in spent /\ line[w].id \in Ids
    BY <1>0, <2>2 DEF OnceInv, Line
  <2>4. \A k \in 1 .. Len(acked') : acked'[k] \in spent'
    BY <1>0, <2>1, <2>3 DEF OnceInv
  <2>5. \A v \in Writers : pc'[v] \notin {"sealed", "written"}
    BY <1>0, <1>9, <2>1, OthersClosed DEF IInv, Sync, Goto
  <2>6. QED
    BY <2>1, <2>4, <2>5 DEF OnceInv
<1>10. ASSUME NEW w \in Writers, SyncFails(w)
       PROVE  OnceInv'
  BY <1>3, <1>10 DEF SyncFails, fileVars, history
<1>11. ASSUME NEW w \in Writers, Close(w) \/ Kill(w)
       PROVE  OnceInv'
  BY <1>2, <1>11 DEF Close, Kill, fileVars, history
<1>12. CASE PowerLoss
  <2>1. /\ Len(file') \in 0 .. Len(file)
        /\ \A i \in 1 .. Len(file') : file'[i].id = file[i].id
    <3>1. durable \in 0 .. Len(file)
      BY DEF IInv, TypeOK
    <3>2. CASE file' \in Cuts(file, durable)
      BY <1>0, <3>1, <3>2, CutFile
    <3>3. CASE file' = <<>>
      BY <1>0, <3>3
    <3>4. QED
      BY <1>12, <3>2, <3>3 DEF PowerLoss
  <2>2. UNCHANGED <<spent, acked>> /\ \A v \in Writers : pc'[v] = "closed"
    BY <1>12 DEF PowerLoss, history
  <2>3. \A i \in 1 .. Len(file') : i \in 1 .. Len(file)
    BY <1>0, <2>1
  <2>4. \A i, j \in 1 .. Len(file') : file'[i].id = file'[j].id => i = j
    BY <2>1, <2>3 DEF OnceInv
  <2>5. \A i \in 1 .. Len(file') : file'[i].id \in spent'
    BY <2>1, <2>2, <2>3 DEF OnceInv
  <2>6. \A k \in 1 .. Len(acked') : acked'[k] \in spent'
    BY <2>2 DEF OnceInv
  <2>7. QED
    BY <2>2, <2>4, <2>5, <2>6 DEF OnceInv
<1>13. CASE UNCHANGED vars
  BY <1>1, <1>13 DEF vars, fileVars, writerVars, history
<1>14. QED
  BY <1>4, <1>5, <1>6, <1>7, <1>8, <1>9, <1>10, <1>11, <1>12, <1>13 DEF Next, AppendRecord

LEMMA OnceHolds == Spec => []OnceInv
<1>1. Init => OnceInv
  BY DEF Init, OnceInv, Acked
<1>2. IInv /\ IInv' /\ OnceInv /\ [Next]_vars => OnceInv'
  BY OnceStep
<1>3. QED
  BY <1>1, <1>2, Invariance, PTL DEF Spec
-----------------------------------------------------------------------------
(* The verified chain. A record's place in it is one more than the number  *)
(* of records before it in the file.                                       *)
Rank(f, i) == Cardinality({k \in Records(f) : k < i}) + 1

LEMMA RecordsFinite ==
  ASSUME NEW f \in Seq(Line)
  PROVE  /\ IsFiniteSet(Records(f)) /\ Cardinality(Records(f)) \in Nat
         /\ \A i \in Records(f) : i \in 1 .. Len(f) /\ i \in Nat
<1>1. Len(f) \in Nat /\ Records(f) \in SUBSET (1 .. Len(f))
  BY DEF Records
<1>2. IsFiniteSet(1 .. Len(f))
  BY <1>1, FS_Interval
<1>3. IsFiniteSet(Records(f))
  BY <1>1, <1>2, FS_Subset
<1>4. QED
  BY <1>1, <1>3, FS_CardinalityType

LEMMA RankGrows ==
  ASSUME NEW f \in Seq(Line)
  PROVE  /\ \A i \in Records(f) : Rank(f, i) \in 1 .. Cardinality(Records(f))
         /\ \A i, j \in Records(f) : i < j => Rank(f, i) < Rank(f, j)
<1> DEFINE R == Records(f)
           Before(i) == {k \in R : k < i}
<1>1. IsFiniteSet(R) /\ Cardinality(R) \in Nat /\ \A i \in R : i \in Nat
  BY RecordsFinite
<1> HIDE DEF R
<1>2. \A i \in R : IsFiniteSet(Before(i)) /\ Cardinality(Before(i)) \in Nat
  <2> TAKE i \in R
  <2>1. Before(i) \in SUBSET R
    OBVIOUS
  <2>2. QED
    BY <1>1, <2>1, FS_Subset, FS_CardinalityType
<1>3. \A i \in R : Cardinality(Before(i)) + 1 \in 1 .. Cardinality(R)
  <2> TAKE i \in R
  <2>1. Before(i) \in SUBSET (R \ {i})
    BY <1>1
  <2>2. IsFiniteSet(R \ {i}) /\ Cardinality(R \ {i}) = Cardinality(R) - 1
    BY <1>1, FS_RemoveElement
  <2>3. Cardinality(Before(i)) <= Cardinality(R) - 1
    BY <2>1, <2>2, FS_Subset
  <2>4. Cardinality(Before(i)) \in Nat
    BY <1>2
  <2>5. QED
    BY <1>1, <2>3, <2>4
<1>4. \A i, j \in R : i < j => Cardinality(Before(i)) + 1 < Cardinality(Before(j)) + 1
  <2> TAKE i, j \in R
  <2> HAVE i < j
  <2>1. Before(i) \subseteq Before(j) \ {i} /\ i \in Before(j)
    BY <1>1
  <2>2. IsFiniteSet(Before(j) \ {i})
        /\ Cardinality(Before(j) \ {i}) = Cardinality(Before(j)) - 1
    BY <1>2, <2>1, FS_RemoveElement
  <2>3. Cardinality(Before(i)) <= Cardinality(Before(j) \ {i})
    BY <2>1, <2>2, FS_Subset
  <2>4. Cardinality(Before(i)) \in Nat /\ Cardinality(Before(j)) \in Nat
    BY <1>2
  <2>5. QED
    BY <2>2, <2>3, <2>4
<1>5. QED
  BY <1>3, <1>4 DEF Rank, R

(* So the places are taken one by one, each by one record.                 *)
LEMMA ChainPlaces ==
  ASSUME NEW f \in Seq(Line)
  PROVE  /\ ChainOf(f) \in Seq(Ids) /\ Len(ChainOf(f)) = Cardinality(Records(f))
         /\ \A i \in Records(f) : /\ Rank(f, i) \in 1 .. Len(ChainOf(f))
                                  /\ ChainOf(f)[Rank(f, i)] = f[i].id
         /\ \A n \in 1 .. Len(ChainOf(f)) : \E i \in Records(f) : Rank(f, i) = n
<1> DEFINE R == Records(f)
           N == Cardinality(R)
           rank == [i \in R |-> Rank(f, i)]
<1>1. IsFiniteSet(R) /\ N \in Nat /\ \A i \in R : i \in 1 .. Len(f) /\ i \in Nat
  BY RecordsFinite
<1>2. \A i \in R : rank[i] = Rank(f, i) /\ rank[i] \in 1 .. N
  BY RankGrows
<1>3. \A i, j \in R : rank[i] = rank[j] => i = j
  <2> TAKE i, j \in R
  <2> HAVE rank[i] = rank[j]
  <2>1. i \in Nat /\ j \in Nat /\ Rank(f, i) = Rank(f, j) /\ Rank(f, i) \in Nat
    BY <1>1, <1>2
  <2>2. ~ (i < j) /\ ~ (j < i)
    BY <2>1, RankGrows
  <2>3. QED
    BY <2>1, <2>2
<1>4. rank \in [R -> 1 .. N]
  BY <1>2
<1>5. IsFiniteSet(1 .. N) /\ Cardinality(1 .. N) = Cardinality(R)
  BY <1>1, FS_Interval
<1> HIDE DEF rank
<1>6. rank \in Injection(R, 1 .. N)
  BY <1>3, <1>4 DEF Injection, IsInjective
<1> HIDE DEF R, N
<1>7. rank \in Surjection(R, 1 .. N)
  BY <1>5, <1>6, FS_Injection
<1>8. \A n \in 1 .. N : \E i \in R : Rank(f, i) = n
  BY <1>2, <1>7 DEF Surjection
<1>9. \A n \in 1 .. N : NthRecord(f, n) \in R /\ Rank(f, NthRecord(f, n)) = n
  <2> TAKE n \in 1 .. N
  <2>1. PICK i \in R : Rank(f, i) = n
    BY <1>8
  <2>2. {k \in R : k < i} \in SUBSET R
    OBVIOUS
  <2>3. Cardinality({k \in R : k < i}) \in Nat
    BY <1>1, <2>2, FS_Subset, FS_CardinalityType
  <2>4. Cardinality({k \in R : k < i}) = n - 1
    BY <1>1, <2>1, <2>3 DEF Rank, R
  <2>5. /\ NthRecord(f, n) \in R
        /\ Cardinality({k \in R : k < NthRecord(f, n)}) = n - 1
    <3>1. \E x \in R : Cardinality({k \in R : k < x}) = n - 1
      BY <2>4
    <3>2. NthRecord(f, n) = CHOOSE x \in R : Cardinality({k \in R : k < x}) = n - 1
      BY DEF NthRecord, R
    <3>3. QED
      BY <3>1, <3>2
  <2>6. n - 1 + 1 = n
    BY <1>1
  <2>7. QED
    BY <2>5, <2>6 DEF Rank, R
<1>10. ChainOf(f) = [n \in 1 .. N |-> f[NthRecord(f, n)].id]
  BY DEF ChainOf, N, R
<1>11. \A n \in 1 .. N : f[NthRecord(f, n)].id \in Ids
  <2>1. \A i \in R : f[i] \in Line
    BY <1>1
  <2>2. QED
    BY <1>9, <2>1 DEF Line
<1>12. ChainOf(f) \in Seq(Ids) /\ Len(ChainOf(f)) = N
  BY <1>1, <1>10, <1>11
<1>13. \A i \in R : /\ Rank(f, i) \in 1 .. N
                    /\ ChainOf(f)[Rank(f, i)] = f[i].id
  BY <1>2, <1>3, <1>9, <1>10
<1>14. QED
  BY <1>8, <1>12, <1>13 DEF N, R

(* Two files of which the records of one are the first of the other's have *)
(* chains of which one is the beginning of the other.                      *)
LEMMA ChainSegment ==
  ASSUME NEW f \in Seq(Line), NEW g \in Seq(Line), Records(f) \subseteq Records(g),
         \A i \in Records(f) : \A k \in Records(g) \ Records(f) : i < k,
         \A i \in Records(f) : g[i].id = f[i].id
  PROVE  /\ \A i \in Records(f) : Rank(g, i) = Rank(f, i)
         /\ Len(ChainOf(f)) <= Len(ChainOf(g))
         /\ \A n \in 1 .. Len(ChainOf(f)) : ChainOf(g)[n] = ChainOf(f)[n]
<1>1. \A i \in Records(f) : Rank(g, i) = Rank(f, i)
  <2> TAKE i \in Records(f)
  <2>1. \A k \in Records(g) : k \in Nat /\ i \in Nat
    BY RecordsFinite
  <2>2. {k \in Records(g) : k < i} = {k \in Records(f) : k < i}
    BY <2>1
  <2>3. QED
    BY <2>2 DEF Rank
<1>2. Len(ChainOf(f)) <= Len(ChainOf(g))
  BY RecordsFinite, ChainPlaces, FS_Subset
<1>3. ASSUME NEW n \in 1 .. Len(ChainOf(f))
      PROVE  ChainOf(g)[n] = ChainOf(f)[n]
  <2>1. PICK i \in Records(f) : Rank(f, i) = n
    BY ChainPlaces
  <2>2. ChainOf(f)[Rank(f, i)] = f[i].id /\ ChainOf(g)[Rank(g, i)] = g[i].id
    BY ChainPlaces
  <2>3. QED
    BY <1>1, <2>1, <2>2
<1>4. QED
  BY <1>1, <1>2, <1>3

(* Nothing new to read: the same chain.                                    *)
LEMMA ChainSame ==
  ASSUME NEW f \in Seq(Line), NEW g \in Seq(Line), Records(f) = Records(g),
         \A i \in Records(f) : g[i].id = f[i].id
  PROVE  ChainOf(g) = ChainOf(f)
<1>1. ChainOf(f) \in Seq(Ids) /\ ChainOf(g) \in Seq(Ids) /\ Len(ChainOf(g)) = Len(ChainOf(f))
  BY ChainPlaces
<1>2. \A n \in 1 .. Len(ChainOf(f)) : ChainOf(g)[n] = ChainOf(f)[n]
  BY ChainSegment
<1> DEFINE c == ChainOf(f)
           d == ChainOf(g)
<1> HIDE DEF c, d
<1>3. c \in Seq(Ids) /\ d \in Seq(Ids) /\ Len(d) = Len(c) /\ \A n \in 1 .. Len(c) : d[n] = c[n]
  BY <1>1, <1>2 DEF c, d
<1>4. c = d
  BY <1>3, SeqEqual
<1>5. QED
  BY <1>4 DEF c, d

(* A record behind all others: it is appended to the chain.                *)
LEMMA ChainGrows ==
  ASSUME NEW f \in Seq(Line), NEW g \in Seq(Line), NEW x,
         x \notin Records(f), Records(g) = Records(f) \cup {x},
         \A i \in Records(f) : i < x,
         \A i \in Records(f) : g[i].id = f[i].id
  PROVE  ChainOf(g) = Append(ChainOf(f), g[x].id)
<1> DEFINE c == ChainOf(f)
           d == ChainOf(g)
<1>1. c \in Seq(Ids) /\ d \in Seq(Ids) /\ Len(c) \in Nat
      /\ Len(c) = Cardinality(Records(f)) /\ Len(d) = Cardinality(Records(g))
  BY ChainPlaces, RecordsFinite
<1>2. Len(d) = Len(c) + 1
  <2>1. Cardinality(Records(f) \cup {x}) = Cardinality(Records(f)) + 1
    BY RecordsFinite, FS_AddElement
  <2>2. QED
    BY <1>1, <2>1
<1>3. \A n \in 1 .. Len(c) : d[n] = c[n]
  BY ChainSegment
<1>4. Rank(g, x) = Len(c) + 1
  <2>1. {k \in Records(g) : k < x} = Records(f)
    <3>1. x \in Nat
      BY RecordsFinite
    <3>2. QED
      BY <3>1
  <2>2. QED
    BY <2>1, <1>1 DEF Rank
<1>5. d[Len(c) + 1] = g[x].id
  BY <1>4, ChainPlaces
<1>6. g[x].id \in Ids
  <2>1. g[x] \in Line
    BY RecordsFinite
  <2>2. QED
    BY <2>1 DEF Line
<1> HIDE DEF c, d
<1>7. Append(c, g[x].id) \in Seq(Ids) /\ Len(Append(c, g[x].id)) = Len(c) + 1
      /\ (\A n \in 1 .. Len(c) : Append(c, g[x].id)[n] = c[n])
      /\ Append(c, g[x].id)[Len(c) + 1] = g[x].id
  BY <1>1, <1>6
<1>8. \A n \in 1 .. Len(d) : d[n] = Append(c, g[x].id)[n]
  <2> TAKE n \in 1 .. Len(d)
  <2>1. n \in 1 .. Len(c) \/ n = Len(c) + 1
    BY <1>1, <1>2
  <2>2. QED
    BY <1>3, <1>5, <1>7, <2>1
<1>9. d = Append(c, g[x].id)
  BY <1>1, <1>2, <1>7, <1>8, SeqEqual
<1>10. QED
  BY <1>9 DEF c, d
-----------------------------------------------------------------------------
(* Where the acknowledged part of a chain ends.                            *)
LEMMA NatLeast ==
  ASSUME NEW T, T \subseteq Nat, T # {}
  PROVE  \E x \in T : \A y \in T : x <= y
<1>1. PICK x \in T : \A y \in T : ~ (<<y, x>> \in OpToRel(<, Nat))
  BY NatLessThanWellFounded, WFMin, Zenon
<1>2. \A y \in T : <<y, x>> \in OpToRel(<, Nat) <=> y < x
  BY DEF OpToRel
<1>3. \A y \in T : x \in Nat /\ y \in Nat /\ ~ (y < x)
  BY <1>1, <1>2
<1>4. \A y \in T : x <= y
  BY <1>3
<1>5. QED
  BY <1>4

LEMMA CommittedExists ==
  ASSUME NEW c \in Seq(Ids), NEW a
  PROVE  Committed(c, a) \in 0 .. Len(c) /\ LastAcked(c, a, Committed(c, a))
<1> DEFINE N == Len(c)
           T == {k \in 0 .. N : N - k = 0 \/ Acked(a, c[N - k])}
<1>1. N \in Nat /\ N \in T /\ T \subseteq Nat
  <2>1. N \in Nat /\ N - N = 0 /\ T \subseteq Nat
    OBVIOUS
  <2>2. QED
    BY <2>1
<1>2. \A k \in T : k \in 0 .. N /\ (N - k = 0 \/ Acked(a, c[N - k]))
  OBVIOUS
<1>3. \A m \in 1 .. N : Acked(a, c[m]) => N - m \in T
  <2> TAKE m \in 1 .. N
  <2> HAVE Acked(a, c[m])
  <2>1. N - m \in 0 .. N /\ N - (N - m) = m
    BY <1>1
  <2>2. QED
    BY <2>1
<1> HIDE DEF T, N
<1>4. PICK k \in T : \A l \in T : k <= l
  BY <1>1, NatLeast
<1>5. N - k \in 0 .. N /\ (N - k > 0 => Acked(a, c[N - k]))
  BY <1>1, <1>2, <1>4
<1>6. \A m \in (N - k + 1) .. N : ~ Acked(a, c[m])
  <2> SUFFICES ASSUME NEW m \in (N - k + 1) .. N, Acked(a, c[m]) PROVE FALSE
    OBVIOUS
  <2>1. m \in 1 .. N /\ N - m < k
    BY <1>1, <1>2, <1>4
  <2>2. k <= N - m
    BY <1>3, <1>4, <2>1
  <2>3. QED
    BY <1>1, <1>2, <1>4, <2>1, <2>2
<1>7. LastAcked(c, a, N - k)
  BY <1>5, <1>6 DEF LastAcked, N
<1>8. \E n \in 0 .. Len(c) : LastAcked(c, a, n)
  BY <1>5, <1>7 DEF N
<1>9. QED
  BY <1>8 DEF Committed

LEMMA CommittedIs ==
  ASSUME NEW c \in Seq(Ids), NEW a, NEW n \in 0 .. Len(c), LastAcked(c, a, n)
  PROVE  Committed(c, a) = n
<1> DEFINE m == Committed(c, a)
<1>1. m \in 0 .. Len(c) /\ LastAcked(c, a, m)
  BY CommittedExists
<1> HIDE DEF m
<1>2. ~ (m < n) /\ ~ (n < m)
  BY <1>1 DEF LastAcked
<1>3. m = n
  BY <1>1, <1>2
<1>4. QED
  BY <1>3 DEF m

(* An unacknowledged record behind a chain does not move it.               *)
LEMMA CommittedStays ==
  ASSUME NEW c \in Seq(Ids), NEW a, NEW id \in Ids, ~ Acked(a, id)
  PROVE  Committed(Append(c, id), a) = Committed(c, a)
<1> DEFINE n == Committed(c, a)
           d == Append(c, id)
<1>1. n \in 0 .. Len(c) /\ LastAcked(c, a, n)
  BY CommittedExists
<1>2. d \in Seq(Ids) /\ Len(c) \in Nat /\ Len(d) = Len(c) + 1 /\ d[Len(c) + 1] = id
      /\ \A k \in 1 .. Len(c) : d[k] = c[k]
  OBVIOUS
<1> HIDE DEF n, d
<1>3. n > 0 => Acked(a, d[n])
  BY <1>1, <1>2 DEF LastAcked
<1>4. ASSUME NEW m \in (n + 1) .. Len(d) PROVE ~ Acked(a, d[m])
  <2>1. (m \in (n + 1) .. Len(c) /\ m \in 1 .. Len(c)) \/ m = Len(c) + 1
    BY <1>1, <1>2
  <2>2. QED
    BY <1>1, <1>2, <2>1 DEF LastAcked
<1>5. LastAcked(d, a, n) /\ n \in 0 .. Len(d)
  BY <1>1, <1>2, <1>3, <1>4 DEF LastAcked
<1>6. QED
  BY <1>2, <1>5, CommittedIs DEF n, d
-----------------------------------------------------------------------------
(* Refinement: what each kind of step does to the verified chain and to    *)
(* its acknowledged part.                                                  *)

(* A record that was acknowledged is one line of the file, durable.        *)
LEMMA AckedLine ==
  ASSUME IInv, OnceInv, DirSync, NEW i \in 1 .. Len(file), Acked(acked, file[i].id)
  PROVE  linked /\ i <= durable /\ Readable(file[i])
<1>1. PICK k \in 1 .. Len(acked) : acked[k] = file[i].id
  BY DEF Acked
<1>2. linked /\ \E j \in 1 .. durable : Readable(file[j]) /\ file[j].id = acked[k]
  BY <1>1 DEF IInv, AckedSurvive
<1>3. PICK j \in 1 .. durable : Readable(file[j]) /\ file[j].id = acked[k]
  BY <1>2
<1>4. durable \in 0 .. Len(file) /\ Len(file) \in Nat
  BY DEF IInv, TypeOK
<1>5. j \in 1 .. Len(file) /\ j <= durable
  BY <1>3, <1>4
<1>6. j = i
  BY <1>1, <1>3, <1>5 DEF OnceInv
<1>7. QED
  BY <1>2, <1>3, <1>5, <1>6

(* closeTornTail makes a record of a complete line.                        *)
LEMMA TerminateStep ==
  ASSUME IInv, OnceInv, DirSync, Torn(file), file' = Terminate(file), UNCHANGED acked
  PROVE  [Log!Next]_<<VerifiedChain, CommittedLength>>
<1> DEFINE n == Len(file)
<1>1. file \in Seq(Line) /\ file # <<>> /\ n \in Nat /\ n \in 1 .. n /\ ~ file[n].nl
  BY DEF IInv, TypeOK, Torn
<1>2. file' \in Seq(Line) /\ Len(file') = n
      /\ (\A i \in 1 .. (n - 1) : file'[i] = file[i])
      /\ file'[n].id = file[n].id /\ file'[n].whole = file[n].whole /\ file'[n].nl = TRUE
  BY <1>1, TerminateFile
<1>3. \A i \in 1 .. n : i \in 1 .. (n - 1) \/ i = n
  BY <1>1
<1>4. n \notin Records(file) /\ \A i \in Records(file) : i < n /\ i \in 1 .. (n - 1)
  BY <1>1 DEF Records, Readable
<1>5. \A i \in Records(file) : file'[i].id = file[i].id
  BY <1>2, <1>4
<1>6. CASE ~ file[n].whole
  <2>1. Records(file') = Records(file)
    BY <1>1, <1>2, <1>3, <1>6 DEF Records, Readable
  <2>2. ChainOf(file') = ChainOf(file)
    BY <1>1, <1>2, <1>5, <2>1, ChainSame
  <2>3. QED
    BY <2>2 DEF VerifiedChain, CommittedLength
<1>7. CASE file[n].whole
  <2>1. Records(file') = Records(file) \cup {n}
    BY <1>1, <1>2, <1>3, <1>7 DEF Records, Readable
  <2>2. ChainOf(file') = Append(ChainOf(file), file[n].id)
    BY <1>1, <1>2, <1>4, <1>5, <2>1, ChainGrows
  <2>3. ~ Acked(acked, file[n].id)
    BY <1>1, AckedLine DEF Readable
  <2>4. file[n].id \in Ids /\ ChainOf(file) \in Seq(Ids)
    <3>1. file[n] \in Line
      BY <1>1
    <3>2. QED
      BY <1>1, <3>1, ChainPlaces DEF Line
  <2>5. Committed(Append(ChainOf(file), file[n].id), acked) = Committed(ChainOf(file), acked)
    BY <2>3, <2>4, CommittedStays
  <2>6. Log!Extend(file[n].id)
    BY <2>2, <2>5 DEF Log!Extend, VerifiedChain, CommittedLength
  <2>7. QED
    BY <2>4, <2>6 DEF Log!Next
<1>8. QED
  BY <1>6, <1>7

(* A line behind a closed one: a record, or the beginning of one.          *)
LEMMA AppendStep ==
  ASSUME IInv, OnceInv, NEW w \in Writers, pc[w] = "sealed", NEW ln \in Line,
         file' = Append(file, ln), ln.id = line[w].id, Readable(ln) \/ ~ ln.nl,
         UNCHANGED acked
  PROVE  [Log!Next]_<<VerifiedChain, CommittedLength>>
<1> DEFINE n == Len(file) + 1
<1>1. file \in Seq(Line) /\ Len(file) \in Nat
  BY DEF IInv, TypeOK
<1>2. file' \in Seq(Line) /\ Len(file') = n /\ file'[n] = ln
      /\ \A i \in 1 .. Len(file) : file'[i] = file[i]
  BY <1>1
<1>3. \A i \in 1 .. n : i \in 1 .. Len(file) \/ i = n
  BY <1>1
<1>4. \A i \in 1 .. Len(file) : i \in 1 .. n /\ i < n
  BY <1>1
<1>5. n \notin Records(file) /\ \A i \in Records(file) : i < n /\ file'[i].id = file[i].id
  BY <1>1, <1>2, <1>4 DEF Records
<1>6. CASE ~ Readable(ln)
  <2>1. Records(file') = Records(file)
    BY <1>2, <1>3, <1>4, <1>6 DEF Records
  <2>2. ChainOf(file') = ChainOf(file)
    BY <1>1, <1>2, <1>5, <2>1, ChainSame
  <2>3. QED
    BY <2>2 DEF VerifiedChain, CommittedLength
<1>7. CASE Readable(ln)
  <2>1. n \in 1 .. n
    BY <1>1
  <2>2. Records(file') = Records(file) \cup {n}
    BY <1>2, <1>3, <1>4, <1>7, <2>1 DEF Records
  <2>3. ChainOf(file') = Append(ChainOf(file), ln.id)
    <3> HIDE DEF n
    <3>1. ChainOf(file') = Append(ChainOf(file), file'[n].id)
      BY <1>1, <1>2, <1>5, <2>2, ChainGrows
    <3>2. QED
      BY <1>2, <3>1
  <2>4. ~ Acked(acked, ln.id)
    BY DEF OnceInv
  <2>5. ln.id \in Ids /\ ChainOf(file) \in Seq(Ids)
    BY <1>1, ChainPlaces DEF Line
  <2>6. Committed(Append(ChainOf(file), ln.id), acked) = Committed(ChainOf(file), acked)
    BY <2>4, <2>5, CommittedStays
  <2>7. Log!Extend(ln.id)
    BY <2>3, <2>6 DEF Log!Extend, VerifiedChain, CommittedLength
  <2>8. QED
    BY <2>5, <2>7 DEF Log!Next
<1>8. QED
  BY <1>6, <1>7

(* The record a returning Append acknowledges is the last of the chain and *)
(* was not acknowledged before.                                            *)
LEMMA SyncStep ==
  ASSUME IInv, OnceInv, NEW w \in Writers, Sync(w)
  PROVE  Log!Commit
<1> DEFINE n == Len(file)
           c == ChainOf(file)
           N == Len(c)
           id == line[w].id
<1>1. file \in Seq(Line) /\ n \in Nat /\ acked \in Seq(Ids) /\ Len(acked) \in Nat
  BY DEF IInv, TypeOK
<1>2. pc[w] = "written" /\ UNCHANGED file /\ acked' = Append(acked, id)
  BY DEF Sync
<1>3. file # <<>> /\ file[n] = line[w] /\ line[w] \in Line /\ Readable(line[w])
  BY <1>2 DEF IInv, LineInv
<1>4. id \in Ids /\ n \in 1 .. n
  BY <1>1, <1>3 DEF Line
<1>5. n \in Records(file)
  BY <1>3, <1>4 DEF Records
<1>6. c \in Seq(Ids) /\ N \in Nat /\ Rank(file, n) \in 1 .. N /\ c[Rank(file, n)] = id
  BY <1>1, <1>3, <1>5, ChainPlaces
<1>7. Rank(file, n) = N
  <2>1. N \in 1 .. N
    BY <1>6
  <2>2. PICK i \in Records(file) : Rank(file, i) = N
    BY <1>1, <2>1, ChainPlaces
  <2>3. i \in 1 .. n
    BY <2>2 DEF Records
  <2>4. ~ (i < n)
    BY <1>1, <1>5, <1>6, <2>2, RankGrows
  <2>5. i = n
    BY <1>1, <2>3, <2>4
  <2>6. QED
    BY <2>2, <2>5
<1>8. Committed(c, acked') = N
  <2>1. acked'[Len(acked) + 1] = id /\ Len(acked) + 1 \in 1 .. Len(acked')
    BY <1>1, <1>2, <1>4
  <2>2. Acked(acked', c[N])
    BY <1>6, <1>7, <2>1 DEF Acked
  <2>3. LastAcked(c, acked', N)
    BY <1>6, <2>2 DEF LastAcked
  <2>4. QED
    BY <1>6, <2>3, CommittedIs
<1>9. Committed(c, acked) < N
  <2>1. Committed(c, acked) \in 0 .. N /\ LastAcked(c, acked, Committed(c, acked))
    BY <1>6, CommittedExists
  <2>2. ~ Acked(acked, id)
    BY <1>2 DEF OnceInv
  <2>3. Committed(c, acked) # N
    BY <1>6, <1>7, <2>1, <2>2 DEF LastAcked
  <2>4. QED
    BY <1>6, <2>1, <2>3
<1>10. VerifiedChain = c /\ VerifiedChain' = c /\ CommittedLength = Committed(c, acked)
       /\ CommittedLength' = Committed(c, acked')
  BY <1>2 DEF VerifiedChain, CommittedLength
<1>11. QED
  BY <1>8, <1>9, <1>10 DEF Log!Commit

(* A power loss cuts the chain behind what was acknowledged.               *)
LEMMA PowerLossStep ==
  ASSUME IInv, OnceInv, DirSync, PowerLoss
  PROVE  Log!Lose
<1> DEFINE c == ChainOf(file)
           d == ChainOf(file')
           N == Committed(c, acked)
<1>1. file \in Seq(Line) /\ Len(file) \in Nat /\ durable \in 0 .. Len(file)
  BY DEF IInv, TypeOK
<1>2. /\ file' \in Seq(Line) /\ Len(file') \in 0 .. Len(file)
      /\ \A i \in 1 .. Len(file') :
           /\ i < Len(file') => file'[i] = file[i]
           /\ file'[i].nl => file'[i] = file[i]
      /\ linked => durable <= Len(file') /\ \A i \in 1 .. durable : file'[i] = file[i]
  <2>1. CASE file' \in Cuts(file, durable)
    <3>1. /\ file' \in Seq(Line) /\ Len(file') \in durable .. Len(file)
          /\ \A i \in 1 .. Len(file') : i <= durable \/ i < Len(file') => file'[i] = file[i]
          /\ \A i \in 1 .. Len(file') : file'[i].nl => file'[i] = file[i]
      BY <1>1, <2>1, CutFile
    <3>2. QED
      BY <1>1, <3>1
  <2>2. CASE file' = <<>> /\ ~ linked
    BY <1>1, <2>2
  <2>3. QED
    BY <2>1, <2>2 DEF PowerLoss
<1>3. Records(file') \subseteq Records(file) /\ \A i \in Records(file') : file'[i] = file[i]
  BY <1>1, <1>2 DEF Records, Readable
<1>4. \A i \in Records(file') : \A k \in Records(file) \ Records(file') : i < k
  <2> SUFFICES ASSUME NEW i \in Records(file'), NEW k \in Records(file) \ Records(file')
               PROVE  i < k
    OBVIOUS
  <2>1. i \in 1 .. Len(file') /\ k \in 1 .. Len(file) /\ i # k /\ Len(file') \in Nat
    BY <1>1, <1>2 DEF Records
  <2>2. k >= Len(file')
    <3>1. ASSUME k < Len(file') PROVE FALSE
      <4>1. k \in 1 .. Len(file') /\ file'[k] = file[k]
        BY <1>2, <2>1, <3>1
      <4>2. QED
        BY <4>1 DEF Records
    <3>2. QED
      BY <2>1, <3>1
  <2>3. QED
    BY <2>1, <2>2
<1>5. /\ \A i \in Records(file') : Rank(file, i) = Rank(file', i)
      /\ Len(d) <= Len(c)
      /\ \A n \in 1 .. Len(d) : c[n] = d[n]
  BY <1>1, <1>2, <1>3, <1>4, ChainSegment
<1>6. c \in Seq(Ids) /\ d \in Seq(Ids) /\ Len(c) \in Nat /\ Len(d) \in Nat
  BY <1>1, <1>2, ChainPlaces
<1>7. N \in 0 .. Len(c) /\ LastAcked(c, acked, N)
  BY <1>6, CommittedExists
<1>8. N <= Len(d)
  <2>1. CASE N = 0
    BY <1>6, <2>1
  <2>2. CASE N # 0
    <3>1. N \in 1 .. Len(c) /\ Acked(acked, c[N])
      BY <1>6, <1>7, <2>2 DEF LastAcked
    <3>2. PICK i \in Records(file) : Rank(file, i) = N
      BY <1>1, <3>1, ChainPlaces
    <3>3. c[N] = file[i].id /\ i \in 1 .. Len(file) /\ Readable(file[i])
      BY <1>1, <3>2, ChainPlaces DEF Records
    <3>4. linked /\ i <= durable
      BY <3>1, <3>3, AckedLine
    <3>5. i \in 1 .. Len(file') /\ file'[i] = file[i]
      BY <1>1, <1>2, <3>3, <3>4
    <3>6. i \in Records(file')
      BY <3>3, <3>5 DEF Records
    <3>7. Rank(file', i) = N /\ Rank(file', i) \in 1 .. Len(d)
      BY <1>2, <1>5, <3>2, <3>6, ChainPlaces
    <3>8. QED
      BY <3>7
  <2>3. QED
    BY <2>1, <2>2
<1> HIDE DEF c, d
<1>9. Committed(d, acked) = N
  <2> HIDE DEF N
  <2>1. N \in 0 .. Len(d)
    BY <1>6, <1>7, <1>8
  <2>2. N > 0 => Acked(acked, d[N])
    BY <1>5, <1>6, <1>7, <2>1 DEF LastAcked
  <2>3. ASSUME NEW m \in (N + 1) .. Len(d) PROVE ~ Acked(acked, d[m])
    <3>1. m \in (N + 1) .. Len(c) /\ m \in 1 .. Len(d)
      BY <1>5, <1>6, <2>1
    <3>2. QED
      BY <1>5, <1>7, <3>1 DEF LastAcked
  <2>4. LastAcked(d, acked, N)
    BY <2>2, <2>3 DEF LastAcked
  <2>5. QED
    BY <1>6, <2>1, <2>4, CommittedIs
<1>10. d = SubSeq(c, 1, Len(d))
  <2>1. SubSeq(c, 1, Len(d)) \in Seq(Ids) /\ Len(SubSeq(c, 1, Len(d))) = Len(d)
        /\ \A n \in 1 .. Len(d) : SubSeq(c, 1, Len(d))[n] = c[n]
    BY <1>5, <1>6, SubSeqProperties
  <2>2. QED
    BY <1>5, <1>6, <2>1, SeqEqual
<1>11. Len(d) \in N .. Len(c)
  BY <1>5, <1>6, <1>7, <1>8
<1>12. VerifiedChain = c /\ VerifiedChain' = d /\ CommittedLength = N /\ UNCHANGED acked
       /\ CommittedLength' = Committed(d, acked')
  BY DEF VerifiedChain, CommittedLength, c, d, PowerLoss, history
<1>13. CommittedLength' = N
  BY <1>9, <1>12
<1>14. QED
  BY <1>10, <1>11, <1>12, <1>13 DEF Log!Lose

LEMMA RefinementStep ==
  ASSUME IInv, OnceInv, DirSync, [Next]_vars
  PROVE  [Log!Next]_<<VerifiedChain, CommittedLength>>
<1>1. CASE PowerLoss
  BY <1>1, PowerLossStep DEF Log!Next
<1>2. CASE \E w \in Writers : Sync(w)
  BY <1>2, SyncStep DEF Log!Next
<1>3. CASE ~ PowerLoss /\ ~ \E w \in Writers : Sync(w)
  <2>1. UNCHANGED acked
    <3>1. ASSUME NEW w \in Writers, Open(w) PROVE UNCHANGED acked
      BY <3>1 DEF Open, AcquireLock, OpenLog, OpenFails, CloseTornTail, Resume,
                  RefuseChain, history
    <3>2. ASSUME NEW w \in Writers, AppendRecord(w) PROVE UNCHANGED acked
      BY <1>3, <3>2 DEF AppendRecord, Seal, Reject, Write, WriteFails, SyncFails, history
    <3>3. ASSUME NEW w \in Writers, Close(w) \/ Kill(w) PROVE UNCHANGED acked
      BY <3>3 DEF Close, Kill, history
    <3>4. ASSUME UNCHANGED vars PROVE UNCHANGED acked
      BY <3>4 DEF vars, history
    <3>5. QED
      BY <1>3, <3>1, <3>2, <3>3, <3>4 DEF Next
  <2>2. CASE UNCHANGED file
    BY <2>1, <2>2 DEF VerifiedChain, CommittedLength
  <2>3. CASE Torn(file) /\ file' = Terminate(file)
    BY <2>1, <2>3, TerminateStep
  <2>4. ASSUME NEW w \in Writers, NEW ln \in Line,
               pc[w] = "sealed", file' = Append(file, ln), ln.id = line[w].id,
               ln = line[w] \/ ~ ln.nl
        PROVE  [Log!Next]_<<VerifiedChain, CommittedLength>>
    <3>1. Readable(ln) \/ ~ ln.nl
      BY <2>4 DEF IInv, LineInv
    <3>2. QED
      BY <2>1, <2>4, <3>1, AppendStep
  <2>5. QED
    BY <1>3, <2>2, <2>3, <2>4, FileStep
<1>4. QED
  BY <1>1, <1>2, <1>3

(* On a filesystem that can sync a directory the store implements the      *)
(* abstract log: the verified chain only grows at its end, an Append that  *)
(* returned nil commits all of it, and a power loss takes back only what   *)
(* was not committed.                                                      *)
THEOREM Refinement ==
  ASSUME DirSync
  PROVE  Spec => ImplementsLog
<1>1. Init => Log!Init
  <2> SUFFICES ASSUME Init PROVE Log!Init
    OBVIOUS
  <2>1. Records(file) = {} /\ file \in Seq(Line)
    BY DEF Init, Records
  <2>2. ChainOf(file) \in Seq(Ids) /\ Len(ChainOf(file)) = 0
    BY <2>1, ChainPlaces, FS_EmptySet
  <2>3. ChainOf(file) = <<>>
    BY <2>2
  <2>4. Committed(ChainOf(file), acked) = 0
    <3>1. Committed(ChainOf(file), acked) \in 0 .. Len(ChainOf(file))
      BY <2>2, CommittedExists
    <3>2. QED
      BY <2>2, <3>1
  <2>5. QED
    BY <2>3, <2>4 DEF Log!Init, VerifiedChain, CommittedLength
<1>2. IInv /\ OnceInv /\ [Next]_vars => [Log!Next]_<<VerifiedChain, CommittedLength>>
  BY RefinementStep
<1>3. QED
  BY <1>1, <1>2, Invariance, OnceHolds, PTL DEF Spec, ImplementsLog, Log!Spec
=============================================================================
