------------------------ MODULE AdapterSessionProofs ------------------------
(***************************************************************************)
(* Theorems about AdapterSession, for any set of operations, any pipe size *)
(* and whatever pipes the children of the adapter hold. SessionInv is      *)
(* inductive; the safety properties of a call follow from it.              *)
(***************************************************************************)
EXTENDS AdapterSession, TLAPS

(* Nothing has happened yet.                                               *)
LEMMA InitInv == Init => SessionInv
<1> SUFFICES ASSUME Init PROVE SessionInv
  OBVIOUS
<1>1. TypeOK
  <2>1. out \in Seq(Messages) /\ Len(out) <= MaxQueued
    BY QueueAssumption DEF Init
  <2>2. stdoutOpen \in BOOLEAN /\ cancelled \in BOOLEAN /\ killed \in BOOLEAN
    BY Zenon DEF Init
  <2>3. QED
    BY <2>1, <2>2 DEF Init, TypeOK, Messages, Finals
<1>2. ProcessInv /\ KilledInv /\ StatusInv /\ LastWordsKept
  BY DEF Init, ProcessInv, KilledInv, StatusInv, LastWordsKept, Talking, Returned
<1>3. QueueInv /\ DeliveredInv
  BY DEF Init, QueueInv, DeliveredInv, Talking, Returned
<1>4. QED
  BY <1>1, <1>2, <1>3 DEF SessionInv

(* The adapter sends while it runs and the caller still reads.             *)
LEMMA SendInv ==
  ASSUME SessionInv, NEW m \in Messages, Send(m)
  PROVE  SessionInv'
<1>1. TypeOK'
  BY QueueAssumption, HoldingsAssumption DEF SessionInv, TypeOK, Send, caller, child, watch, Messages, Finals
<1>2. ProcessInv' /\ KilledInv'
  BY DEF SessionInv, TypeOK, ProcessInv, KilledInv, Talking, Send, Running,
     Exited, caller, child, watch
<1>3. StatusInv' /\ LastWordsKept'
  BY DEF SessionInv, TypeOK, ProcessInv, KilledInv, StatusInv, LastWordsKept,
     Talking, Returned, Answer, Send, Running, Exited, caller, child, watch
<1>4. QueueInv' /\ DeliveredInv'
  <2>1. /\ out \in Seq(Messages) /\ out' = Append(out, m) /\ Len(out') = Len(out) + 1
        /\ Len(out) \in Nat /\ out'[Len(out) + 1] = m
        /\ \A i \in 1 .. Len(out) : out'[i] = out[i]
    BY DEF SessionInv, TypeOK, Send
  <2>2. ASSUME pc' \in Talking PROVE QueueInv'
    <3>1. pc \in Talking /\ final' = "none" /\ op' = op /\ said = "none"
      BY <2>2 DEF Send, caller
    <3>2. \A i \in 1 .. Len(out) : out'[i] = "sandbox_call" /\ op' # "probe"
      BY <2>1, <3>1 DEF SessionInv, QueueInv
    <3>3. said' = "none" => m = "sandbox_call" /\ op # "probe"
      BY DEF Send, Messages, Finals
    <3>4. said' # "none" => out'[Len(out')] = said' /\ out' # <<>>
      BY <2>1 DEF Send
    <3>5. ASSUME NEW i \in 1 .. Len(out'), i < Len(out') \/ said' = "none"
          PROVE  out'[i] = "sandbox_call" /\ op' # "probe"
      BY <2>1, <3>1, <3>2, <3>3, <3>5
    <3>6. said' = "sandbox_call" => op' = "probe"
      BY <3>1 DEF Send
    <3>7. QED
      BY <3>1, <3>4, <3>5, <3>6 DEF QueueInv
  <2>3. DeliveredInv'
    BY DEF SessionInv, QueueInv, DeliveredInv, ProcessInv, Returned, Talking, Send,
       Running, caller, watch, TypeOK
  <2>4. QED
    BY <2>2, <2>3 DEF QueueInv
<1>5. QED
  BY <1>1, <1>2, <1>3, <1>4 DEF SessionInv

(* The adapter writes to stderr while it runs.                             *)
LEMMA ComplainInv ==
  ASSUME SessionInv, Complain
  PROVE  SessionInv'
<1>1. TypeOK'
  BY DEF SessionInv, TypeOK, Complain, caller, child, watch
<1>2. ProcessInv' /\ KilledInv'
  BY DEF SessionInv, TypeOK, ProcessInv, KilledInv, Talking, Complain, Running,
     Exited, caller, child, watch
<1>3. StatusInv' /\ LastWordsKept'
  BY DEF SessionInv, TypeOK, ProcessInv, KilledInv, StatusInv, LastWordsKept,
     Talking, Returned, Answer, Complain, Running, Exited, caller, child,
     watch
<1>4. QueueInv' /\ DeliveredInv'
  BY DEF SessionInv, TypeOK, ProcessInv, QueueInv, DeliveredInv, Talking,
     Returned, Finals, Complain, Running, Exited, caller, child, watch
<1>5. QED
  BY <1>1, <1>2, <1>3, <1>4 DEF SessionInv

(* A child inherits pipe ends.                                             *)
LEMMA SpawnInv ==
  ASSUME SessionInv, NEW pipes \in Holdings, Spawn(pipes)
  PROVE  SessionInv'
<1>1. TypeOK'
  BY HoldingsAssumption DEF SessionInv, TypeOK, Spawn, caller, child, watch
<1>2. ProcessInv' /\ KilledInv'
  BY DEF SessionInv, TypeOK, ProcessInv, KilledInv, Talking, Spawn, Running,
     Exited, caller, child, watch
<1>3. StatusInv' /\ LastWordsKept'
  BY DEF SessionInv, TypeOK, ProcessInv, KilledInv, StatusInv, LastWordsKept,
     Talking, Returned, Answer, Spawn, Running, Exited, caller, child, watch
<1>4. QueueInv' /\ DeliveredInv'
  BY DEF SessionInv, TypeOK, ProcessInv, QueueInv, DeliveredInv, Talking,
     Returned, Finals, Spawn, Running, Exited, caller, child, watch
<1>5. QED
  BY <1>1, <1>2, <1>3, <1>4 DEF SessionInv

(* A child lets go of its pipe ends.                                       *)
LEMMA ChildExitsInv ==
  ASSUME SessionInv, ChildExits
  PROVE  SessionInv'
<1>1. TypeOK'
  BY DEF SessionInv, TypeOK, ChildExits, caller, child, watch
<1>2. ProcessInv' /\ KilledInv'
  BY DEF SessionInv, TypeOK, ProcessInv, KilledInv, Talking, ChildExits,
     Running, Exited, caller, child, watch
<1>3. StatusInv' /\ LastWordsKept'
  BY DEF SessionInv, TypeOK, ProcessInv, KilledInv, StatusInv, LastWordsKept,
     Talking, Returned, Answer, ChildExits, Running, Exited, caller, child,
     watch
<1>4. QueueInv' /\ DeliveredInv'
  BY DEF SessionInv, TypeOK, ProcessInv, QueueInv, DeliveredInv, Talking,
     Returned, Finals, ChildExits, Running, Exited, caller, child, watch
<1>5. QED
  BY <1>1, <1>2, <1>3, <1>4 DEF SessionInv

(* The adapter ends, with a status.                                        *)
LEMMA ExitInv ==
  ASSUME SessionInv, NEW code \in {"zero", "bad"}, Exit(code)
  PROVE  SessionInv'
<1>1. TypeOK'
  BY DEF SessionInv, TypeOK, Exit, caller, child, watch
<1>2. ProcessInv' /\ KilledInv'
  BY DEF SessionInv, TypeOK, ProcessInv, KilledInv, Talking, Exit, Running,
     Exited, caller, child, watch
<1>3. StatusInv' /\ LastWordsKept'
  BY DEF SessionInv, TypeOK, ProcessInv, KilledInv, StatusInv, LastWordsKept,
     Talking, Returned, Answer, Exit, Running, Exited, caller, child, watch
<1>4. QueueInv' /\ DeliveredInv'
  BY DEF SessionInv, TypeOK, ProcessInv, QueueInv, DeliveredInv, Talking,
     Returned, Finals, Exit, Running, Exited, caller, child, watch
<1>5. QED
  BY <1>1, <1>2, <1>3, <1>4 DEF SessionInv

(* A new session starts from nothing.                                      *)
LEMMA CallInv ==
  ASSUME SessionInv, NEW o \in Ops, NEW started \in BOOLEAN, Call(o,
         started)
  PROVE  SessionInv'
<1>1. TypeOK'
  <2>1. out' \in Seq(Messages) /\ Len(out') <= MaxQueued
    BY QueueAssumption DEF Call
  <2>2. stdoutOpen' \in BOOLEAN /\ cancelled' \in BOOLEAN /\ killed' \in BOOLEAN
    BY Zenon DEF Call
  <2>3. QED
    BY <2>1, <2>2 DEF Call, TypeOK, Messages, Finals
<1>2. ProcessInv' /\ KilledInv'
  BY DEF SessionInv, TypeOK, ProcessInv, KilledInv, Talking, Call, Running,
     Exited, caller, child, watch
<1>3. StatusInv' /\ LastWordsKept'
  BY DEF SessionInv, TypeOK, ProcessInv, KilledInv, StatusInv, LastWordsKept,
     Talking, Returned, Answer, Call, Running, Exited, caller, child, watch
<1>4. QueueInv' /\ DeliveredInv'
  BY DEF SessionInv, TypeOK, ProcessInv, QueueInv, DeliveredInv, Talking,
     Returned, Finals, Call, Running, Exited, caller, child, watch
<1>5. QED
  BY <1>1, <1>2, <1>3, <1>4 DEF SessionInv

(* A write that lands leads to the next read.                              *)
LEMMA WriteLandsInv ==
  ASSUME SessionInv, WriteLands
  PROVE  SessionInv'
<1>1. TypeOK'
  BY DEF SessionInv, TypeOK, WriteLands, caller, child, watch
<1>2. ProcessInv' /\ KilledInv'
  BY DEF SessionInv, TypeOK, ProcessInv, KilledInv, Talking, WriteLands,
     Running, Exited, caller, child, watch
<1>3. StatusInv' /\ LastWordsKept'
  BY DEF SessionInv, TypeOK, ProcessInv, KilledInv, StatusInv, LastWordsKept,
     Talking, Returned, Answer, WriteLands, Running, Exited, caller, child,
     watch
<1>4. QueueInv' /\ DeliveredInv'
  BY DEF SessionInv, TypeOK, ProcessInv, QueueInv, DeliveredInv, Talking,
     Returned, Finals, WriteLands, Running, Exited, caller, child, watch
<1>5. QED
  BY <1>1, <1>2, <1>3, <1>4 DEF SessionInv

(* So does one whose pipe is closed.                                       *)
LEMMA WriteBreaksInv ==
  ASSUME SessionInv, WriteBreaks
  PROVE  SessionInv'
<1>1. TypeOK'
  BY DEF SessionInv, TypeOK, WriteBreaks, caller, child, watch
<1>2. ProcessInv' /\ KilledInv'
  BY DEF SessionInv, TypeOK, ProcessInv, KilledInv, Talking, WriteBreaks,
     Running, Exited, caller, child, watch
<1>3. StatusInv' /\ LastWordsKept'
  BY DEF SessionInv, TypeOK, ProcessInv, KilledInv, StatusInv, LastWordsKept,
     Talking, Returned, Answer, WriteBreaks, Running, Exited, caller, child,
     watch
<1>4. QueueInv' /\ DeliveredInv'
  BY DEF SessionInv, TypeOK, ProcessInv, QueueInv, DeliveredInv, Talking,
     Returned, Finals, WriteBreaks, Running, Exited, caller, child, watch
<1>5. QED
  BY <1>1, <1>2, <1>3, <1>4 DEF SessionInv

(* finish kills the adapter and waits for it.                              *)
LEMMA RequestFailsInv ==
  ASSUME SessionInv, RequestFails
  PROVE  SessionInv'
<1>1. TypeOK'
  <2>1. stdoutOpen' \in BOOLEAN
    BY Zenon DEF RequestFails
  <2>2. QED
    BY <2>1 DEF SessionInv, TypeOK, RequestFails, Leave, Killed, Running, caller, child, watch
<1>2. ProcessInv' /\ KilledInv'
  BY DEF SessionInv, TypeOK, ProcessInv, KilledInv, Talking, RequestFails,
     Leave, Killed, Running, Exited, caller, child, watch
<1>3. StatusInv' /\ LastWordsKept'
  BY DEF SessionInv, TypeOK, ProcessInv, KilledInv, StatusInv, LastWordsKept,
     Talking, Returned, Answer, RequestFails, Leave, Killed, Running,
     Exited, caller, child, watch
<1>4. QueueInv' /\ DeliveredInv'
  BY DEF SessionInv, TypeOK, ProcessInv, QueueInv, DeliveredInv, Talking,
     Returned, Finals, RequestFails, Leave, Killed, Running, Exited, caller,
     child, watch
<1>5. QED
  BY <1>1, <1>2, <1>3, <1>4 DEF SessionInv

(* A failed reply ends the read loop.                                      *)
LEMMA ReplyFailsInv ==
  ASSUME SessionInv, ReplyFails
  PROVE  SessionInv'
<1>1. TypeOK'
  BY DEF SessionInv, TypeOK, ReplyFails, Leave, caller, child, watch
<1>2. ProcessInv' /\ KilledInv'
  BY DEF SessionInv, TypeOK, ProcessInv, KilledInv, Talking, ReplyFails, Leave,
     Running, Exited, caller, child, watch
<1>3. StatusInv' /\ LastWordsKept'
  BY DEF SessionInv, TypeOK, ProcessInv, KilledInv, StatusInv, LastWordsKept,
     Talking, Returned, Answer, ReplyFails, Leave, Running, Exited, caller,
     child, watch
<1>4. QueueInv' /\ DeliveredInv'
  BY DEF SessionInv, TypeOK, ProcessInv, QueueInv, DeliveredInv, Talking,
     Returned, Finals, ReplyFails, Leave, Running, Exited, caller, child,
     watch
<1>5. QED
  BY <1>1, <1>2, <1>3, <1>4 DEF SessionInv

(* A message is a call, a final response or a violation.                   *)
LEMMA ReadMessageInv ==
  ASSUME SessionInv, ReadMessage
  PROVE  SessionInv'
<1>1. TypeOK'
  <2>1. out' \in Seq(Messages) /\ Len(out') <= MaxQueued /\ Head(out) \in Messages
    BY QueueAssumption DEF SessionInv, TypeOK, ReadMessage
  <2>2. QED
    BY <2>1 DEF SessionInv, TypeOK, ReadMessage, Leave, Messages, Finals, caller,
       child, watch
<1>2. ProcessInv' /\ KilledInv'
  BY DEF SessionInv, TypeOK, ProcessInv, KilledInv, Talking, ReadMessage, Leave,
     Running, Exited, caller, child, watch
<1>3. StatusInv' /\ LastWordsKept'
  BY DEF SessionInv, TypeOK, ProcessInv, KilledInv, StatusInv, LastWordsKept,
     Talking, Returned, Answer, ReadMessage, Leave, Running, Exited, caller,
     child, watch
<1>4. QueueInv' /\ DeliveredInv'
  <2>1. /\ out \in Seq(Messages) /\ Len(out) \in Nat \ {0} /\ Head(out) = out[1]
        /\ out' = Tail(out) /\ Len(out') = Len(out) - 1
        /\ \A i \in 1 .. Len(out') : out'[i] = out[i + 1]
    BY DEF SessionInv, TypeOK, ReadMessage
  <2>2. ASSUME pc' \in Talking PROVE QueueInv'
    <3>1. /\ pc \in Talking /\ final' = final /\ op' = op /\ said' = said
          /\ Head(out) = "sandbox_call" /\ op # "probe"
      BY <2>2 DEF ReadMessage, Leave, Talking, caller
    <3>2. \A i \in 1 .. Len(out) :
            i < Len(out) \/ said = "none" => out[i] = "sandbox_call"
      BY <3>1 DEF SessionInv, QueueInv
    <3>3. ASSUME NEW i \in 1 .. Len(out'), i < Len(out') \/ said' = "none"
          PROVE  out'[i] = "sandbox_call" /\ op' # "probe"
      BY <2>1, <3>1, <3>2, <3>3
    <3>4. said # "none" => out[Len(out)] = said /\ said # "sandbox_call"
      BY <3>1 DEF SessionInv, QueueInv
    <3>5. ASSUME said # "none" PROVE out' # <<>> /\ out'[Len(out')] = said
      <4>1. Len(out) > 1
        BY <2>1, <3>1, <3>4, <3>5
      <4>2. QED
        BY <2>1, <3>4, <3>5, <4>1
    <3>6. QED
      BY <3>1, <3>3, <3>5 DEF SessionInv, QueueInv
  <2>3. DeliveredInv'
    BY <2>1 DEF SessionInv, ProcessInv, QueueInv, DeliveredInv, Returned, Talking,
       ReadMessage, Leave, caller, Finals
  <2>4. QED
    BY <2>2, <2>3 DEF QueueInv
<1>5. QED
  BY <1>1, <1>2, <1>3, <1>4 DEF SessionInv

(* The end of stdout is a crash.                                           *)
LEMMA ReadEndsInv ==
  ASSUME SessionInv, ReadEnds
  PROVE  SessionInv'
<1>1. TypeOK'
  BY DEF SessionInv, TypeOK, ReadEnds, Leave, caller, child, watch
<1>2. ProcessInv' /\ KilledInv'
  BY DEF SessionInv, TypeOK, ProcessInv, KilledInv, Talking, ReadEnds, Leave,
     Running, Exited, caller, child, watch
<1>3. StatusInv' /\ LastWordsKept'
  BY DEF SessionInv, TypeOK, ProcessInv, KilledInv, StatusInv, LastWordsKept,
     Talking, Returned, Answer, ReadEnds, Leave, Running, Exited, caller,
     child, watch
<1>4. QueueInv' /\ DeliveredInv'
  BY DEF SessionInv, TypeOK, ProcessInv, QueueInv, DeliveredInv, Talking,
     Returned, Finals, ReadEnds, Leave, Running, Abandoned, Exited, caller,
     child, watch
<1>5. QED
  BY <1>1, <1>2, <1>3, <1>4 DEF SessionInv

(* A verb is answered.                                                     *)
LEMMA DispatchInv ==
  ASSUME SessionInv, Dispatch
  PROVE  SessionInv'
<1>1. TypeOK'
  BY DEF SessionInv, TypeOK, Dispatch, caller, child, watch
<1>2. ProcessInv' /\ KilledInv'
  BY DEF SessionInv, TypeOK, ProcessInv, KilledInv, Talking, Dispatch, Running,
     Exited, caller, child, watch
<1>3. StatusInv' /\ LastWordsKept'
  BY DEF SessionInv, TypeOK, ProcessInv, KilledInv, StatusInv, LastWordsKept,
     Talking, Returned, Answer, Dispatch, Running, Exited, caller, child,
     watch
<1>4. QueueInv' /\ DeliveredInv'
  BY DEF SessionInv, TypeOK, ProcessInv, QueueInv, DeliveredInv, Talking,
     Returned, Finals, Dispatch, Running, Exited, caller, child, watch
<1>5. QED
  BY <1>1, <1>2, <1>3, <1>4 DEF SessionInv

(* The drain ends after the adapter has.                                   *)
LEMMA DrainEndsInv ==
  ASSUME SessionInv, DrainEnds
  PROVE  SessionInv'
<1>1. TypeOK'
  BY DEF SessionInv, TypeOK, DrainEnds, Abandoned, caller, child, watch
<1>2. ProcessInv' /\ KilledInv'
  BY DEF SessionInv, TypeOK, ProcessInv, KilledInv, Talking, DrainEnds,
     Abandoned, Running, Exited, caller, child, watch
<1>3. StatusInv' /\ LastWordsKept'
  BY DEF SessionInv, TypeOK, ProcessInv, KilledInv, StatusInv, LastWordsKept,
     Talking, Returned, Answer, DrainEnds, Abandoned, Running, Exited,
     caller, child, watch
<1>4. QueueInv' /\ DeliveredInv'
  BY DEF SessionInv, TypeOK, ProcessInv, QueueInv, DeliveredInv, Talking,
     Returned, Finals, DrainEnds, Abandoned, Running, Exited, caller, child,
     watch
<1>5. QED
  BY <1>1, <1>2, <1>3, <1>4 DEF SessionInv

(* A late drain kills.                                                     *)
LEMMA DrainLateInv ==
  ASSUME SessionInv, DrainLate
  PROVE  SessionInv'
<1>1. TypeOK'
  BY DEF SessionInv, TypeOK, DrainLate, Killed, Running, caller, child, watch
<1>2. ProcessInv' /\ KilledInv'
  BY DEF SessionInv, TypeOK, ProcessInv, KilledInv, Talking, DrainLate, Killed,
     Running, Exited, caller, child, watch
<1>3. StatusInv' /\ LastWordsKept'
  BY DEF SessionInv, TypeOK, ProcessInv, KilledInv, StatusInv, LastWordsKept,
     Talking, Returned, Answer, DrainLate, Killed, Running, Exited, caller,
     child, watch
<1>4. QueueInv' /\ DeliveredInv'
  BY DEF SessionInv, TypeOK, ProcessInv, QueueInv, DeliveredInv, Talking,
     Returned, Finals, DrainLate, Killed, Running, Exited, caller, child,
     watch
<1>5. QED
  BY <1>1, <1>2, <1>3, <1>4 DEF SessionInv

(* cmd.Wait reaps a process that has ended.                                *)
LEMMA ReapInv ==
  ASSUME SessionInv, Reap
  PROVE  SessionInv'
<1>1. TypeOK'
  BY DEF SessionInv, TypeOK, Reap, caller, child, watch
<1>2. ProcessInv' /\ KilledInv'
  BY DEF SessionInv, TypeOK, ProcessInv, KilledInv, Talking, Reap, Running,
     Exited, caller, child, watch
<1>3. StatusInv' /\ LastWordsKept'
  BY DEF SessionInv, TypeOK, ProcessInv, KilledInv, StatusInv, LastWordsKept,
     Talking, Returned, Answer, Reap, Running, Exited, caller, child, watch
<1>4. QueueInv' /\ DeliveredInv'
  BY DEF SessionInv, TypeOK, ProcessInv, QueueInv, DeliveredInv, Talking,
     Returned, Finals, Reap, Running, Exited, caller, child, watch
<1>5. QED
  BY <1>1, <1>2, <1>3, <1>4 DEF SessionInv

(* A late reap kills.                                                      *)
LEMMA ReapLateInv ==
  ASSUME SessionInv, ReapLate
  PROVE  SessionInv'
<1>1. TypeOK'
  BY DEF SessionInv, TypeOK, ReapLate, Killed, Running, caller, child, watch
<1>2. ProcessInv' /\ KilledInv'
  BY DEF SessionInv, TypeOK, ProcessInv, KilledInv, Talking, ReapLate, Killed,
     Running, Exited, caller, child, watch
<1>3. StatusInv' /\ LastWordsKept'
  BY DEF SessionInv, TypeOK, ProcessInv, KilledInv, StatusInv, LastWordsKept,
     Talking, Returned, Answer, ReapLate, Killed, Running, Exited, caller,
     child, watch
<1>4. QueueInv' /\ DeliveredInv'
  BY DEF SessionInv, TypeOK, ProcessInv, QueueInv, DeliveredInv, Talking,
     Returned, Finals, ReapLate, Killed, Running, Exited, caller, child,
     watch
<1>5. QED
  BY <1>1, <1>2, <1>3, <1>4 DEF SessionInv

(* do returns what the two verdicts add up to.                             *)
LEMMA ReturnInv ==
  ASSUME SessionInv, Return
  PROVE  SessionInv'
<1>1. TypeOK'
  BY DEF SessionInv, TypeOK, Return, Answer, caller, child, watch
<1>2. ProcessInv' /\ KilledInv'
  BY DEF SessionInv, TypeOK, ProcessInv, KilledInv, Talking, Return, Running,
     Exited, caller, child, watch
<1>3. StatusInv' /\ LastWordsKept'
  BY DEF SessionInv, TypeOK, ProcessInv, KilledInv, StatusInv, LastWordsKept,
     Talking, Returned, Answer, Return, Running, Exited, caller, child,
     watch
<1>4. QueueInv' /\ DeliveredInv'
  BY DEF SessionInv, TypeOK, ProcessInv, QueueInv, DeliveredInv, Talking,
     Returned, Finals, Return, Running, Exited, caller, child, watch
<1>5. QED
  BY <1>1, <1>2, <1>3, <1>4 DEF SessionInv

(* The context ends.                                                       *)
LEMMA CtxEndsInv ==
  ASSUME SessionInv, CtxEnds
  PROVE  SessionInv'
<1>1. TypeOK'
  BY DEF SessionInv, TypeOK, CtxEnds, caller, child, watch
<1>2. ProcessInv' /\ KilledInv'
  BY DEF SessionInv, TypeOK, ProcessInv, KilledInv, Talking, CtxEnds, Running,
     Exited, caller, child, watch
<1>3. StatusInv' /\ LastWordsKept'
  BY DEF SessionInv, TypeOK, ProcessInv, KilledInv, StatusInv, LastWordsKept,
     Talking, Returned, Answer, CtxEnds, Running, Exited, caller, child,
     watch
<1>4. QueueInv' /\ DeliveredInv'
  BY DEF SessionInv, TypeOK, ProcessInv, QueueInv, DeliveredInv, Talking,
     Returned, Finals, CtxEnds, Running, Exited, caller, child, watch
<1>5. QED
  BY <1>1, <1>2, <1>3, <1>4 DEF SessionInv

(* SIGTERM by itself ends nothing.                                         *)
LEMMA TerminateInv ==
  ASSUME SessionInv, Terminate
  PROVE  SessionInv'
<1>1. TypeOK'
  BY DEF SessionInv, TypeOK, Terminate, Running, caller, child, watch
<1>2. ProcessInv' /\ KilledInv'
  BY DEF SessionInv, TypeOK, ProcessInv, KilledInv, Talking, Terminate, Running,
     Exited, caller, child, watch
<1>3. StatusInv' /\ LastWordsKept'
  BY DEF SessionInv, TypeOK, ProcessInv, KilledInv, StatusInv, LastWordsKept,
     Talking, Returned, Answer, Terminate, Running, Exited, caller, child,
     watch
<1>4. QueueInv' /\ DeliveredInv'
  BY DEF SessionInv, TypeOK, ProcessInv, QueueInv, DeliveredInv, Talking,
     Returned, Finals, Terminate, Running, Exited, caller, child, watch
<1>5. QED
  BY <1>1, <1>2, <1>3, <1>4 DEF SessionInv

(* os/exec kills what ignored its SIGTERM.                                 *)
LEMMA WaitDelayEndsInv ==
  ASSUME SessionInv, WaitDelayEnds
  PROVE  SessionInv'
<1>1. TypeOK'
  BY DEF SessionInv, TypeOK, WaitDelayEnds, Killed, Running, caller, child,
     watch
<1>2. ProcessInv' /\ KilledInv'
  BY DEF SessionInv, TypeOK, ProcessInv, KilledInv, Talking, WaitDelayEnds,
     Killed, Running, Exited, caller, child, watch
<1>3. StatusInv' /\ LastWordsKept'
  BY DEF SessionInv, TypeOK, ProcessInv, KilledInv, StatusInv, LastWordsKept,
     Talking, Returned, Answer, WaitDelayEnds, Killed, Running, Exited,
     caller, child, watch
<1>4. QueueInv' /\ DeliveredInv'
  BY DEF SessionInv, TypeOK, ProcessInv, QueueInv, DeliveredInv, Talking,
     Returned, Finals, WaitDelayEnds, Killed, Running, Exited, caller,
     child, watch
<1>5. QED
  BY <1>1, <1>2, <1>3, <1>4 DEF SessionInv

(* The watchdog starts its timer.                                          *)
LEMMA WatchdogWakesInv ==
  ASSUME SessionInv, WatchdogWakes
  PROVE  SessionInv'
<1>1. TypeOK'
  BY DEF SessionInv, TypeOK, WatchdogWakes, caller, child, watch
<1>2. ProcessInv' /\ KilledInv'
  BY DEF SessionInv, TypeOK, ProcessInv, KilledInv, Talking, WatchdogWakes,
     Running, Exited, caller, child, watch
<1>3. StatusInv' /\ LastWordsKept'
  BY DEF SessionInv, TypeOK, ProcessInv, KilledInv, StatusInv, LastWordsKept,
     Talking, Returned, Answer, WatchdogWakes, Running, Exited, caller,
     child, watch
<1>4. QueueInv' /\ DeliveredInv'
  BY DEF SessionInv, TypeOK, ProcessInv, QueueInv, DeliveredInv, Talking,
     Returned, Finals, WatchdogWakes, Running, Exited, caller, child, watch
<1>5. QED
  BY <1>1, <1>2, <1>3, <1>4 DEF SessionInv

(* The watchdog kills and closes stdout.                                   *)
LEMMA WatchdogFiresInv ==
  ASSUME SessionInv, WatchdogFires
  PROVE  SessionInv'
<1>1. TypeOK'
  <2>1. stdoutOpen' \in BOOLEAN
    BY Zenon DEF WatchdogFires
  <2>2. QED
    BY <2>1 DEF SessionInv, TypeOK, WatchdogFires, Killed, Running, caller, child, watch
<1>2. ProcessInv' /\ KilledInv'
  BY DEF SessionInv, TypeOK, ProcessInv, KilledInv, Talking, WatchdogFires,
     Killed, Running, Exited, caller, child, watch
<1>3. StatusInv' /\ LastWordsKept'
  BY DEF SessionInv, TypeOK, ProcessInv, KilledInv, StatusInv, LastWordsKept,
     Talking, Returned, Answer, WatchdogFires, Killed, Running, Exited,
     caller, child, watch
<1>4. QueueInv' /\ DeliveredInv'
  BY DEF SessionInv, TypeOK, ProcessInv, QueueInv, DeliveredInv, Talking,
     Returned, Finals, WatchdogFires, Killed, Running, Exited, caller,
     child, watch
<1>5. QED
  BY <1>1, <1>2, <1>3, <1>4 DEF SessionInv

(* The drain logs a line.                                                  *)
LEMMA LogStderrInv ==
  ASSUME SessionInv, LogStderr
  PROVE  SessionInv'
<1>1. TypeOK'
  BY DEF SessionInv, TypeOK, LogStderr, caller, child, watch
<1>2. ProcessInv' /\ KilledInv'
  BY DEF SessionInv, TypeOK, ProcessInv, KilledInv, Talking, LogStderr, Running,
     Exited, caller, child, watch
<1>3. StatusInv' /\ LastWordsKept'
  BY DEF SessionInv, TypeOK, ProcessInv, KilledInv, StatusInv, LastWordsKept,
     Talking, Returned, Answer, LogStderr, Running, Exited, caller, child,
     watch
<1>4. QueueInv' /\ DeliveredInv'
  BY DEF SessionInv, TypeOK, ProcessInv, QueueInv, DeliveredInv, Talking,
     Returned, Finals, LogStderr, Running, Exited, caller, child, watch
<1>5. QED
  BY <1>1, <1>2, <1>3, <1>4 DEF SessionInv

-----------------------------------------------------------------------------
(* The caller, the process, its pipes and the verdict fit at every step,   *)
(* whatever the adapter, its children and the timers do.                   *)
THEOREM Invariance == Spec => []SessionInv
<1>1. SessionInv /\ [Next]_vars => SessionInv'
  <2> SUFFICES ASSUME SessionInv, [Next]_vars PROVE SessionInv'
    OBVIOUS
  <2>1. CASE UNCHANGED vars
    BY <2>1 DEF SessionInv, TypeOK, ProcessInv, KilledInv, StatusInv, LastWordsKept,
       QueueInv, DeliveredInv, Returned, Answer, Exited, vars, caller, child, watch
  <2>2. CASE AdapterStep
    BY <2>2, SendInv, ComplainInv, SpawnInv, ChildExitsInv, ExitInv DEF AdapterStep
  <2>3. CASE \E o \in Ops, started \in BOOLEAN : Call(o, started)
    BY <2>3, CallInv
  <2>4. CASE WriteLands \/ WriteBreaks \/ RequestFails \/ ReplyFails
    BY <2>4, WriteLandsInv, WriteBreaksInv, RequestFailsInv, ReplyFailsInv
  <2>5. CASE ReadStep \/ Dispatch
    BY <2>5, ReadMessageInv, ReadEndsInv, DispatchInv DEF ReadStep
  <2>6. CASE WaitStep
    BY <2>6, DrainEndsInv, DrainLateInv, ReapInv, ReapLateInv, ReturnInv DEF WaitStep
  <2>7. CASE CtxEnds \/ Guards \/ LogStderr
    BY <2>7, CtxEndsInv, TerminateInv, WaitDelayEndsInv, WatchdogWakesInv,
       WatchdogFiresInv, LogStderrInv DEF Guards
  <2>8. QED
    BY <2>1, <2>2, <2>3, <2>4, <2>5, <2>6, <2>7 DEF Next
<1>2. QED
  BY <1>1, InitInv, PTL DEF Spec

(* Whatever way do returns, the process it started has been reaped: wait   *)
(* on the normal path, finish on the early return.                         *)
THEOREM NothingIsLeftBehind == Spec => []NothingLeftBehind
<1>1. SessionInv => NothingLeftBehind
  BY DEF SessionInv, ProcessInv, NothingLeftBehind
<1>2. QED
  BY <1>1, Invariance, PTL

(* do believes an adapter only if it answered, ended with status zero, and *)
(* was not found lingering while the drill was still on.                   *)
THEOREM AnswersAreBelievedRightly == Spec => []BelievedAnswer
<1>1. SessionInv => BelievedAnswer
  BY DEF SessionInv, TypeOK, StatusInv, Returned, Answer, BelievedAnswer
<1>2. QED
  BY <1>1, Invariance, PTL

(* An answer that was read stands, though the drill was cancelled while the*)
(* adapter was ending.                                                     *)
THEOREM CancelledAnswersStand == Spec => []CancelledAnswerStands
<1>1. SessionInv => CancelledAnswerStands
  BY DEF SessionInv, TypeOK, StatusInv, Returned, Answer, CancelledAnswerStands
<1>2. QED
  BY <1>1, Invariance, PTL

(* An answer that was sent is read: the request or reply that meets a      *)
(* closed pipe does not end the read loop.                                 *)
THEOREM AnswersAreNotLost == Spec => []AnswerNotLost
<1>1. SessionInv => AnswerNotLost
  BY DEF SessionInv, TypeOK, StatusInv, DeliveredInv, Returned, Answer, Finals, AnswerNotLost
<1>2. QED
  BY <1>1, Invariance, PTL

(* awaitStderr before cmd.Wait: what the adapter wrote to stderr is logged *)
(* unless it used up the grace period.                                     *)
THEOREM LastWordsAreKept == Spec => []LastWordsKept
<1>1. SessionInv => LastWordsKept
  BY DEF SessionInv
<1>2. QED
  BY <1>1, Invariance, PTL
=============================================================================
