---------------------------- MODULE DeliveryProofs ----------------------------
(***************************************************************************)
(* Proofs about Delivery for any cap, number of attempts, number of        *)
(* webhooks and number of requests left in flight.                         *)
(***************************************************************************)
EXTENDS Delivery, NaturalsInduction, WellFoundedInduction, TLAPS

(* A set of numbers that is not empty has a least one.                     *)
LEMMA NatLeast ==
  ASSUME NEW T, T \subseteq Nat, T # {}
  PROVE  \E x \in T : \A y \in T : x <= y
<1>1. IsWellFoundedOn(OpToRel(<, Nat), Nat)
  BY NatLessThanWellFounded
<1>2. PICK x \in T : \A y \in T : ~ (<<y, x>> \in OpToRel(<, Nat))
  BY <1>1, WFMin, Zenon
<1>3. \A y \in T : <<y, x>> \in OpToRel(<, Nat) <=> y < x
  BY DEF OpToRel
<1>4. \A y \in T : x \in Nat /\ y \in Nat /\ ~ (y < x)
  BY <1>2, <1>3
<1>5. \A y \in T : x <= y
  BY <1>4
<1> QED  BY <1>5

(* While there are destinations to serve, the current one is among them.   *)
LEMMA CurrentIsQueued ==
  ASSUME queue \subseteq Targets, queue # {}
  PROVE  Current \in queue /\ Current \in Targets
<1>1. queue \subseteq Nat
  BY DeliveryAssumption DEF Targets, Receiver, Hooks
<1>2. \E t \in queue : \A u \in queue : t <= u
  BY <1>1, NatLeast
<1> QED  BY <1>2 DEF Current

LEMMA CurrentOfPush ==
  ASSUME queue = {Receiver}
  PROVE  Current = Receiver
BY CurrentIsQueued DEF Targets

(* Only one request is waited for.                                         *)
LEMMA OneOpen ==
  ASSUME TypeOK, NetInv, NEW m \in net, NEW l \in net, m.conn = "open", l.conn = "open"
  PROVE  m = l
<1>1. m \in Requests /\ l \in Requests
  BY DEF TypeOK
<1>2. m.to = l.to /\ m.body = l.body /\ m.conn = l.conn
  BY DEF NetInv
<1> QED  BY <1>1, <1>2 DEF Requests

(* A request that is given up on, or that an earlier run made, is still a  *)
(* request to the same destination.                                        *)
LEMMA Relabelled ==
  ASSUME NEW m \in Requests, NEW c \in {"late", "old"}
  PROVE  LET l == [m EXCEPT !.conn = c]
         IN  l \in Requests /\ l.conn = c /\ l.to = m.to /\ l.body = m.body
BY DEF Requests

-----------------------------------------------------------------------------
LEMMA InitHolds == Init => DeliveryInv
<1> SUFFICES ASSUME Init PROVE DeliveryInv
  OBVIOUS
<1>1. TypeOK
  BY DeliveryAssumption DEF Init, TypeOK, Running
<1>2. PlaceInv /\ NetInv /\ TakenInv /\ BodyInv
  BY DEF Init, PlaceInv, NetInv, TakenInv, BodyInv
<1>3. ReportIsTrue /\ SentIsTheLog
  BY DEF Init, ReportIsTrue, SentIsTheLog, Running, exitPass
<1> QED  BY <1>1, <1>2, <1>3 DEF DeliveryInv

(* The start of a command.                                                 *)
LEMMA BeginKeeps ==
  ASSUME DeliveryInv, StartPush \/ StartNotify \/ (PushRefused /\ pc = "idle")
  PROVE  DeliveryInv'
<1>1. TypeOK /\ pc = "idle"
  BY DEF DeliveryInv, StartPush, StartNotify, Begin
<1>2. /\ log' = log /\ copy' = copy /\ size' = size /\ status' = status
      /\ attempt' = 0 /\ live' = TRUE /\ errs' = {} /\ sent' = {} /\ accepted' = {} /\ body' = 0
      /\ net' = {[m EXCEPT !.conn = "old"] : m \in net}
  BY <1>1 DEF StartPush, StartNotify, PushRefused, Begin, Payload
<1>3. \/ /\ kind' = "push" /\ pc' = "stat" /\ queue' = {Receiver} /\ exit' = Running /\ on' = on
      \/ /\ kind' = "push" /\ pc' = "idle" /\ queue' = {} /\ exit' = exitUsage /\ on' = on
      \/ /\ kind' = "notify" /\ exit' = Running /\ on' \subseteq Hooks /\ queue' = on'
         /\ pc' = IF on' = {} THEN "idle" ELSE "post"
  BY <1>1 DEF StartPush, StartNotify, PushRefused, Begin
<1>4. \A l \in net' : l \in Requests /\ l.conn = "old"
  <2> SUFFICES ASSUME NEW m \in net PROVE [m EXCEPT !.conn = "old"] \in Requests /\ [m EXCEPT !.conn = "old"].conn = "old"
    BY <1>2
  <2> QED  BY <1>1, Relabelled DEF TypeOK
<1>5. TypeOK'
  <2>1. net' \subseteq Requests
    BY <1>4
  <2> QED  BY <1>1, <1>2, <1>3, <2>1, DeliveryAssumption DEF TypeOK, Targets, exitPass, exitPushFailed, exitUsage, Running
<1>6. PlaceInv'
  BY <1>2, <1>3, DeliveryAssumption DEF PlaceInv
<1>7. NetInv'
  BY <1>4 DEF NetInv
<1>8. TakenInv' /\ BodyInv'
  BY <1>2, <1>3 DEF TakenInv, BodyInv
<1>9. ReportIsTrue' /\ SentIsTheLog'
  BY <1>2, <1>3 DEF ReportIsTrue, SentIsTheLog, Running, exitPass, exitUsage
<1> QED  BY <1>5, <1>6, <1>7, <1>8, <1>9 DEF DeliveryInv

(* Everything before the first request.                                    *)
LEMMA ReadKeeps ==
  ASSUME DeliveryInv, StatLog \/ ReadBody \/ (PushRefused /\ pc # "idle")
  PROVE  DeliveryInv'
<1>1. TypeOK /\ PlaceInv /\ NetInv /\ TakenInv /\ BodyInv /\ ReportIsTrue /\ SentIsTheLog
  BY DEF DeliveryInv
<1>2. /\ log' = log /\ copy' = copy /\ net' = net /\ kind' = kind /\ queue' = queue /\ attempt' = attempt
      /\ status' = status /\ live' = live /\ errs' = errs /\ on' = on /\ sent' = sent /\ accepted' = accepted
  BY DEF StatLog, ReadBody, PushRefused, Begin, Ended, history
<1>3. pc \in {"stat", "read"} /\ kind = "push" /\ sent = {} /\ queue = {Receiver} /\ exit = Running
  BY <1>1 DEF PlaceInv, StatLog, ReadBody, PushRefused, Begin
<1>4. \/ pc' = "idle" /\ exit' = exitUsage /\ size' \in {size, log} /\ body' = body
      \/ pc' = "read" /\ exit' = exit /\ size' = log /\ body' = body
      \/ pc' = "post" /\ exit' = exit /\ size' = size /\ body' = log /\ log <= MaxLogBytes /\ pc = "read"
  <2>1. log \in Nat /\ MaxLogBytes \in Nat
    BY <1>1, DeliveryAssumption DEF TypeOK
  <2> QED  BY <2>1, <1>3 DEF StatLog, ReadBody, PushRefused, Begin, Ended
<1>5. TypeOK'
  BY <1>1, <1>2, <1>4 DEF TypeOK
<1>6. PlaceInv'
  BY <1>1, <1>2, <1>3, <1>4 DEF PlaceInv
<1>7. \A m \in net : m.conn # "open"
  BY <1>1, <1>3 DEF NetInv
<1>8. NetInv' /\ TakenInv'
  BY <1>2, <1>3, <1>4, <1>7 DEF NetInv, TakenInv
<1>9. BodyInv'
  BY <1>1, <1>2, <1>4, DeliveryAssumption DEF TypeOK, BodyInv
<1>10. ReportIsTrue' /\ SentIsTheLog'
  BY <1>2, <1>3, <1>4 DEF ReportIsTrue, SentIsTheLog, Running, exitPass, exitUsage
<1> QED  BY <1>5, <1>6, <1>8, <1>9, <1>10 DEF DeliveryInv

(* One attempt is made.                                                    *)
LEMMA PostKeeps ==
  ASSUME DeliveryInv, Post
  PROVE  DeliveryInv'
<1>1. TypeOK /\ PlaceInv /\ NetInv /\ TakenInv /\ BodyInv /\ ReportIsTrue /\ SentIsTheLog /\ pc = "post"
  BY DEF DeliveryInv, Post
<1>2. /\ log' = log /\ copy' = copy /\ kind' = kind /\ size' = size /\ body' = body /\ queue' = queue
      /\ live' = live /\ errs' = errs /\ exit' = exit /\ on' = on /\ accepted' = accepted
      /\ attempt' = attempt + 1
  BY DEF Post
<1> DEFINE r == [to |-> Current, body |-> body, conn |-> "open"]
<1>3. \/ net' = net \cup {r} /\ sent' = sent \cup {body} /\ pc' = "await" /\ status' = status
      \/ net' = net /\ sent' = sent /\ pc' = "answered" /\ status' = "transport"
  BY DEF Post
<1>4. Current' = Current /\ queue # {} /\ Current \in queue /\ Current \in Targets
  BY <1>1, <1>2, CurrentIsQueued DEF Current, PlaceInv, TypeOK
<1>5. r \in Requests
  BY <1>1, <1>4 DEF Requests, TypeOK
<1>6. \A m \in net : m.conn # "open"
  BY <1>1 DEF NetInv
<1>7. attempt + 1 \in 0 .. Attempts
  BY <1>1, DeliveryAssumption DEF TypeOK, PlaceInv
<1>8. TypeOK'
  <2>1. sent' \subseteq 0 .. LogBound /\ net' \subseteq Requests
    BY <1>1, <1>3, <1>5 DEF TypeOK
  <2> QED  BY <1>1, <1>2, <1>3, <1>7, <2>1 DEF TypeOK
<1>9. PlaceInv'
  BY <1>1, <1>2, <1>3 DEF PlaceInv
<1>10. NetInv'
  BY <1>1, <1>2, <1>3, <1>4, <1>6 DEF NetInv, PlaceInv
<1>11. TakenInv' /\ BodyInv'
  BY <1>1, <1>2, <1>3 DEF TakenInv, BodyInv
<1>12. ReportIsTrue'
  BY <1>1, <1>2 DEF ReportIsTrue, PlaceInv, Running, exitPass
<1>13. SentIsTheLog'
  BY <1>1, <1>2, <1>3 DEF SentIsTheLog, PlaceInv, BodyInv, Running, exitUsage
<1> QED  BY <1>8, <1>9, <1>10, <1>11, <1>12, <1>13 DEF DeliveryInv

(* A request arrives or is lost.                                           *)
LEMMA ArriveKeeps ==
  ASSUME DeliveryInv, NEW m \in net, Arrive(m)
  PROVE  DeliveryInv'
<1>1. TypeOK /\ PlaceInv /\ NetInv /\ TakenInv /\ BodyInv /\ ReportIsTrue /\ SentIsTheLog /\ m \in Requests
  BY DEF DeliveryInv, TypeOK
<1>2. /\ log' = log /\ kind' = kind /\ size' = size /\ body' = body /\ queue' = queue /\ attempt' = attempt
      /\ live' = live /\ errs' = errs /\ exit' = exit /\ on' = on /\ sent' = sent /\ net' = net \ {m}
  BY DEF Arrive, Accept, AnswerLost, Unavailable, Refuse, RequestLost, Answered
<1>3. \/ copy' = copy /\ accepted' = accepted
      \/ /\ copy' = IF m.to = Receiver THEN m.body ELSE copy
         /\ accepted' = IF m.conn = "old" THEN accepted ELSE accepted \cup {m.to}
  BY DEF Arrive, Accept, AnswerLost, Unavailable, Refuse, RequestLost, Store, NotStored
<1>4. IF m.conn = "open"
      THEN pc' = "answered" /\ status' \in {"2xx", "3xx4xx", "5xx", "transport"}
           /\ (status' = "2xx" => m.to \in accepted')
      ELSE pc' = pc /\ status' = status
  BY DEF Arrive, Accept, AnswerLost, Unavailable, Refuse, RequestLost, Answered, Store
<1>5. Current' = Current
  BY <1>2 DEF Current
<1>6. m.conn = "open" => pc = "await" /\ m.to = Current /\ m.body = body
  BY <1>1 DEF NetInv
<1>7. accepted \subseteq accepted' /\ accepted' \subseteq accepted \cup {m.to}
      /\ (m.conn = "old" => accepted' = accepted)
  BY <1>3
<1>8. TypeOK'
  <2>1. m.to \in Targets /\ m.body \in 0 .. LogBound
    BY <1>1 DEF Requests
  <2>2. net' \subseteq Requests /\ accepted' \subseteq Targets /\ copy' \in 0 .. LogBound
    BY <1>1, <1>2, <1>3, <2>1 DEF TypeOK
  <2>3. pc' \in {"idle", "stat", "read", "post", "await", "answered", "backoff", "print"}
        /\ status' \in {"2xx", "3xx4xx", "5xx", "transport"}
    BY <1>1, <1>4 DEF TypeOK
  <2> QED  BY <1>1, <1>2, <2>2, <2>3 DEF TypeOK
<1>9. PlaceInv'
  BY <1>1, <1>2, <1>4, <1>6 DEF PlaceInv
<1>10. NetInv'
  <2>1. ASSUME NEW l \in net', l.conn = "open"
        PROVE  pc' = "await" /\ l.to = Current /\ l.body = body
    <3>1. l \in net /\ l # m
      BY <1>2, <2>1
    <3>2. m.conn # "open"
      BY <1>1, <2>1, <3>1, OneOpen
    <3> QED  BY <1>1, <1>4, <2>1, <3>1, <3>2 DEF NetInv
  <2> QED  BY <1>1, <1>2, <1>5, <2>1 DEF NetInv
<1>11. TakenInv'
  <2>1. pc' = "answered" /\ status' = "2xx" => Current \in accepted'
    BY <1>1, <1>4, <1>6, <1>7 DEF TakenInv
  <2>2. pc' = "print" => Receiver \in accepted'
    BY <1>1, <1>4, <1>7 DEF TakenInv
  <2>3. kind = "notify" => on \ (queue \cup errs) \subseteq accepted' /\ accepted' \subseteq on
    BY <1>1, <1>7 DEF TakenInv, NetInv
  <2> QED  BY <1>2, <1>5, <2>1, <2>2, <2>3 DEF TakenInv
<1>12. BodyInv'
  BY <1>1, <1>2, <1>4, <1>6 DEF BodyInv
<1>13. ReportIsTrue' /\ SentIsTheLog'
  BY <1>1, <1>2, <1>7, <1>11 DEF ReportIsTrue, SentIsTheLog, TakenInv
<1> QED  BY <1>8, <1>9, <1>10, <1>11, <1>12, <1>13 DEF DeliveryInv

(* The client stops waiting, or is stopped.                                *)
LEMMA LeftBehindKeeps ==
  ASSUME DeliveryInv, GiveUp \/ Killed
  PROVE  DeliveryInv'
<1>1. TypeOK /\ PlaceInv /\ NetInv /\ TakenInv /\ BodyInv /\ ReportIsTrue /\ SentIsTheLog
  BY DEF DeliveryInv
<1>2. /\ log' = log /\ copy' = copy /\ kind' = kind /\ size' = size /\ body' = body /\ queue' = queue
      /\ attempt' = attempt /\ live' = live /\ errs' = errs /\ on' = on /\ sent' = sent /\ accepted' = accepted
  BY DEF GiveUp, Killed, history
<1>3. Current' = Current
  BY <1>2 DEF Current
<1>4. CASE GiveUp
  <2>1. /\ pc = "await" /\ pc' = "answered" /\ status' = "transport" /\ exit' = exit
        /\ net' = {IF m.conn = "open" THEN [m EXCEPT !.conn = "late"] ELSE m : m \in net}
    BY <1>4 DEF GiveUp
  <2>2. ASSUME NEW l \in net'
        PROVE  l \in Requests /\ l.conn # "open" /\ (kind = "notify" /\ l.conn # "old" => l.to \in on)
    <3>1. PICK m \in net : l = IF m.conn = "open" THEN [m EXCEPT !.conn = "late"] ELSE m
      BY <2>1, <2>2
    <3>2. m \in Requests /\ (kind = "notify" /\ m.conn # "old" => m.to \in on)
      BY <1>1 DEF TypeOK, NetInv
    <3> QED  BY <3>1, <3>2, Relabelled
  <2>3. TypeOK'
    <3>1. net' \subseteq Requests
      BY <2>2
    <3> QED  BY <1>1, <1>2, <2>1, <3>1 DEF TypeOK
  <2>4. PlaceInv'
    BY <1>1, <1>2, <2>1 DEF PlaceInv
  <2>5. NetInv'
    BY <1>2, <2>2 DEF NetInv
  <2>6. TakenInv' /\ BodyInv' /\ ReportIsTrue' /\ SentIsTheLog'
    BY <1>1, <1>2, <2>1 DEF TakenInv, BodyInv, ReportIsTrue, SentIsTheLog
  <2> QED  BY <2>3, <2>4, <2>5, <2>6 DEF DeliveryInv
<1>5. CASE Killed
  <2>1. /\ pc' = "idle" /\ status' = status /\ exit' = Running
        /\ net' = {m \in net : m.conn # "open"}
    BY <1>5 DEF Killed
  <2>2. TypeOK'
    BY <1>1, <1>2, <2>1 DEF TypeOK
  <2>3. PlaceInv' /\ NetInv' /\ TakenInv' /\ BodyInv'
    BY <1>1, <1>2, <2>1 DEF PlaceInv, NetInv, TakenInv, BodyInv
  <2>4. ReportIsTrue' /\ SentIsTheLog'
    BY <1>1, <1>2, <2>1 DEF ReportIsTrue, SentIsTheLog, Running, exitPass, exitUsage
  <2> QED  BY <2>2, <2>3, <2>4 DEF DeliveryInv
<1> QED  BY <1>4, <1>5

(* One destination is done.                                                *)
LEMMA FinishedKeeps ==
  ASSUME DeliveryInv, pc \in {"answered", "backoff"}, NEW failed \in BOOLEAN, Finished(failed),
         ~failed => pc = "answered" /\ status = "2xx",
         UNCHANGED <<log, copy, net, kind, size, body, status, live, on, history>>
  PROVE  DeliveryInv'
<1>1. TypeOK /\ PlaceInv /\ NetInv /\ TakenInv /\ BodyInv /\ ReportIsTrue /\ SentIsTheLog
  BY DEF DeliveryInv
<1>2. /\ log' = log /\ copy' = copy /\ net' = net /\ kind' = kind /\ size' = size /\ body' = body
      /\ status' = status /\ live' = live /\ on' = on /\ sent' = sent /\ accepted' = accepted
      /\ attempt' = 0 /\ queue' = queue \ {Current}
      /\ errs' = IF failed THEN errs \cup {Current} ELSE errs
  BY DEF Finished, history
<1>3. queue # {} /\ Current \in queue /\ Current \in Targets
  BY <1>1, CurrentIsQueued DEF PlaceInv, TypeOK
<1>4. ~failed => Current \in accepted
  BY <1>1 DEF TakenInv
<1>5. \A m \in net : m.conn # "open"
  BY <1>1 DEF NetInv
<1>6. CASE kind = "push"
  <2>1. queue = {Receiver} /\ Current = Receiver /\ exit = Running
    BY <1>1, <1>6, CurrentOfPush DEF PlaceInv
  <2>2. \/ failed /\ pc' = "idle" /\ exit' = exitPushFailed
        \/ ~failed /\ pc' = "print" /\ exit' = exit
    BY <1>6 DEF Finished, Ended
  <2>3. TypeOK'
    BY <1>1, <1>2, <1>3, <2>2, DeliveryAssumption DEF TypeOK, exitPushFailed
  <2>4. PlaceInv' /\ NetInv'
    BY <1>1, <1>2, <1>5, <1>6, <2>1, <2>2 DEF PlaceInv, NetInv
  <2>5. TakenInv' /\ BodyInv'
    BY <1>1, <1>2, <1>4, <1>6, <2>1, <2>2 DEF TakenInv, BodyInv
  <2>6. ReportIsTrue' /\ SentIsTheLog'
    BY <1>1, <1>2, <1>6, <2>1, <2>2 DEF ReportIsTrue, SentIsTheLog, Running, exitPass, exitUsage, exitPushFailed
  <2> QED  BY <2>3, <2>4, <2>5, <2>6 DEF DeliveryInv
<1>7. CASE kind = "notify"
  <2>1. pc' = (IF queue = {Current} THEN "idle" ELSE "post") /\ exit' = exit
    BY <1>7 DEF Finished
  <2>2. TypeOK'
    BY <1>1, <1>2, <1>3, <2>1, DeliveryAssumption DEF TypeOK
  <2>3. PlaceInv' /\ NetInv'
    BY <1>1, <1>2, <1>3, <1>5, <1>7, <2>1, DeliveryAssumption DEF PlaceInv, NetInv
  <2>4. TakenInv' /\ BodyInv'
    BY <1>1, <1>2, <1>4, <1>7, <2>1 DEF TakenInv, BodyInv
  <2>5. ReportIsTrue' /\ SentIsTheLog'
    BY <1>2, <1>7, <2>4 DEF ReportIsTrue, SentIsTheLog, TakenInv
  <2> QED  BY <2>2, <2>3, <2>4, <2>5 DEF DeliveryInv
<1> QED  BY <1>1, <1>6, <1>7 DEF TypeOK

(* What became of the attempt is judged, waited out, or given up.          *)
LEMMA JudgeKeeps ==
  ASSUME DeliveryInv, Judge \/ Aborted \/ BackoffOver
  PROVE  DeliveryInv'
<1>1. TypeOK /\ PlaceInv /\ NetInv /\ TakenInv /\ BodyInv /\ ReportIsTrue /\ SentIsTheLog
  BY DEF DeliveryInv
<1>2. CASE Judge /\ pc' # "backoff"
  <2>1. pc = "answered" /\ UNCHANGED <<log, copy, net, kind, size, body, status, live, on, history>>
    BY <1>2 DEF Judge
  <2>2. \/ status = "2xx" /\ Finished(FALSE)
        \/ Finished(TRUE)
    BY <1>2 DEF Judge
  <2> QED  BY <2>1, <2>2, FinishedKeeps
<1>3. CASE Aborted
  BY <1>3, FinishedKeeps DEF Aborted
<1>4. CASE (Judge /\ pc' = "backoff") \/ BackoffOver
  <2>1. /\ log' = log /\ copy' = copy /\ net' = net /\ kind' = kind /\ size' = size /\ body' = body
        /\ status' = status /\ live' = live /\ on' = on /\ sent' = sent /\ accepted' = accepted
        /\ queue' = queue /\ attempt' = attempt /\ errs' = errs /\ exit' = exit
        /\ \/ pc = "answered" /\ pc' = "backoff" /\ attempt < Attempts
           \/ pc = "backoff" /\ pc' = "post"
    <3>1. CASE BackoffOver
      BY <3>1 DEF BackoffOver, history
    <3>2. CASE Judge /\ pc' = "backoff"
      <4>1. ~Finished(TRUE) /\ ~Finished(FALSE)
        BY <3>2 DEF Finished, Ended
      <4> QED  BY <3>2, <4>1 DEF Judge, history
    <3> QED  BY <1>4, <3>1, <3>2
  <2>2. TypeOK'
    BY <1>1, <2>1 DEF TypeOK
  <2>3. PlaceInv' /\ TakenInv' /\ BodyInv'
    BY <1>1, <2>1 DEF PlaceInv, TakenInv, BodyInv
  <2>4. NetInv'
    BY <1>1, <2>1 DEF NetInv
  <2>5. ReportIsTrue' /\ SentIsTheLog'
    BY <1>1, <2>1 DEF ReportIsTrue, SentIsTheLog
  <2> QED  BY <2>2, <2>3, <2>4, <2>5 DEF DeliveryInv
<1> QED  BY <1>2, <1>3, <1>4

(* The rest leaves the deliveries alone.                                   *)
LEMMA OtherKeeps ==
  ASSUME DeliveryInv, LogGrows \/ ContextEnds \/ PrintResult \/ UNCHANGED vars
  PROVE  DeliveryInv'
<1>1. TypeOK /\ PlaceInv /\ NetInv /\ TakenInv /\ BodyInv /\ ReportIsTrue /\ SentIsTheLog
  BY DEF DeliveryInv
<1>2. /\ copy' = copy /\ net' = net /\ kind' = kind /\ size' = size /\ body' = body /\ queue' = queue
      /\ attempt' = attempt /\ status' = status /\ errs' = errs /\ on' = on /\ sent' = sent /\ accepted' = accepted
  BY DEF LogGrows, ContextEnds, PrintResult, vars, command, history
<1>3. live' \in BOOLEAN
  BY <1>1 DEF LogGrows, ContextEnds, PrintResult, vars, command, TypeOK
<1>4. log' \in 0 .. LogBound /\ log <= log'
  BY <1>1, DeliveryAssumption DEF LogGrows, ContextEnds, PrintResult, vars, command, TypeOK
<1>5. \/ pc' = pc /\ exit' = exit
      \/ pc = "print" /\ pc' = "idle" /\ exit' \in {exitPass, exitUsage}
  BY DEF LogGrows, ContextEnds, PrintResult, Ended, vars, command
<1>6. Current' = Current
  BY <1>2 DEF Current
<1>7. TypeOK'
  BY <1>1, <1>2, <1>3, <1>4, <1>5 DEF TypeOK
<1>8. PlaceInv' /\ NetInv' /\ TakenInv'
  BY <1>1, <1>2, <1>5, <1>6 DEF PlaceInv, NetInv, TakenInv
<1>9. BodyInv'
  BY <1>1, <1>2, <1>4, <1>5 DEF BodyInv, TypeOK
<1>10. ReportIsTrue'
  BY <1>1, <1>2, <1>5 DEF ReportIsTrue, TakenInv
<1>11. SentIsTheLog'
  <2>1. \A b \in sent : b \in Nat
    BY <1>1 DEF TypeOK
  <2> QED  BY <1>1, <1>2, <1>4, <1>5, <2>1 DEF SentIsTheLog, TakenInv, TypeOK
<1> QED  BY <1>7, <1>8, <1>9, <1>10, <1>11 DEF DeliveryInv

LEMMA NextKeeps ==
  ASSUME DeliveryInv, [Next]_vars
  PROVE  DeliveryInv'
<1>1. CASE StartPush \/ PushRefused \/ StartNotify
  BY <1>1, BeginKeeps, ReadKeeps
<1>2. CASE Step
  BY <1>2, ReadKeeps, PostKeeps, JudgeKeeps, OtherKeeps DEF Step
<1>3. CASE \E m \in net : Arrive(m)
  BY <1>3, ArriveKeeps
<1>4. CASE GiveUp \/ Killed
  BY <1>4, LeftBehindKeeps
<1>5. CASE LogGrows \/ ContextEnds \/ UNCHANGED vars
  BY <1>5, OtherKeeps
<1> QED  BY <1>1, <1>2, <1>3, <1>4, <1>5 DEF Next

-----------------------------------------------------------------------------
(* Where the command is, what is in flight and who took a request agree,   *)
(* for any cap, any number of attempts and any number of webhooks.         *)
THEOREM Invariance == Spec => []DeliveryInv
<1>1. Init => DeliveryInv
  BY InitHolds
<1>2. DeliveryInv /\ [Next]_vars => DeliveryInv'
  BY NextKeeps
<1> QED  BY <1>1, <1>2, PTL DEF Spec

(* What push and Send report as delivered was delivered by this run, and   *)
(* no webhook is passed over or told without being asked for.              *)
THEOREM ReportsAreTrue == Spec => []ReportIsTrue
<1>1. DeliveryInv => ReportIsTrue
  BY DEF DeliveryInv
<1> QED  BY <1>1, Invariance, PTL

(* What a push sends is the log as it was at one moment of the run, within *)
(* the cap.                                                                *)
THEOREM SentIsTrue == Spec => []SentIsTheLog
<1>1. DeliveryInv => SentIsTheLog
  BY DEF DeliveryInv
<1> QED  BY <1>1, Invariance, PTL
=============================================================================
