------------------------------ MODULE Delivery ------------------------------
(***************************************************************************)
(* The two commands that send something out over HTTP: `probavi push`      *)
(* (cmd/probavi/push.go, internal/push/push.go), which copies the evidence *)
(* log to a receiver while drills append to it, and the notifications at   *)
(* the end of `probavi run` (internal/notify/notify.go). Both run the same *)
(* attempt loop over the same network: a request may be lost, its answer   *)
(* may be lost, and a request given up on may still arrive much later.     *)
(*                                                                         *)
(* The log is its length: it only grows, so a length is a byte string, and *)
(* a length may end inside a line. Commands run one after the other, as a  *)
(* timer starts them; a request left behind by one arrives during another. *)
(***************************************************************************)
EXTENDS Naturals, FiniteSets

CONSTANTS
  MaxLogBytes,   (* the largest log push sends                              *)
  LogBound,      (* bound: how far the log grows                            *)
  Attempts,      (* how often one destination is tried                      *)
  NumHooks,      (* webhooks of the drill configuration, in its order       *)
  MaxStray       (* bound: requests in flight that nobody waits for         *)

ASSUME DeliveryAssumption ==
  /\ MaxLogBytes \in Nat /\ LogBound \in Nat /\ MaxLogBytes < LogBound
  /\ Attempts \in Nat \ {0} /\ NumHooks \in Nat /\ MaxStray \in Nat

Receiver == 0                      (* the destination of a push             *)
Hooks    == 1 .. NumHooks
Targets  == {Receiver} \cup Hooks
Payload  == 0                      (* the body of a notification            *)

VARIABLES
  log,       (* bytes in the evidence log                                   *)
  copy,      (* the bytes the receiver last stored                          *)
  net,       (* requests in flight                                          *)
  pc, kind,  (* where the command is, and which one it is                   *)
  size,      (* what Stat said of the log                                   *)
  body,      (* the bytes every attempt of this run sends                   *)
  queue,     (* destinations still to be served                             *)
  attempt,   (* attempts made for the current one                           *)
  status,    (* what post made of the last attempt                          *)
  live,      (* the context: no signal came and the budget is not spent     *)
  errs,      (* destinations whose delivery returned an error               *)
  exit,      (* the exit code of a push that ended, Running without one     *)
  on,        (* the webhooks whose filter takes the outcome (notify)        *)
  sent,      (* bodies this run sent (history)                              *)
  accepted   (* destinations that took a request of this run (history)      *)

command == <<pc, kind, size, body, queue, attempt, status, live, errs, exit, on>>
history == <<sent, accepted>>
vars    == <<log, copy, net, command, history>>

exitPass == 0
exitPushFailed == 2
exitUsage == 3
Running == 9

(* "open": the current attempt waits for the answer. "late": an earlier    *)
(* attempt of this run gave up on it. "old": an earlier run did.           *)
Requests == [to : Targets, body : 0 .. LogBound, conn : {"open", "late", "old"}]
Strays   == {m \in net : m.conn # "open"}

TypeOK ==
  /\ log \in 0 .. LogBound /\ copy \in 0 .. LogBound
  /\ net \subseteq Requests
  /\ pc \in {"idle", "stat", "read", "post", "await", "answered", "backoff", "print"}
  /\ kind \in {"push", "notify"}
  /\ size \in 0 .. LogBound /\ body \in 0 .. LogBound
  /\ queue \subseteq Targets
  /\ attempt \in 0 .. Attempts
  /\ status \in {"2xx", "3xx4xx", "5xx", "transport"}
  /\ live \in BOOLEAN
  /\ errs \subseteq Targets /\ on \subseteq Hooks
  /\ exit \in {exitPass, exitPushFailed, exitUsage, Running}
  /\ sent \subseteq 0 .. LogBound /\ accepted \subseteq Targets

Init ==
  /\ log = 0 /\ copy = 0 /\ net = {}
  /\ pc = "idle" /\ kind = "push" /\ size = 0 /\ body = 0 /\ queue = {}
  /\ attempt = 0 /\ status = "2xx" /\ live = TRUE /\ errs = {}
  /\ exit = Running /\ on = {} /\ sent = {} /\ accepted = {}

-----------------------------------------------------------------------------
(* A drill appends, a few bytes at a time.                                 *)
LogGrows ==
  /\ log < LogBound
  /\ log' = log + 1
  /\ UNCHANGED <<copy, net, command, history>>

(* A command starts: what is still in flight belongs to earlier runs.      *)
Begin(k, label, b, q) ==
  /\ pc = "idle"
  /\ kind' = k /\ pc' = label /\ body' = b /\ queue' = q
  /\ attempt' = 0 /\ live' = TRUE /\ errs' = {} /\ sent' = {} /\ accepted' = {}
  /\ net' = {[m EXCEPT !.conn = "old"] : m \in net}
  /\ UNCHANGED <<log, copy, size, status>>

Ended(code) == pc' = "idle" /\ exit' = code

(* runPush up to ReadLog, when parsePushFlags, resolvePush and New agree.  *)
StartPush ==
  /\ Begin("push", "stat", 0, {Receiver})
  /\ exit' = Running /\ UNCHANGED on

(* They do not, or the log cannot be opened or read: usage, nothing sent.  *)
PushRefused ==
  \/ /\ Begin("push", "idle", 0, {})
     /\ exit' = exitUsage /\ UNCHANGED on
  \/ /\ pc \in {"stat", "read"}
     /\ Ended(exitUsage)
     /\ UNCHANGED <<log, copy, net, kind, size, body, queue, attempt, status, live, errs, on, history>>

(* Send of the Notifier: the webhooks whose filter takes the outcome.      *)
StartNotify ==
  \E hooks \in SUBSET Hooks :
    /\ Begin("notify", IF hooks = {} THEN "idle" ELSE "post", Payload, hooks)
    /\ exit' = Running /\ on' = hooks

(* ReadLog: the size, then the bytes, with the cap applied to both because *)
(* a drill may append in between.                                          *)
StatLogUnlessSent ==   (* mutant: a log as long as at the last push is refused *)
  /\ pc = "stat"
  /\ size' = log
  /\ IF log > MaxLogBytes THEN Ended(exitUsage)
     ELSE IF log = size /\ log > 0 THEN Ended(exitUsage)
     ELSE pc' = "read" /\ UNCHANGED exit
  /\ UNCHANGED <<log, copy, net, kind, body, queue, attempt, status, live, errs, on, history>>

StatLog ==
  /\ pc = "stat"
  /\ size' = log
  /\ IF log > MaxLogBytes THEN Ended(exitUsage) ELSE pc' = "read" /\ UNCHANGED exit
  /\ UNCHANGED <<log, copy, net, kind, body, queue, attempt, status, live, errs, on, history>>

ReadBodyUncapped ==   (* mutant: the size Stat gave is taken for the cap's last word *)
  /\ pc = "read"
  /\ body' = log
  /\ pc' = "post"
  /\ UNCHANGED <<log, copy, net, kind, size, queue, attempt, status, live, errs, exit, on, history>>

ReadBody ==
  /\ pc = "read"
  /\ IF log > MaxLogBytes
     THEN Ended(exitUsage) /\ UNCHANGED body
     ELSE body' = log /\ pc' = "post" /\ UNCHANGED exit
  /\ UNCHANGED <<log, copy, net, kind, size, queue, attempt, status, live, errs, on, history>>

-----------------------------------------------------------------------------
(* The destination being served: the first of the configuration.           *)
Current == CHOOSE t \in queue : \A u \in queue : t <= u

(* post: one request. With the context ended the client fails without      *)
(* sending anything, which is a transport error like any other.            *)
Post ==
  /\ pc = "post"
  /\ attempt' = attempt + 1
  /\ IF live
     THEN /\ net' = net \cup {[to |-> Current, body |-> body, conn |-> "open"]}
          /\ sent' = sent \cup {body}
          /\ pc' = "await" /\ UNCHANGED status
     ELSE /\ pc' = "answered" /\ status' = "transport"
          /\ UNCHANGED <<net, sent>>
  /\ UNCHANGED <<log, copy, kind, size, body, queue, live, errs, exit, on, accepted>>

(* The receiver's side. It stores the body and says so, or an error is     *)
(* answered on its behalf after or before it stored it, or it refuses.     *)
Store(m) ==
  /\ copy' = IF m.to = Receiver THEN m.body ELSE copy
  /\ accepted' = IF m.conn = "old" THEN accepted ELSE accepted \cup {m.to}

NotStored == UNCHANGED <<copy, accepted>>

(* The answer reaches the attempt that waits for it, or nobody.            *)
Answered(m, s) ==
  /\ net' = net \ {m}
  /\ IF m.conn = "open" THEN pc' = "answered" /\ status' = s ELSE UNCHANGED <<pc, status>>
  /\ UNCHANGED <<log, kind, size, body, queue, attempt, live, errs, exit, on, sent>>

Accept(m)      == Store(m) /\ Answered(m, "2xx")
AnswerLost(m)  == Store(m) /\ Answered(m, "transport")
Unavailable(m) == (Store(m) \/ NotStored) /\ Answered(m, "5xx")
Refuse(m)      == NotStored /\ Answered(m, "3xx4xx")
RequestLost(m) == NotStored /\ Answered(m, "transport")

Arrive(m) ==
  \/ Accept(m) \/ AnswerLost(m) \/ Unavailable(m) \/ Refuse(m) \/ RequestLost(m)

(* The attempt's timeout, or the end of the context: the client closes the *)
(* connection, and the request is still on its way.                        *)
GiveUp ==
  /\ pc = "await"
  /\ Cardinality(Strays) < MaxStray
  /\ net' = {IF m.conn = "open" THEN [m EXCEPT !.conn = "late"] ELSE m : m \in net}
  /\ pc' = "answered" /\ status' = "transport"
  /\ UNCHANGED <<log, copy, kind, size, body, queue, attempt, live, errs, exit, on, history>>

(* A signal (push), or the budget is spent (both). The context of a push   *)
(* begins after the log was read; a signal before that kills the process.  *)
ContextEnds ==
  /\ pc \notin {"idle", "stat", "read"} /\ live
  /\ live' = FALSE
  /\ UNCHANGED <<log, copy, net, pc, kind, size, body, queue, attempt, status, errs, exit, on, history>>

-----------------------------------------------------------------------------
(* One destination is done, with or without an error: the next webhook is  *)
(* served whatever became of this one, and a push has its exit code.       *)
FinishedAtFirstError(failed) ==   (* mutant: Send returns at the first webhook that fails *)
  /\ errs' = IF failed THEN errs \cup {Current} ELSE errs
  /\ queue' = IF failed THEN {} ELSE queue \ {Current}
  /\ attempt' = 0
  /\ IF kind = "push"
     THEN IF failed THEN Ended(exitPushFailed) ELSE pc' = "print" /\ UNCHANGED exit
     ELSE pc' = (IF queue' = {} THEN "idle" ELSE "post") /\ UNCHANGED exit

Finished(failed) ==
  /\ errs' = IF failed THEN errs \cup {Current} ELSE errs
  /\ queue' = queue \ {Current}
  /\ attempt' = 0
  /\ IF kind = "push"
     THEN IF failed THEN Ended(exitPushFailed) ELSE pc' = "print" /\ UNCHANGED exit
     ELSE pc' = (IF queue = {Current} THEN "idle" ELSE "post") /\ UNCHANGED exit

(* The loop of Push and of deliver, after an attempt: only a transport     *)
(* error and a 5xx are tried again, while attempts are left.               *)
Judge ==
  /\ pc = "answered"
  /\ \/ status = "2xx" /\ Finished(FALSE)
     \/ status = "3xx4xx" /\ Finished(TRUE)
     \/ status \in {"5xx", "transport"} /\ attempt = Attempts /\ Finished(TRUE)
     \/ /\ status \in {"5xx", "transport"} /\ attempt < Attempts
        /\ pc' = "backoff" /\ UNCHANGED <<queue, attempt, errs, exit>>
  /\ UNCHANGED <<log, copy, net, kind, size, body, status, live, on, history>>

(* The wait between attempts: the timer or the context, and when both are  *)
(* ready select takes either.                                              *)
BackoffOver ==
  /\ pc = "backoff"
  /\ pc' = "post"
  /\ UNCHANGED <<log, copy, net, kind, size, body, queue, attempt, status, live, errs, exit, on, history>>

Aborted ==
  /\ pc = "backoff" /\ ~ live
  /\ Finished(TRUE)
  /\ UNCHANGED <<log, copy, net, kind, size, body, status, live, on, history>>

(* The summary on stdout, which may be a closed pipe.                      *)
PrintResult ==
  /\ pc = "print"
  /\ \/ Ended(exitPass)
     \/ Ended(exitUsage)
  /\ UNCHANGED <<log, copy, net, kind, size, body, queue, attempt, status, live, errs, on, history>>

(* kill -9, or the machine goes down: no exit code, nothing is recorded.   *)
Killed ==
  /\ pc # "idle"
  /\ pc' = "idle"
  /\ net' = {m \in net : m.conn # "open"}
  /\ exit' = Running
  /\ UNCHANGED <<log, copy, kind, size, body, queue, attempt, status, live, errs, on, history>>

Step == StatLog \/ ReadBody \/ Post \/ Judge \/ BackoffOver \/ Aborted \/ PrintResult

Next ==
  \/ LogGrows
  \/ StartPush \/ PushRefused \/ StartNotify
  \/ Step
  \/ \E m \in net : Arrive(m)
  \/ GiveUp \/ ContextEnds \/ Killed

(* A command runs on until it ends, an attempt ends by its answer or by    *)
(* its timeout, and what is in flight arrives or is lost.                  *)
Fairness ==
  /\ WF_vars(Step)
  /\ WF_vars(GiveUp \/ \E m \in net : m.conn = "open" /\ Arrive(m))
  /\ \A to \in Targets, b \in 0 .. LogBound :
       WF_vars(\E m \in Strays : m.to = to /\ m.body = b /\ Arrive(m))

(* The timer pushes again and again, and not every push is interrupted,    *)
(* fails to read the log or meets a receiver that is away.                 *)
Retried ==
  /\ SF_vars(StartPush) /\ SF_vars(StatLog) /\ SF_vars(ReadBody)
  /\ SF_vars(kind = "push" /\ live /\ Post)
  /\ SF_vars(\E m \in net : m.conn = "open" /\ m.to = Receiver /\ Accept(m))

Spec == Init /\ [][Next]_vars /\ Fairness /\ Retried

-----------------------------------------------------------------------------
(* A delivery that is reported was made, by this run: exit code 0 of a     *)
(* push, and every webhook whose filter took the outcome and which Send    *)
(* has no error for. A webhook is not passed over because another failed,  *)
(* and one that was not asked for is not told.                             *)
ReportIsTrue ==
  /\ kind = "push" /\ exit = exitPass => Receiver \in accepted
  /\ kind = "notify" /\ queue = {} => on \ errs \subseteq accepted
  /\ kind = "notify" => accepted \subseteq on

(* What leaves the host: the log as it was at one moment of this run, torn *)
(* tail included and never more than the cap, although it grew between     *)
(* Stat and the read.                                                      *)
SentIsTheLog ==
  kind = "push" => \A b \in sent : size <= b /\ b <= log /\ b <= MaxLogBytes

(* Why these hold. Where the command is decides what is left to do: a      *)
(* command that attempts has a destination, a push only the receiver, and  *)
(* nothing was sent before the log was read.                               *)
PlaceInv ==
  /\ pc \in {"post", "await", "answered", "backoff"} => queue # {}
  /\ pc \in {"stat", "read", "print"} => kind = "push"
  /\ kind = "push" /\ pc \in {"stat", "read", "post", "await", "answered", "backoff"} => queue = {Receiver}
  /\ pc \in {"stat", "read"} => sent = {}
  /\ kind = "push" /\ pc # "idle" => exit = Running
  /\ kind = "notify" => queue \subseteq on
  /\ pc \in {"stat", "read", "post", "backoff"} => attempt < Attempts

(* At most one request is waited for, that of the current attempt; and     *)
(* what this run left behind goes to where it was asked to send.           *)
NetInv ==
  /\ \A m \in net : m.conn = "open" => pc = "await" /\ m.to = Current /\ m.body = body
  /\ kind = "notify" => \A m \in net : m.conn # "old" => m.to \in on

(* A success that is not reported yet is one the destination knows of.     *)
TakenInv ==
  /\ pc = "answered" /\ status = "2xx" => Current \in accepted
  /\ pc = "print" => Receiver \in accepted
  /\ kind = "notify" => on \ (queue \cup errs) \subseteq accepted /\ accepted \subseteq on

(* The body of a push is the log at a moment after Stat.                   *)
BodyInv ==
  /\ kind = "push" /\ pc \in {"post", "await", "answered", "backoff", "print"} =>
       size <= body /\ body <= log /\ body <= MaxLogBytes
  /\ pc = "read" => size <= log

DeliveryInv == TypeOK /\ PlaceInv /\ NetInv /\ TakenInv /\ BodyInv /\ ReportIsTrue /\ SentIsTheLog

(* Whatever earlier pushes missed, and whatever of them arrives late and   *)
(* out of order, once the log rests the receiver ends up with all of it.   *)
SelfHealing == <>[](log <= MaxLogBytes => copy = log)
=============================================================================
