--------------------------- MODULE AdapterSession ---------------------------
(***************************************************************************)
(* One operation of the adapter protocol after another: Runner.do of       *)
(* internal/adapter/session.go. Each is a fresh process that shares three  *)
(* pipes with the core; the core's goroutines are the caller, the stderr   *)
(* drain, the watchdog, and the context watcher of os/exec.                *)
(*                                                                         *)
(* The adapter is another program: it may send anything, hang, exit or     *)
(* leave a child behind that holds its ends of the pipes for ever.         *)
(***************************************************************************)
EXTENDS Integers, Sequences

CONSTANTS
  Ops,            (* operations the core asks for                           *)
  MaxQueued,      (* messages in the stdout pipe                            *)
  Holdings        (* which pipes a child of the adapter may inherit         *)

Pipes == {"stdin", "stdout", "stderr"}

ASSUME OpsAssumption == Ops \subseteq {"probe", "provision", "healthcheck", "teardown"}
ASSUME QueueAssumption == MaxQueued \in Nat \ {0}
ASSUME HoldingsAssumption == Holdings \subseteq SUBSET Pipes

VARIABLES
  pc,         (* where the caller is                                        *)
  op,         (* the operation of this session                              *)
  ctx,        (* live, or over: the drill's limit or a signal               *)
  process,    (* none, running, zero or bad (its exit status), reaped       *)
  held,       (* pipe ends that a child of the adapter holds                *)
  out,        (* messages in the stdout pipe and in the scanner             *)
  stdoutOpen, (* our read end of stdout                                     *)
  words,      (* what the adapter wrote to stderr: piped, logged or lost    *)
  watchdog,   (* waiting, timing (the grace period runs), fired or stopped  *)
  cancelled,  (* os/exec has sent its SIGTERM                               *)
  killed,     (* wait's own verdict: it had to kill                         *)
  final,      (* what readLoop returned; "crash" is its error               *)
  status,     (* what wait returned: none, ctx, lingered or exit            *)
  result,     (* what do returned: payload, error, crash, internal          *)
  said        (* the adapter's final response, or a violation (history)     *)

caller == <<op, killed, status, result>>
child == <<process, held, out, words, said>>
watch == <<ctx, watchdog, cancelled, stdoutOpen>>
vars == <<pc, final, caller, child, watch>>

(* A sandbox call; a final response: ok, ok with a payload that does not   *)
(* validate, not ok, or not ok without its error object; and anything else:*)
(* no JSON, a foreign request id or version, a line over the limit.        *)
Finals == {"ok", "malformed", "not_ok", "bare"}
Messages == Finals \cup {"sandbox_call", "junk"}

TypeOK ==
  /\ pc \in {"idle", "request", "read", "dispatch", "reply", "drain", "reap", "verdict"}
  /\ op \in Ops
  /\ ctx \in {"live", "over"}
  /\ process \in {"none", "running", "zero", "bad", "reaped"}
  /\ held \in SUBSET Pipes
  /\ out \in Seq(Messages) /\ Len(out) <= MaxQueued
  /\ stdoutOpen \in BOOLEAN /\ cancelled \in BOOLEAN /\ killed \in BOOLEAN
  /\ words \in {"none", "piped", "logged", "lost"}
  /\ watchdog \in {"waiting", "timing", "fired", "stopped"}
  /\ final \in {"none", "crash", "write_failed"} \cup Finals
  /\ status \in {"none", "ctx", "lingered", "exit"}
  /\ result \in {"none", "payload", "error", "crash", "internal"}
  /\ said \in Messages \cup {"none"}

Init ==
  /\ pc = "idle" /\ op \in Ops /\ ctx = "live" /\ process = "none" /\ held = {} /\ out = <<>>
  /\ stdoutOpen = TRUE /\ words = "none" /\ watchdog = "waiting" /\ cancelled = FALSE
  /\ killed = FALSE /\ final = "none" /\ status = "none" /\ result = "none" /\ said = "none"

Running == process = "running"
Exited == process \in {"zero", "bad"}
(* Nobody has the adapter's end of a pipe: a read ends, a write breaks.    *)
Abandoned(pipe) == Exited /\ pipe \notin held
Killed == IF Running THEN "bad" ELSE process

-----------------------------------------------------------------------------
(* The adapter and its children. What it sends after a final response or a *)
(* violation is never read; a call in a probe is a violation.              *)
Send(m) ==
  /\ Running /\ Len(out) < MaxQueued /\ said = "none" /\ final = "none"
  /\ out' = Append(out, m)
  /\ said' = IF m = "sandbox_call" /\ op # "probe" THEN "none" ELSE m
  /\ UNCHANGED <<pc, final, caller, watch, process, held, words>>

Complain ==
  /\ Running /\ words = "none"
  /\ words' = "piped"
  /\ UNCHANGED <<pc, final, caller, watch, process, held, out, said>>

Spawn(pipes) ==
  /\ Running /\ held = {}
  /\ held' = pipes
  /\ UNCHANGED <<pc, final, caller, watch, process, out, words, said>>

ChildExits ==
  /\ held # {}
  /\ held' = {}
  /\ UNCHANGED <<pc, final, caller, watch, process, out, words, said>>

Exit(code) ==
  /\ Running
  /\ process' = code
  /\ UNCHANGED <<pc, final, caller, watch, held, out, words, said>>

AdapterStep ==
  \/ \E m \in Messages : Send(m)
  \/ Complain \/ ChildExits
  \/ \E pipes \in Holdings : Spawn(pipes)
  \/ \E code \in {"zero", "bad"} : Exit(code)

-----------------------------------------------------------------------------
(* start: a fresh process and its pipes, or an error with neither.         *)
Call(o, started) ==
  /\ pc = "idle"
  /\ op' = o /\ ctx' = "live" /\ held' = {} /\ out' = <<>> /\ stdoutOpen' = TRUE
  /\ words' = "none" /\ watchdog' = "waiting" /\ cancelled' = FALSE /\ killed' = FALSE
  /\ final' = "none" /\ status' = "none" /\ said' = "none"
  /\ process' = IF started THEN "running" ELSE "none"
  /\ pc' = IF started THEN "request" ELSE "idle"
  /\ result' = IF started THEN "none" ELSE "internal"

(* readLoop is over, and the caller enters wait: stdin is closed and the   *)
(* watchdog told to stop, which it may notice only after it has fired.     *)
Leave(f) ==
  /\ final' = f
  /\ pc' = "drain"
  /\ watchdog' \in IF watchdog = "timing" THEN {"timing", "stopped"}
                   ELSE IF watchdog = "waiting" THEN {"stopped"} ELSE {watchdog}

(* A write of the request or of a sandbox result, if there is room in the  *)
(* pipe or somebody reads it.                                              *)
WriteLands ==
  /\ pc \in {"request", "reply"} /\ ~ Abandoned("stdin")
  /\ pc' = "read"
  /\ UNCHANGED <<final, caller, child, watch>>

(* closedPipe: the adapter has closed its stdin or is gone. Not a verdict, *)
(* the read loop finds out what happened.                                  *)
BreakIsCrash ==   (* mutant: a broken pipe is the verdict *)
  /\ pc \in {"request", "reply"} /\ (Running \/ Abandoned("stdin"))
  /\ Leave("crash")
  /\ UNCHANGED <<caller, child, ctx, cancelled, stdoutOpen>>

WriteBreaks ==
  /\ pc \in {"request", "reply"} /\ (Running \/ Abandoned("stdin"))
  /\ pc' = "read"
  /\ UNCHANGED <<final, caller, child, watch>>

(* Any other error: the deferred finish kills the adapter and reaps it.    *)
RequestFailsUnreaped ==   (* mutant: finish is not deferred *)
  /\ pc = "request"
  /\ pc' = "idle" /\ result' = "crash" /\ final' = "write_failed"
  /\ UNCHANGED <<child, watch, op, killed, status>>

RequestFails ==
  /\ pc = "request"
  /\ Leave("write_failed")
  /\ stdoutOpen' = FALSE
  /\ process' = Killed
  /\ UNCHANGED <<caller, held, out, words, said, ctx, cancelled>>

ReplyFails ==
  /\ pc = "reply"
  /\ Leave("write_failed")
  /\ UNCHANGED <<caller, child, ctx, cancelled, stdoutOpen>>

(* readMessage. What the scanner holds is read though stdout is closed.    *)
ReadMessage ==
  /\ pc = "read" /\ out # <<>>
  /\ out' = Tail(out)
  /\ LET m == Head(out) IN
       \/ /\ m = "sandbox_call" /\ op # "probe"
          /\ pc' = "dispatch"
          /\ UNCHANGED <<final, watchdog>>
       \/ m \in Finals /\ Leave(m)
       \/ m = "junk" /\ Leave("crash")
       \/ m = "sandbox_call" /\ op = "probe" /\ Leave("crash")
  /\ UNCHANGED <<caller, process, held, words, said, ctx, cancelled, stdoutOpen>>

ReadEnds ==
  /\ pc = "read"
  /\ ~ stdoutOpen \/ (out = <<>> /\ Abandoned("stdout"))
  /\ Leave("crash")
  /\ UNCHANGED <<caller, child, ctx, cancelled, stdoutOpen>>

(* dispatchVerb answers, whatever the sandbox said.                        *)
Dispatch ==
  /\ pc = "dispatch"
  /\ pc' = "reply"
  /\ UNCHANGED <<final, caller, child, watch>>

-----------------------------------------------------------------------------
(* wait. awaitStderr first: reaping closes the pipe the drain reads from.  *)
DrainSkips ==   (* mutant: the process is reaped before the drain is done *)
  /\ pc = "drain"
  /\ pc' = "reap"
  /\ UNCHANGED <<final, caller, child, watch>>

DrainEnds ==
  /\ pc = "drain" /\ Abandoned("stderr") /\ words # "piped"
  /\ pc' = "reap"
  /\ UNCHANGED <<final, caller, child, watch>>

DrainLate ==
  /\ pc = "drain"
  /\ process' = Killed
  /\ killed' = TRUE
  /\ words' = IF words = "piped" THEN "lost" ELSE words
  /\ pc' = "reap"
  /\ UNCHANGED <<final, op, status, result, held, out, said, watch>>

(* cmd.Wait: a non-zero status first, then the error of a cancellation.    *)
ReapTrusting ==   (* mutant: a clean status is enough *)
  /\ pc = "reap" /\ Exited
  /\ process' = "reaped"
  /\ words' = IF words = "piped" THEN "lost" ELSE words
  /\ status' = IF process = "bad" THEN "exit" ELSE IF cancelled THEN "ctx" ELSE "none"
  /\ pc' = "verdict"
  /\ UNCHANGED <<final, op, killed, result, held, out, said, watch>>

Reap ==
  /\ pc = "reap" /\ Exited
  /\ process' = "reaped"
  /\ words' = IF words = "piped" THEN "lost" ELSE words
  /\ status' = IF process = "bad" THEN "exit"
               ELSE IF cancelled THEN "ctx"
               ELSE IF killed THEN "lingered" ELSE "none"
  /\ pc' = "verdict"
  /\ UNCHANGED <<final, op, killed, result, held, out, said, watch>>

ReapLate ==
  /\ pc = "reap" /\ ~ killed
  /\ process' = Killed
  /\ killed' = TRUE
  /\ UNCHANGED <<pc, final, op, status, result, held, out, words, said, watch>>

(* The rest of do, and of the operation that decodes its payload.          *)
AnswerStrictly ==   (* mutant: a cancellation is held against the adapter *)
  CASE final = "ok" /\ status = "none" -> "payload"
    [] final = "not_ok" /\ status = "none" -> "error"
    [] OTHER -> "crash"

Answer ==
  CASE final = "ok" /\ status \in {"none", "ctx"} -> "payload"
    [] final = "not_ok" /\ status \in {"none", "ctx"} -> "error"
    [] OTHER -> "crash"

Return ==
  /\ pc = "verdict"
  /\ result' = Answer
  /\ pc' = "idle"
  /\ UNCHANGED <<final, child, watch, op, killed, status>>

-----------------------------------------------------------------------------
(* The other goroutines.                                                   *)
CtxEnds ==
  /\ pc # "idle" /\ ctx = "live"
  /\ ctx' = "over"
  /\ UNCHANGED <<pc, final, caller, child, watchdog, cancelled, stdoutOpen>>

(* os/exec: SIGTERM, and SIGKILL after WaitDelay.                          *)
Terminate ==
  /\ pc # "idle" /\ ctx = "over" /\ ~ cancelled /\ (Running \/ Exited)
  /\ cancelled' = TRUE
  /\ UNCHANGED <<pc, final, caller, child, ctx, watchdog, stdoutOpen>>

WaitDelayEnds ==
  /\ cancelled /\ Running
  /\ process' = Killed
  /\ UNCHANGED <<pc, final, caller, held, out, words, said, watch>>

WatchdogWakes ==
  /\ pc # "idle" /\ watchdog = "waiting" /\ ctx = "over"
  /\ watchdog' = "timing"
  /\ UNCHANGED <<pc, final, caller, child, ctx, cancelled, stdoutOpen>>

WatchdogOnlyKills ==   (* mutant: stdout is left open *)
  /\ pc # "idle" /\ watchdog = "timing"
  /\ watchdog' = "fired"
  /\ process' = Killed
  /\ UNCHANGED <<pc, final, caller, held, out, words, said, ctx, cancelled, stdoutOpen>>

WatchdogFires ==
  /\ pc # "idle" /\ watchdog = "timing"
  /\ watchdog' = "fired"
  /\ process' = Killed
  /\ stdoutOpen' = FALSE
  /\ UNCHANGED <<pc, final, caller, held, out, words, said, ctx, cancelled>>

(* drainStderr reads to the end, whatever the length of the lines.         *)
LogStderr ==
  /\ words = "piped"
  /\ words' = "logged"
  /\ UNCHANGED <<pc, final, caller, watch, process, held, out, said>>

ReadStep == ReadMessage \/ ReadEnds
WaitStep == DrainEnds \/ DrainLate \/ Reap \/ ReapLate \/ Return
Guards == Terminate \/ WaitDelayEnds \/ WatchdogWakes \/ WatchdogFires

Next ==
  \/ AdapterStep
  \/ \E o \in Ops, started \in BOOLEAN : Call(o, started)
  \/ WriteLands \/ WriteBreaks \/ RequestFails \/ ReplyFails
  \/ ReadStep \/ Dispatch \/ WaitStep
  \/ CtxEnds \/ Guards \/ LogStderr

(* The core's goroutines keep running, its timers fire, and the drill has  *)
(* a limit. Nothing is assumed of the adapter: that it sends, reads or ends*)
Fairness ==
  /\ WF_vars(ReadStep) /\ WF_vars(WriteBreaks /\ Exited) /\ WF_vars(Dispatch) /\ WF_vars(WaitStep)
  /\ WF_vars(CtxEnds) /\ WF_vars(LogStderr)
  /\ WF_vars(Terminate) /\ WF_vars(WaitDelayEnds)
  /\ WF_vars(WatchdogWakes) /\ WF_vars(WatchdogFires)

Spec == Init /\ [][Next]_vars /\ Fairness

-----------------------------------------------------------------------------
Returned == pc = "idle" /\ result \notin {"none", "internal"}

(* Whatever way do returns, the process it started has been reaped.        *)
NothingLeftBehind == pc = "idle" => process \in {"none", "reaped"}

(* A result is believed only from an adapter that answered, ended by itself*)
(* with status zero, and was not found lingering before the drill was over.*)
BelievedAnswer ==
  Returned /\ result # "crash" =>
    /\ final \in {"ok", "not_ok"} /\ status \in {"none", "ctx"}
    /\ killed => cancelled

(* An answer that was read, from an adapter that ended cleanly and was not *)
(* found lingering, stands, though the drill was cancelled meanwhile.      *)
CancelledAnswerStands ==
  Returned /\ ~ killed /\ status # "exit" =>
    /\ final = "ok" => result = "payload"
    /\ final = "not_ok" => result = "error"

(* An answer that was sent is read, though the adapter was gone before the *)
(* core had written what it was writing.                                   *)
AnswerNotLost ==
  Returned /\ ~ killed /\ stdoutOpen /\ final # "write_failed" /\ status # "exit" =>
    /\ said = "ok" => result = "payload"
    /\ said = "not_ok" => result = "error"

(* The adapter's last words are logged before it is reaped, unless it used *)
(* up the grace period.                                                    *)
LastWordsKept == Returned /\ ~ killed => words \notin {"piped", "lost"}

(* Every call returns, whatever the adapter and its children do, but one:  *)
(* a child that keeps the read end of stdin and never reads can wedge a    *)
(* write, because neither the watchdog nor os/exec closes stdin.           *)
Wedged == pc \in {"request", "reply"} /\ Exited /\ "stdin" \in held
CallReturns == []<>(pc = "idle") \/ <>[]Wedged

(***************************************************************************)
(* The inductive invariant behind the safety properties.                   *)
(***************************************************************************)
Talking == {"request", "read", "dispatch", "reply"}

(* A process exists from start to cmd.Wait, and nothing is returned before.*)
ProcessInv ==
  /\ pc = "idle" => process \in {"none", "reaped"}
  /\ pc \in Talking \cup {"drain", "reap"} => process \in {"running", "zero", "bad"}
  /\ pc = "verdict" => process = "reaped"
  /\ pc # "idle" => result = "none"

(* Only wait's own timeouts set killed, and they leave no live process.    *)
KilledInv ==
  /\ pc \in Talking \cup {"drain"} => ~ killed /\ words # "lost"
  /\ pc = "reap" => killed \/ (Exited /\ words \in {"none", "logged"})
  /\ pc = "verdict" /\ ~ killed => words \in {"none", "logged"}

(* What wait returned, and what do made of it.                             *)
StatusInv ==
  /\ pc \in {"idle", "verdict"} /\ killed /\ status = "ctx" => cancelled
  /\ pc \in {"idle", "verdict"} /\ killed => status # "none"
  /\ pc \in {"idle", "verdict"} /\ status = "lingered" => killed
  /\ Returned => result = Answer

(* A final response or a violation is the last message in the pipe and     *)
(* stays there until it is read; what precedes it are calls.               *)
QueueInv ==
  pc \in Talking =>
    /\ final = "none"
    /\ \A i \in 1 .. Len(out) :
         i < Len(out) \/ said = "none" => out[i] = "sandbox_call" /\ op # "probe"
    /\ said # "none" => out # <<>> /\ out[Len(out)] = said
    /\ said = "sandbox_call" => op = "probe"

(* It was read, unless a write failed or stdout was closed.                *)
DeliveredInv ==
  pc \in {"drain", "reap", "verdict"} \/ Returned =>
    /\ final # "none"
    /\ said \in Finals => final = said \/ final = "write_failed" \/ ~ stdoutOpen

(* The caller, the process, its pipes and the verdict fit at every step.   *)
SessionInv ==
  /\ TypeOK /\ ProcessInv /\ KilledInv /\ StatusInv /\ LastWordsKept
  /\ QueueInv /\ DeliveredInv
=============================================================================
