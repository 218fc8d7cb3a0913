--------------------------- MODULE SidecarSession ---------------------------
(***************************************************************************)
(* One job of the 32-bit sidecar: the parent (SidecarManager and its two   *)
(* users, discovery and execute_sidecar_scan), the child process           *)
(* (scanner-sidecar/src/main.rs) and the pipes between them.  The child    *)
(* may fail to spawn, die, hang or print noise; the parent retries, times  *)
(* out, cancels, shuts down and kills.                                     *)
(*                                                                         *)
(* The reader thread forwards the child's lines as they come, so its       *)
(* channel and the stdout pipe are one sequence here; the two are told     *)
(* apart only where the parent drops the channel and joins the thread.     *)
(***************************************************************************)
EXTENDS Naturals, Sequences

CONSTANTS
  Jobs,          \* jobs explored: a subset of {"scan", "list"}
  MaxAttempts,   \* SPAWN_RETRY_ATTEMPTS
  MaxSheets,     \* bound: sheets in the hopper
  MayFail,       \* faults explored: a subset of Faults
  Noise          \* lines a child may print before Ready: a response that is not
                 \* Ready, text that does not parse, bytes that are not UTF-8

Faults == {"spawn", "reader", "crash", "hang", "device", "decode"}

ASSUME SidecarAssumption ==
  /\ Jobs \subseteq {"scan", "list"} /\ MaxAttempts \in Nat \ {0} /\ MaxSheets \in Nat \ {0}
  /\ MayFail \subseteq Faults /\ Noise \subseteq {"error", "garbage", "binary"}

VARIABLES
  job,       \* what the sidecar is wanted for
  parent,    \* where the parent's task stands
  attempt,   \* number of the current spawn attempt
  retryable, \* how the failed attempt was classified
  result,    \* what the job returned
  flag,      \* the cancel flag of the scan
  received,  \* pages the parent has read
  child,     \* where the sidecar process stands
  hung,      \* whether the child has stopped making progress
  stdin,     \* commands written and not yet read
  stdinOpen, \* whether the parent still holds the write end
  stdout,    \* lines the parent has not taken yet
  device,    \* the TWAIN source, as the child drove it last
  sheets,    \* sheets left in the hopper
  pageNum,   \* page_num of handle_scan
  lost       \* history: a sheet was announced and never sent

parentVars == <<job, parent, attempt, retryable, result, flag, received>>
childVars == <<child, hung, device, sheets, pageNum, lost>>
pipeVars == <<stdin, stdinOpen, stdout>>
vars == <<parentVars, childVars, pipeVars>>

Gone == {"none", "exited"}
Busy == {"opening", "pump", "page", "transfer", "ending", "cleanup"}
ChildStates == Gone \cup Busy \cup {"starting", "noisy", "idle", "self_blocked"}
ParentStates == {"spawning", "awaiting_ready", "cleaning", "commanding", "loop", "reading",
                 "draining", "stopping", "awaiting_exit", "done"}

TypeOK ==
  /\ job \in Jobs
  /\ parent \in ParentStates
  /\ attempt \in 1..MaxAttempts
  /\ retryable \in BOOLEAN
  /\ result \in {"none", "ok", "error", "cancelled"}
  /\ flag \in BOOLEAN
  /\ received \in 0..MaxSheets
  /\ child \in ChildStates
  /\ hung \in BOOLEAN
  /\ stdin \in Seq({"scan", "list", "cancel", "shutdown"})
  /\ stdinOpen \in BOOLEAN
  /\ stdout \in Seq({"ready", "error", "garbage", "binary", "scanner_list", "progress",
                     "page", "complete", "shutdown"})
  /\ device \in {"closed", "enabled"}
  /\ sheets \in 0..MaxSheets
  /\ pageNum \in 0..MaxSheets
  /\ lost \in BOOLEAN

Init ==
  /\ job \in Jobs
  /\ parent = "spawning"
  /\ attempt = 1
  /\ retryable = FALSE
  /\ result = "none"
  /\ flag = FALSE
  /\ received = 0
  /\ child = "none"
  /\ hung = FALSE
  /\ stdin = <<>>
  /\ stdinOpen = FALSE
  /\ stdout = <<>>
  /\ device = "closed"
  /\ sheets \in 1..MaxSheets
  /\ pageNum = 0
  /\ lost = FALSE

(***************************************************************************)
(* The parent: spawning.                                                   *)
(***************************************************************************)
(* Mutant: one attempt too many. *)
RetryOnceMore(transient) ==
  IF transient /\ attempt <= MaxAttempts
    THEN /\ parent' = "spawning"
         /\ attempt' = attempt + 1
         /\ UNCHANGED result
    ELSE /\ parent' = "done"
         /\ result' = "error"
         /\ UNCHANGED attempt

(* with_spawn_retry: a transient failure is tried again, up to a limit. *)
RetryOrGiveUp(transient) ==
  IF transient /\ attempt < MaxAttempts
    THEN /\ parent' = "spawning"
         /\ attempt' = attempt + 1
         /\ UNCHANGED result
    ELSE /\ parent' = "done"
         /\ result' = "error"
         /\ UNCHANGED attempt

SpawnFails ==
  /\ parent = "spawning" /\ "spawn" \in MayFail
  /\ RetryOrGiveUp(TRUE)
  /\ UNCHANGED <<job, retryable, flag, received, childVars, pipeVars>>

(* The child runs but no thread for its output does: the local Child and    *)
(* both pipes are dropped, which kills nothing.                            *)
ReaderSpawnFails ==
  /\ parent = "spawning" /\ "reader" \in MayFail
  /\ child' = "starting"
  /\ stdin' = <<>> /\ stdout' = <<>> /\ stdinOpen' = FALSE
  /\ RetryOrGiveUp(FALSE)
  /\ UNCHANGED <<job, retryable, flag, received, hung, device, sheets, pageNum, lost>>

Spawn ==
  /\ parent = "spawning"
  /\ parent' = "awaiting_ready"
  /\ child' = "starting"
  /\ stdin' = <<>> /\ stdout' = <<>> /\ stdinOpen' = TRUE
  /\ UNCHANGED <<job, attempt, retryable, result, flag, received, hung, device, sheets, pageNum, lost>>

(* Taking the next line, or learning that there will be none. *)
Line(m) == stdout # <<>> /\ Head(stdout) = m
TakeLine == stdout' = Tail(stdout) /\ UNCHANGED <<stdin, stdinOpen>>
EndOfFile == stdout = <<>> /\ child = "exited"
(* The time-outs are generous: they expire on a child that is stuck. *)
TimedOut == stdout = <<>> /\ child \notin Gone /\ (hung \/ child = "self_blocked")

Kill ==
  /\ child' = "exited"
  /\ hung' = FALSE
  /\ stdin' = <<>> /\ stdout' = <<>> /\ stdinOpen' = FALSE
  /\ UNCHANGED <<device, sheets, pageNum, lost>>

ReadyArrives ==
  /\ parent = "awaiting_ready" /\ Line("ready")
  /\ TakeLine
  /\ parent' = "commanding"
  /\ UNCHANGED <<job, attempt, retryable, result, flag, received, childVars>>

(* A response other than Ready, or no response in time: kill, no retry. *)
StartupRejected ==
  /\ parent = "awaiting_ready"
  /\ Line("error") \/ TimedOut
  /\ Kill
  /\ RetryOrGiveUp(FALSE)
  /\ UNCHANGED <<job, retryable, flag, received>>

(* Dropping the Child closes its stdin and kills nothing.  Dropping the     *)
(* receiver drops what the reader has forwarded; only Ready can have       *)
(* followed the line that does not parse.                                  *)
DropUnread ==
  /\ stdinOpen' = FALSE
  /\ \/ EndOfFile /\ UNCHANGED stdout
     \/ Line("garbage") /\ (stdout' = Tail(stdout) \/ stdout' = <<>>)

(* Mutant: any unusable start-up is tried again. *)
StartupRetried ==
  /\ parent = "awaiting_ready"
  /\ DropUnread
  /\ retryable' = TRUE
  /\ parent' = "cleaning"
  /\ UNCHANGED <<job, attempt, result, flag, received, childVars, stdin>>

(* End of file is transient, a line that does not parse is not; both go    *)
(* through cleanup_dead_sidecar, which joins the reader thread.            *)
StartupUnreadable ==
  /\ parent = "awaiting_ready"
  /\ DropUnread
  /\ retryable' = (stdout = <<>>)
  /\ parent' = "cleaning"
  /\ UNCHANGED <<job, attempt, result, flag, received, childVars, stdin>>

(* The reader ends at the end of file, or at the next line, which it can    *)
(* no longer send: the child may well be alive, and is left so.            *)
CleanedUp ==
  /\ parent = "cleaning"
  /\ child = "exited" \/ stdout # <<>>
  /\ RetryOrGiveUp(retryable)
  /\ UNCHANGED <<job, retryable, flag, received, childVars, pipeVars>>

(* Bytes that are not UTF-8 have ended the reader: the same clean-up has    *)
(* nothing to wait for.                                                    *)
StartupMisread ==
  /\ parent = "awaiting_ready" /\ Line("binary")
  /\ stdinOpen' = FALSE /\ stdout' = <<>>
  /\ RetryOrGiveUp(FALSE)
  /\ UNCHANGED <<job, retryable, flag, received, childVars, stdin>>

(***************************************************************************)
(* The parent: the job.                                                    *)
(***************************************************************************)
Write(cmd) ==
  /\ stdin' = IF child = "exited" THEN stdin ELSE Append(stdin, cmd)
  /\ UNCHANGED <<stdinOpen, stdout>>

SendCommand ==
  /\ parent = "commanding"
  /\ Write(job)
  /\ parent' = IF child = "exited" THEN "stopping"
               ELSE IF job = "scan" THEN "loop" ELSE "reading"
  /\ result' = IF child = "exited" THEN "error" ELSE result
  /\ UNCHANGED <<job, attempt, retryable, flag, received, childVars>>

(* The flag is looked at before each read. *)
CheckFlag ==
  /\ parent = "loop"
  /\ IF flag THEN parent' = "draining" /\ Write("cancel")
             ELSE parent' = "reading" /\ UNCHANGED pipeVars
  /\ UNCHANGED <<job, attempt, retryable, result, flag, received, childVars>>

Finish(r) == parent' = "stopping" /\ result' = r

ReadPage ==
  /\ parent = "reading" /\ Line("page")
  /\ TakeLine
  /\ received' = received + 1
  /\ parent' = "loop"
  /\ UNCHANGED <<job, attempt, retryable, result, flag, childVars>>

(* Mutant: a page that does not decode is skipped. *)
PageSkipped ==
  /\ parent = "reading" /\ Line("page") /\ "decode" \in MayFail
  /\ TakeLine
  /\ parent' = "loop"
  /\ UNCHANGED <<job, attempt, retryable, result, flag, received, childVars>>

(* The page does not decode; the manager is dropped, which shuts down. *)
PageUndecodable ==
  /\ parent = "reading" /\ Line("page") /\ "decode" \in MayFail
  /\ TakeLine
  /\ Finish("error")
  /\ UNCHANGED <<job, attempt, retryable, flag, received, childVars>>

ReadProgress ==
  /\ parent = "reading" /\ Line("progress")
  /\ TakeLine
  /\ parent' = "loop"
  /\ UNCHANGED <<job, attempt, retryable, result, flag, received, childVars>>

ReadOutcome ==
  /\ parent = "reading"
  /\ \/ (Line("complete") \/ Line("scanner_list")) /\ TakeLine /\ Finish("ok")
     \/ Line("error") /\ TakeLine /\ Finish("error")
     \/ EndOfFile /\ Finish("error") /\ UNCHANGED pipeVars
  /\ UNCHANGED <<job, attempt, retryable, flag, received, childVars>>

(* Mutant: the drain after a Cancel waits without a time-out. *)
ReadTimesOutUndrained ==
  /\ parent = "reading" /\ TimedOut
  /\ Kill
  /\ parent' = "done" /\ result' = "error"
  /\ UNCHANGED <<job, attempt, retryable, flag, received>>

(* RESPONSE_TIMEOUT kills the child before the error is returned. *)
ReadTimesOut ==
  /\ parent \in {"reading", "draining"} /\ TimedOut
  /\ Kill
  /\ parent' = "done"
  /\ result' = IF parent = "draining" THEN "cancelled" ELSE "error"
  /\ UNCHANGED <<job, attempt, retryable, flag, received>>

(* After a Cancel everything up to a terminal response is thrown away. *)
Drain ==
  /\ parent = "draining"
  /\ \/ Line("page") \/ Line("progress")
  /\ TakeLine
  /\ UNCHANGED <<parentVars, childVars>>

Drained ==
  /\ parent = "draining"
  /\ \/ (Line("complete") \/ Line("error")) /\ TakeLine
     \/ EndOfFile /\ UNCHANGED pipeVars
  /\ Finish("cancelled")
  /\ UNCHANGED <<job, attempt, retryable, flag, received, childVars>>

(***************************************************************************)
(* The parent: shutdown.                                                   *)
(***************************************************************************)
Shutdown ==
  /\ parent = "stopping"
  /\ Write("shutdown")
  /\ parent' = "awaiting_exit"
  /\ UNCHANGED <<job, attempt, retryable, result, flag, received, childVars>>

ChildExited ==
  /\ parent = "awaiting_exit" /\ child = "exited"
  /\ parent' = "done"
  /\ UNCHANGED <<job, attempt, retryable, result, flag, received, childVars, pipeVars>>

(* SHUTDOWN_TIMEOUT: 5 s, which a child busy with a page may well exceed. *)
ShutdownTimesOut ==
  /\ parent = "awaiting_exit"
  /\ child \in Busy \cup {"self_blocked"} \/ (child # "exited" /\ hung)
  /\ Kill
  /\ parent' = "done"
  /\ UNCHANGED <<job, attempt, retryable, result, flag, received>>

(* cancel_scan: the client knows the scan id once a page was announced. *)
RaiseFlag ==
  /\ job = "scan" /\ received > 0 /\ ~flag /\ result = "none"
  /\ flag' = TRUE
  /\ UNCHANGED <<job, parent, attempt, retryable, result, received, childVars, pipeVars>>

(***************************************************************************)
(* The child.                                                              *)
(***************************************************************************)
Say(m) == stdout' = Append(stdout, m) /\ UNCHANGED <<stdin, stdinOpen>>
Alive(c) == child = c /\ ~hung

SayReady ==
  /\ Alive("starting") \/ Alive("noisy")
  /\ Say("ready")
  /\ child' = "idle"
  /\ UNCHANGED <<parentVars, hung, device, sheets, pageNum, lost>>

(* Bound: one line; Ready follows it all the same. *)
SayNoise ==
  /\ Alive("starting")
  /\ \E m \in Noise : Say(m)
  /\ child' = "noisy"
  /\ UNCHANGED <<parentVars, hung, device, sheets, pageNum, lost>>

(* The main loop; Cancel outside a scan is a no-op. *)
TakeCommand ==
  /\ Alive("idle") /\ stdin # <<>>
  /\ stdin' = Tail(stdin)
  /\ \/ Head(stdin) = "scan" /\ child' = "opening" /\ UNCHANGED stdout
     \/ Head(stdin) = "list" /\ UNCHANGED child
        /\ \E m \in {"scanner_list", "error"} : stdout' = Append(stdout, m)
     \/ Head(stdin) = "cancel" /\ UNCHANGED <<child, stdout>>
     \/ Head(stdin) = "shutdown" /\ child' = "exited" /\ stdout' = Append(stdout, "shutdown")
  /\ UNCHANGED <<parentVars, stdinOpen, hung, device, sheets, pageNum, lost>>

StdinCloses ==
  /\ Alive("idle") /\ stdin = <<>> /\ ~stdinOpen
  /\ child' = "exited"
  /\ UNCHANGED <<parentVars, pipeVars, hung, device, sheets, pageNum, lost>>

OpenFails ==
  /\ Alive("opening") /\ "device" \in MayFail
  /\ Say("error")
  /\ child' = "idle"
  /\ UNCHANGED <<parentVars, hung, device, sheets, pageNum, lost>>

EnableSource ==
  /\ Alive("opening")
  /\ device' = "enabled"
  /\ child' = "pump"
  /\ UNCHANGED <<parentVars, pipeVars, hung, sheets, pageNum, lost>>

(* Both polls read stdin through a second handle while the main loop       *)
(* holds the lock of the first: the read never returns.                    *)
PollStdin ==
  /\ Alive("pump") \/ (Alive("ending") /\ sheets > 0)
  /\ stdin # <<>>
  /\ child' = "self_blocked"
  /\ UNCHANGED <<parentVars, pipeVars, hung, device, sheets, pageNum, lost>>

TransferReady ==
  /\ Alive("pump") /\ stdin = <<>>
  /\ \E next \in {"page", "cleanup"} : child' = next
  /\ UNCHANGED <<parentVars, pipeVars, hung, device, sheets, pageNum, lost>>

StartPage ==
  /\ Alive("page")
  /\ pageNum' = pageNum + 1
  /\ Say("progress")
  /\ child' = "transfer"
  /\ UNCHANGED <<parentVars, hung, device, sheets, lost>>

SendPage ==
  /\ Alive("transfer")
  /\ sheets' = sheets - 1
  /\ Say("page")
  /\ child' = "ending"
  /\ UNCHANGED <<parentVars, hung, device, pageNum, lost>>

(* Image info or transfer set-up fails: the page loop is left, nothing is  *)
(* reported.                                                               *)
PageSetupFails ==
  /\ Alive("transfer") /\ "device" \in MayFail
  /\ lost' = TRUE
  /\ child' = "cleanup"
  /\ UNCHANGED <<parentVars, pipeVars, hung, device, sheets, pageNum>>

PageCompressed ==
  /\ Alive("transfer") /\ "device" \in MayFail
  /\ Say("error")
  /\ lost' = TRUE
  /\ child' = "cleanup"
  /\ UNCHANGED <<parentVars, hung, device, sheets, pageNum>>

(* A failed ENDXFER ends the batch like an empty hopper does. *)
EndTransfer ==
  /\ Alive("ending")
  /\ \/ sheets = 0 /\ child' = "cleanup"
     \/ "device" \in MayFail /\ child' = "cleanup"
     \/ sheets > 0 /\ stdin = <<>> /\ child' = "page"
  /\ UNCHANGED <<parentVars, pipeVars, hung, device, sheets, pageNum, lost>>

(* Mutant: completion is reported with the source still enabled. *)
CompleteUncleaned ==
  /\ Alive("cleanup")
  /\ Say("complete")
  /\ child' = "idle"
  /\ UNCHANGED <<parentVars, hung, device, sheets, pageNum, lost>>

(* Disable, close, and only then say that the scan is complete. *)
Cleanup ==
  /\ Alive("cleanup")
  /\ device' = "closed"
  /\ Say("complete")
  /\ child' = "idle"
  /\ UNCHANGED <<parentVars, hung, sheets, pageNum, lost>>

Crash ==
  /\ "crash" \in MayFail /\ child \notin Gone
  /\ child' = "exited"
  /\ hung' = FALSE
  /\ UNCHANGED <<parentVars, pipeVars, device, sheets, pageNum, lost>>

Hang ==
  /\ "hang" \in MayFail /\ child \notin Gone /\ ~hung
  /\ hung' = TRUE
  /\ UNCHANGED <<parentVars, pipeVars, child, device, sheets, pageNum, lost>>

Done == parent = "done" /\ (child \in Gone \/ hung) /\ UNCHANGED vars

ParentStep ==
  \/ Spawn \/ ReadyArrives \/ StartupRejected \/ StartupUnreadable \/ CleanedUp
  \/ StartupMisread
  \/ SendCommand \/ CheckFlag \/ ReadPage \/ ReadProgress \/ ReadOutcome \/ ReadTimesOut
  \/ Drain \/ Drained \/ Shutdown \/ ChildExited \/ ShutdownTimesOut
ChildStep ==
  \/ SayReady \/ TakeCommand \/ StdinCloses \/ EnableSource \/ PollStdin \/ TransferReady
  \/ StartPage \/ SendPage \/ EndTransfer \/ Cleanup
Faulty ==
  \/ SpawnFails \/ ReaderSpawnFails \/ PageUndecodable \/ SayNoise \/ OpenFails \/ PageSetupFails
  \/ PageCompressed \/ Crash \/ Hang

Next == ParentStep \/ ChildStep \/ Faulty \/ RaiseFlag \/ Done

Spec == Init /\ [][Next]_vars
(* The parent's thread runs and its clocks expire; the child runs unless   *)
(* it hangs, which no step of it then undoes.                              *)
FairSpec == Spec /\ WF_vars(ParentStep) /\ WF_vars(ChildStep)

(***************************************************************************)
(* Properties                                                              *)
(***************************************************************************)
(* The parent never spawns a sidecar beside a live one, and returns with   *)
(* its sidecar gone - unless the attempt to start it was abandoned by      *)
(* dropping it: that one was sent no command, so drives no scanner, and    *)
(* finds its stdin closed.                                                 *)
NoStraySidecar ==
  /\ parent = "spawning" => child \in Gone
  /\ parent = "done" => \/ child \in Gone
                        \/ child \in {"starting", "noisy", "idle"} /\ stdin = <<>> /\ ~stdinOpen

(* The job always returns, and no sidecar runs on behind it: whatever the  *)
(* child does - dies, hangs anywhere, blocks on itself, is dropped alive - *)
(* a time-out or a kill ends the wait for it, and one that was dropped     *)
(* ends by itself, unless it hangs.  One wait has neither limit nor kill:  *)
(* cleanup_dead_sidecar's, for a child that printed something unreadable,  *)
(* is still alive, and hangs before it prints anything else.               *)
JobEnds ==
  <>(\/ parent = "done" /\ (child \in Gone \/ hung)
     \/ parent = "cleaning" /\ hung /\ stdout = <<>>)

(* A scan that ends well has left the source closed: the child says that   *)
(* it is complete only after its cleanup, so the kill of a slow shutdown   *)
(* never strikes while the scanner is enabled.                             *)
SuccessClosesScanner == parent = "done" /\ result = "ok" => device = "closed"

(* A scan succeeds only when every page the child announced, short of one  *)
(* it gave up on, has been read, and no page is left unread behind the     *)
(* outcome: the pipe keeps the pages in front of their ScanComplete.       *)
SuccessIsWhole ==
  result = "ok" => /\ ~\E i \in 1..Len(stdout) : stdout[i] = "page"
                   /\ job = "scan" /\ ~lost => received = pageNum

(* mod.rs:493-496: a short document must not be reported as complete.      *)
NoShortSuccess == result = "ok" => ~lost

(* main.rs:132-133: a Cancel during a scan is handled inline: the child    *)
(* stops the scan and closes the source.                                   *)
CancelHandled == parent = "draining" ~> device = "closed"
=============================================================================
