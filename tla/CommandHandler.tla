--------------------------- MODULE CommandHandler ---------------------------
(***************************************************************************)
(* The command handler of the agent (src-tauri/src/lib.rs): one task per   *)
(* client message, the flag that admits a single scan, the registration a  *)
(* cancel_scan looks up, the mutex around the scanner list, and the        *)
(* bounded response queue of each connection.                              *)
(*                                                                         *)
(* The scan pipeline behind a start_scan is reduced to what the handler    *)
(* sees of it: it announces pages, it ends with a scan_complete, an error  *)
(* or a panic, and its producer drives the scanner until it stops.         *)
(* ScanPipeline is the detailed model of that part.                        *)
(***************************************************************************)
EXTENDS Naturals, Sequences, FiniteSets

CONSTANTS
  Scans,          \* start_scan requests; a request also stands for its scan id
  Cancels,        \* cancel_scan requests
  Lists,          \* list_scanners requests
  Pings,          \* ping requests
  Clients,        \* WebSocket connections
  ClientOf,       \* the connection each request came in on
  Names,          \* names of installed scanners
  HasSidecar,     \* whether the agent was given a sidecar path
  PipelineErrors, \* the ScanErrors the pipeline may end with
  NoScan,         \* active_scan = None
  UnknownId,      \* a scan id no scan ever had
  QueueCapacity,  \* RESPONSE_CHANNEL_CAPACITY
  MaxPages        \* bound: pages announced per scan

Requests == Scans \cup Cancels \cup Lists \cup Pings

ASSUME ClientsAssumption == ClientOf \in [Requests -> Clients]
ASSUME IdsAssumption == NoScan \notin Scans /\ UnknownId \notin Scans \cup {NoScan}
ASSUME SidecarAssumption == HasSidecar \in BOOLEAN
ASSUME BoundsAssumption == QueueCapacity \in Nat \ {0} /\ MaxPages \in Nat

(* The ScanErrors, and the code each one is reported under. *)
ErrorToCode ==
  [ NoScanners |-> "NO_SCANNERS_AVAILABLE", ScannerNotFound |-> "SCANNER_NOT_FOUND",
    Cancelled |-> "SCAN_CANCELLED", ImageConversion |-> "IMAGE_CONVERSION_ERROR",
    PdfGeneration |-> "PDF_GENERATION_ERROR", PaperJam |-> "PAPER_JAM",
    PaperDoubleFeed |-> "PAPER_DOUBLE_FEED", DsmLoadFailed |-> "TWAIN_NOT_INSTALLED",
    CapabilityNotSupported |-> "CAPABILITY_NOT_SUPPORTED",
    Sidecar |-> "INTERNAL_ERROR", Twain |-> "INTERNAL_ERROR" ]

ScanErrors == DOMAIN ErrorToCode
(* Errors the asynchronous side raises by itself, whatever the producer does. *)
ConsumerErrors == {"ImageConversion", "PdfGeneration"}

ASSUME DisjointAssumption ==
  /\ Scans \cap Cancels = {} /\ Scans \cap Lists = {} /\ Scans \cap Pings = {}
  /\ Cancels \cap Lists = {} /\ Cancels \cap Pings = {} /\ Lists \cap Pings = {}
ASSUME ErrorsAssumption == PipelineErrors \subseteq ScanErrors \ {"Cancelled"}

Kinds == {ErrorToCode[e] : e \in ScanErrors} \cup
         {"SCANNER_BUSY", "INVALID_REQUEST", "DISCOVERY_TIMEOUT",
          "pong", "scanner_list", "cancel_ack", "scan_progress", "scan_complete"}
Messages == [req : Requests, kind : Kinds]

VARIABLES
  scan,       \* where each start_scan task stands
  cancel,     \* where each cancel_scan task stands
  list,       \* where each list_scanners task stands
  ping,       \* where each ping task stands
  scanning,   \* ScanState.scanning
  active,     \* ScanState.active_scan: the registered scan, or NoScan
  flag,       \* the cancel flag of each scan
  failure,    \* the ScanError a scan task is about to report
  driving,    \* scans whose producer (thread or blocking task) still runs
  pages,      \* pages each scan has announced
  disc,       \* the blocking discovery task of each list_scanners
  orch,       \* the discovery holding the orchestrator mutex, or NoScan
  cache,      \* ScanOrchestrator.scanners: where each name was found
  source,     \* the source each scan was resolved to
  queue,      \* response queue of each connection
  connected,  \* whether the connection's writer still takes messages
  told,       \* scan ids each client has read in a scan_progress
  replies     \* history: final answers queued for each request

taskVars == <<scan, cancel, list, ping>>
lockVars == <<scanning, active, flag>>
pipeVars == <<failure, driving, pages>>
orchVars == <<disc, orch, cache, source>>
linkVars == <<queue, connected, told, replies>>
vars == <<taskVars, lockVars, pipeVars, orchVars, linkVars>>

Sources == {"absent", "native", "sidecar"}
ScanStates == {"idle", "rejecting", "claimed", "resolving", "running",
               "replying", "dropping", "releasing", "done", "rejected"}

TypeOK ==
  /\ scan \in [Scans -> ScanStates]
  /\ cancel \in [Cancels -> {"idle", "acking", "refusing", "done"}]
  /\ list \in [Lists -> {"idle", "waiting", "listing", "failing", "timing_out", "done"}]
  /\ ping \in [Pings -> {"idle", "done"}]
  /\ scanning \in BOOLEAN
  /\ active \in Scans \cup {NoScan}
  /\ flag \in [Scans -> BOOLEAN]
  /\ failure \in [Scans -> ScanErrors \cup {"none", "panic"}]
  /\ driving \in SUBSET Scans
  /\ pages \in [Scans -> Nat]
  /\ disc \in [Lists -> {"none", "queued", "running", "found", "panicked"}]
  /\ orch \in Lists \cup {NoScan}
  /\ cache \in [Names -> Sources]
  /\ source \in [Scans -> Sources]
  /\ queue \in [Clients -> Seq(Messages)]
  /\ \A k \in Clients : Len(queue[k]) <= QueueCapacity
  /\ connected \in [Clients -> BOOLEAN]
  /\ told \in [Clients -> SUBSET Requests]
  /\ replies \in [Requests -> Nat]

Init ==
  /\ scan = [s \in Scans |-> "idle"]
  /\ cancel = [c \in Cancels |-> "idle"]
  /\ list = [l \in Lists |-> "idle"]
  /\ ping = [p \in Pings |-> "idle"]
  /\ scanning = FALSE
  /\ active = NoScan
  /\ flag = [s \in Scans |-> FALSE]
  /\ failure = [s \in Scans |-> "none"]
  /\ driving = {}
  /\ pages = [s \in Scans |-> 0]
  /\ disc = [l \in Lists |-> "none"]
  /\ orch = NoScan
  /\ cache = [n \in Names |-> "absent"]
  /\ source = [s \in Scans |-> "absent"]
  /\ queue = [k \in Clients |-> <<>>]
  /\ connected = [k \in Clients |-> TRUE]
  /\ told = [k \in Clients |-> {}]
  /\ replies = [r \in Requests |-> 0]

(***************************************************************************)
(* The response queue.  A send parks while the queue is full and returns   *)
(* at once, discarding the message, when the connection is gone.           *)
(***************************************************************************)
(* Mutant: the response queue is unbounded. *)
CanSendAlways(r) == TRUE

CanSend(r) == Len(queue[ClientOf[r]]) < QueueCapacity \/ ~connected[ClientOf[r]]

Enqueue(r, kind) ==
  /\ CanSend(r)
  /\ queue' = IF connected[ClientOf[r]]
                THEN [queue EXCEPT ![ClientOf[r]] = Append(@, [req |-> r, kind |-> kind])]
                ELSE queue
  /\ UNCHANGED <<connected, told>>

(* A message that answers its request for good, as opposed to progress. *)
Answer(r, kind) ==
  /\ Enqueue(r, kind)
  /\ replies' = [replies EXCEPT ![r] = @ + 1]

(***************************************************************************)
(* ping                                                                    *)
(***************************************************************************)
Ping(p) ==
  /\ ping[p] = "idle"
  /\ ping' = [ping EXCEPT ![p] = "done"]
  /\ Answer(p, "pong")
  /\ UNCHANGED <<scan, cancel, list, lockVars, pipeVars, orchVars>>

(***************************************************************************)
(* list_scanners: a blocking task discovers under the orchestrator mutex;  *)
(* the handler waits 15 s for it and then answers without it, but nothing  *)
(* stops the blocking task.                                                *)
(***************************************************************************)
ListScanners(l) ==
  /\ list[l] = "idle"
  /\ list' = [list EXCEPT ![l] = "waiting"]
  /\ disc' = [disc EXCEPT ![l] = "queued"]
  /\ UNCHANGED <<scan, cancel, ping, lockVars, pipeVars, orch, cache, source, linkVars>>

LockForDiscovery(l) ==
  /\ disc[l] = "queued"
  /\ orch = NoScan
  /\ orch' = l
  /\ disc' = [disc EXCEPT ![l] = "running"]
  /\ UNCHANGED <<taskVars, lockVars, pipeVars, cache, source, linkVars>>

(* Both backends are asked; a backend that fails counts as finding nothing, *)
(* and a name found natively hides the sidecar's scanner of that name.      *)
Merge(native, side) ==
  [n \in Names |-> IF n \in native THEN "native"
                   ELSE IF n \in side THEN "sidecar" ELSE "absent"]

Visible32 == IF HasSidecar THEN Names ELSE {}

DiscoverScanners(l) ==
  /\ disc[l] = "running"
  /\ \E native \in SUBSET Names, side \in SUBSET Visible32 :
       cache' = Merge(native, side)
  /\ disc' = [disc EXCEPT ![l] = "found"]
  /\ orch' = NoScan
  /\ UNCHANGED <<taskVars, lockVars, pipeVars, source, linkVars>>

(* Mutant: unwinding leaves the orchestrator mutex locked. *)
DiscoveryPanicsLocked(l) ==
  /\ disc[l] = "running"
  /\ disc' = [disc EXCEPT ![l] = "panicked"]
  /\ UNCHANGED <<taskVars, lockVars, pipeVars, orch, cache, source, linkVars>>

DiscoveryPanics(l) ==
  /\ disc[l] = "running"
  /\ disc' = [disc EXCEPT ![l] = "panicked"]
  /\ orch' = NoScan
  /\ UNCHANGED <<taskVars, lockVars, pipeVars, cache, source, linkVars>>

DiscoveryJoined(l) ==
  /\ list[l] = "waiting"
  /\ disc[l] \in {"found", "panicked"}
  /\ list' = [list EXCEPT ![l] = IF disc[l] = "found" THEN "listing" ELSE "failing"]
  /\ UNCHANGED <<scan, cancel, ping, lockVars, pipeVars, orchVars, linkVars>>

(* Mutant: the clock starts only once discovery holds the mutex. *)
DiscoveryTimesOutRunning(l) ==
  /\ list[l] = "waiting" /\ disc[l] = "running"
  /\ list' = [list EXCEPT ![l] = "timing_out"]
  /\ UNCHANGED <<scan, cancel, ping, lockVars, pipeVars, orchVars, linkVars>>

DiscoveryTimesOut(l) ==
  /\ list[l] = "waiting"
  /\ list' = [list EXCEPT ![l] = "timing_out"]
  /\ UNCHANGED <<scan, cancel, ping, lockVars, pipeVars, orchVars, linkVars>>

ListAnswer == [listing |-> "scanner_list", failing |-> "INTERNAL_ERROR",
               timing_out |-> "DISCOVERY_TIMEOUT"]

(* Mutant: a timed-out handler goes on to deliver the late result as well. *)
ReplyListTwice(l) ==
  /\ list[l] \in DOMAIN ListAnswer
  /\ Answer(l, ListAnswer[list[l]])
  /\ list' = [list EXCEPT ![l] = IF @ = "timing_out" THEN "waiting" ELSE "done"]
  /\ UNCHANGED <<scan, cancel, ping, lockVars, pipeVars, orchVars>>

ReplyList(l) ==
  /\ list[l] \in DOMAIN ListAnswer
  /\ Answer(l, ListAnswer[list[l]])
  /\ list' = [list EXCEPT ![l] = "done"]
  /\ UNCHANGED <<scan, cancel, ping, lockVars, pipeVars, orchVars>>

(***************************************************************************)
(* start_scan                                                              *)
(***************************************************************************)
(* Mutant: a load and a store in place of the compare_exchange, both late. *)
StartScanUnchecked(s) ==
  /\ scan[s] = "idle"
  /\ scanning' = TRUE
  /\ scan' = [scan EXCEPT ![s] = "claimed"]
  /\ UNCHANGED <<cancel, list, ping, active, flag, pipeVars, orchVars, linkVars>>

(* compare_exchange on `scanning`: one step, whoever comes second loses. *)
StartScan(s) ==
  /\ scan[s] = "idle"
  /\ scanning' = TRUE
  /\ scan' = [scan EXCEPT ![s] = IF scanning THEN "rejecting" ELSE "claimed"]
  /\ UNCHANGED <<cancel, list, ping, active, flag, pipeVars, orchVars, linkVars>>

RejectBusy(s) ==
  /\ scan[s] = "rejecting"
  /\ Answer(s, "SCANNER_BUSY")
  /\ scan' = [scan EXCEPT ![s] = "rejected"]
  /\ UNCHANGED <<cancel, list, ping, lockVars, pipeVars, orchVars>>

Register(s) ==
  /\ scan[s] = "claimed"
  /\ active' = s
  /\ scan' = [scan EXCEPT ![s] = "resolving"]
  /\ UNCHANGED <<cancel, list, ping, scanning, flag, pipeVars, orchVars, linkVars>>

Found == {n \in Names : cache[n] # "absent"}

(* The scanner the options name, or by default the first one of the list,  *)
(* which may be any that was found.  The mutex is taken for the look-up    *)
(* only.                                                                   *)
ResolveScanner(s) ==
  /\ scan[s] = "resolving"
  /\ orch = NoScan
  /\ \E n \in Found :
       /\ cache[n] = "native" \/ HasSidecar
       /\ source' = [source EXCEPT ![s] = cache[n]]
  /\ scan' = [scan EXCEPT ![s] = "running"]
  /\ driving' = driving \cup {s}
  /\ UNCHANGED <<cancel, list, ping, lockVars, failure, pages, disc, orch, cache, linkVars>>

(* A client may name a scanner that is not on the list, or none at all. *)
ResolveErrors ==
  {"ScannerNotFound"} \cup (IF Found = {} THEN {"NoScanners"} ELSE {}) \cup
  (IF ~HasSidecar /\ (\E n \in Found : cache[n] = "sidecar") THEN {"Sidecar"} ELSE {})

ResolveFails(s) ==
  /\ scan[s] = "resolving"
  /\ orch = NoScan
  /\ \E e \in ResolveErrors : failure' = [failure EXCEPT ![s] = e]
  /\ scan' = [scan EXCEPT ![s] = "replying"]
  /\ UNCHANGED <<cancel, list, ping, lockVars, driving, pages, orchVars, linkVars>>

(***************************************************************************)
(* The pipeline of an admitted scan, as the handler sees it.               *)
(***************************************************************************)
AnnouncePage(s) ==
  /\ scan[s] = "running"
  /\ pages[s] < MaxPages
  /\ Enqueue(s, "scan_progress")
  /\ pages' = [pages EXCEPT ![s] = @ + 1]
  /\ UNCHANGED <<taskVars, lockVars, failure, driving, orchVars, replies>>

(* The producer returns: normally, with an error, or after the scan task   *)
(* that started it has already given up and released the lock.             *)
ProducerStops(s) ==
  /\ s \in driving
  /\ driving' = driving \ {s}
  /\ UNCHANGED <<taskVars, lockVars, failure, pages, orchVars, linkVars>>

(* The producer has been joined before scan_complete is queued. *)
ScanCompletes(s) ==
  /\ scan[s] = "running"
  /\ s \notin driving
  /\ Answer(s, "scan_complete")
  /\ scan' = [scan EXCEPT ![s] = "dropping"]
  /\ UNCHANGED <<cancel, list, ping, lockVars, pipeVars, orchVars>>

(* A producer's verdict arrives only after it stopped; an error of the     *)
(* consumer, a vanished client among them, ends the scan without waiting.  *)
ScanFails(s, e) ==
  /\ scan[s] = "running"
  /\ \/ s \notin driving
     \/ e \in ConsumerErrors
     \/ e = "Sidecar" /\ ~connected[ClientOf[s]]
  /\ failure' = [failure EXCEPT ![s] = e]
  /\ scan' = [scan EXCEPT ![s] = "replying"]
  /\ UNCHANGED <<cancel, list, ping, lockVars, driving, pages, orchVars, linkVars>>

ScanCancelled(s) ==
  /\ scan[s] = "running"
  /\ flag[s]
  /\ failure' = [failure EXCEPT ![s] = "Cancelled"]
  /\ scan' = [scan EXCEPT ![s] = "replying"]
  /\ UNCHANGED <<cancel, list, ping, lockVars, driving, pages, orchVars, linkVars>>

(* Mutant: the flag cleared at the end of the handler instead of by Drop. *)
ScanPanicsUnguarded(s) ==
  /\ scan[s] = "running"
  /\ failure' = [failure EXCEPT ![s] = "panic"]
  /\ scan' = [scan EXCEPT ![s] = "done"]
  /\ UNCHANGED <<cancel, list, ping, lockVars, driving, pages, orchVars, linkVars>>

(* A malformed page panics the task: it unwinds straight into the guard. *)
ScanPanics(s) ==
  /\ scan[s] = "running"
  /\ failure' = [failure EXCEPT ![s] = "panic"]
  /\ scan' = [scan EXCEPT ![s] = "dropping"]
  /\ UNCHANGED <<cancel, list, ping, lockVars, driving, pages, orchVars, linkVars>>

(* The error is sent while the guard is still held. *)
ReplyError(s) ==
  /\ scan[s] = "replying"
  /\ Answer(s, ErrorToCode[failure[s]])
  /\ scan' = [scan EXCEPT ![s] = "dropping"]
  /\ UNCHANGED <<cancel, list, ping, lockVars, pipeVars, orchVars>>

(* Mutant: the guard clears the flag before the registration. *)
DropFlagFirst(s) ==
  /\ scan[s] = "dropping"
  /\ scanning' = FALSE
  /\ scan' = [scan EXCEPT ![s] = "releasing"]
  /\ UNCHANGED <<cancel, list, ping, active, flag, pipeVars, orchVars, linkVars>>

(* ScanGuard::drop, in its order: first the registration, then the flag. *)
DropRegistration(s) ==
  /\ scan[s] = "dropping"
  /\ active' = NoScan
  /\ scan' = [scan EXCEPT ![s] = "releasing"]
  /\ UNCHANGED <<cancel, list, ping, scanning, flag, pipeVars, orchVars, linkVars>>

DropScanning(s) ==
  /\ scan[s] = "releasing"
  /\ scanning' = FALSE
  /\ scan' = [scan EXCEPT ![s] = "done"]
  /\ UNCHANGED <<cancel, list, ping, active, flag, pipeVars, orchVars, linkVars>>

(***************************************************************************)
(* cancel_scan: look-up and store in one critical section, then the reply. *)
(***************************************************************************)
(* Mutant: whatever scan is active is cancelled, the id is not compared. *)
CancelAnyScan(c) ==
  /\ cancel[c] = "idle"
  /\ IF active # NoScan
       THEN /\ flag' = [flag EXCEPT ![active] = TRUE]
            /\ cancel' = [cancel EXCEPT ![c] = "acking"]
       ELSE /\ cancel' = [cancel EXCEPT ![c] = "refusing"]
            /\ UNCHANGED flag
  /\ UNCHANGED <<scan, list, ping, scanning, active, pipeVars, orchVars, linkVars>>

CancelScan(c) ==
  /\ cancel[c] = "idle"
  /\ \E target \in (told[ClientOf[c]] \cap Scans) \cup {UnknownId} :
       IF active = target
         THEN /\ flag' = [flag EXCEPT ![target] = TRUE]
              /\ cancel' = [cancel EXCEPT ![c] = "acking"]
         ELSE /\ cancel' = [cancel EXCEPT ![c] = "refusing"]
              /\ UNCHANGED flag
  /\ UNCHANGED <<scan, list, ping, scanning, active, pipeVars, orchVars, linkVars>>

ReplyCancel(c) ==
  /\ cancel[c] \in {"acking", "refusing"}
  /\ Answer(c, IF cancel[c] = "acking" THEN "cancel_ack" ELSE "INVALID_REQUEST")
  /\ cancel' = [cancel EXCEPT ![c] = "done"]
  /\ UNCHANGED <<scan, list, ping, lockVars, pipeVars, orchVars>>

(***************************************************************************)
(* The connection: its writer hands messages to a client that may read     *)
(* slowly, stop reading, or go away.                                       *)
(***************************************************************************)
Deliver(k) ==
  /\ queue[k] # <<>>
  /\ queue' = [queue EXCEPT ![k] = Tail(@)]
  /\ told' = [told EXCEPT ![k] =
                @ \cup (IF Head(queue[k]).kind = "scan_progress"
                          THEN {Head(queue[k]).req} ELSE {})]
  /\ UNCHANGED <<taskVars, lockVars, pipeVars, orchVars, connected, replies>>

Disconnect(k) ==
  /\ connected[k]
  /\ connected' = [connected EXCEPT ![k] = FALSE]
  /\ queue' = [queue EXCEPT ![k] = <<>>]
  /\ UNCHANGED <<taskVars, lockVars, pipeVars, orchVars, told, replies>>

Finished(r) ==
  \/ r \in Scans /\ scan[r] \in {"done", "rejected"}
  \/ r \in Cancels /\ cancel[r] = "done"
  \/ r \in Lists /\ list[r] = "done" /\ disc[r] \in {"found", "panicked"}
  \/ r \in Pings /\ ping[r] = "done"

(* Every request served, every producer stopped, every queue read. *)
Idle ==
  /\ \A r \in Requests : Finished(r)
  /\ driving = {}
  /\ \A k \in Clients : queue[k] = <<>> /\ ~connected[k]
  /\ UNCHANGED vars

ScanStep(s) ==
  \/ StartScan(s) \/ RejectBusy(s) \/ Register(s)
  \/ ResolveScanner(s) \/ ResolveFails(s)
  \/ AnnouncePage(s) \/ ProducerStops(s) \/ ScanCompletes(s)
  \/ \E e \in PipelineErrors : ScanFails(s, e)
  \/ ScanCancelled(s) \/ ScanPanics(s) \/ ReplyError(s)
  \/ DropRegistration(s) \/ DropScanning(s)

ListStep(l) ==
  \/ ListScanners(l) \/ LockForDiscovery(l) \/ DiscoverScanners(l)
  \/ DiscoveryPanics(l) \/ DiscoveryJoined(l) \/ DiscoveryTimesOut(l) \/ ReplyList(l)

CancelStep(c) == CancelScan(c) \/ ReplyCancel(c)
ClientStep(k) == Deliver(k) \/ Disconnect(k)

Next ==
  \/ \E s \in Scans : ScanStep(s)
  \/ \E l \in Lists : ListStep(l)
  \/ \E c \in Cancels : CancelStep(c)
  \/ \E p \in Pings : Ping(p)
  \/ \E k \in Clients : ClientStep(k)
  \/ Idle

Spec == Init /\ [][Next]_vars

(***************************************************************************)
(* Fairness.  A ready tokio task is eventually polled, and the scanner     *)
(* eventually stops.  Nothing obliges a client to send a request, the      *)
(* hardware to fail, or a page to be malformed.                            *)
(***************************************************************************)
ScanTask(s) ==
  \/ RejectBusy(s) \/ Register(s) \/ ResolveScanner(s) \/ ResolveFails(s)
  \/ ScanCompletes(s) \/ ScanCancelled(s) \/ ReplyError(s) \/ DropRegistration(s) \/ DropScanning(s)
ListTask(l) == DiscoveryJoined(l) \/ DiscoveryTimesOut(l) \/ ReplyList(l)

TasksRun ==
  /\ \A s \in Scans : WF_vars(ScanTask(s)) /\ WF_vars(ProducerStops(s))
  /\ \A l \in Lists : WF_vars(ListTask(l))
  /\ \A c \in Cancels : WF_vars(ReplyCancel(c))
DiscoveryEnds ==
  \A l \in Lists : WF_vars(LockForDiscovery(l)) /\ WF_vars(DiscoverScanners(l))
ClientsRead == \A k \in Clients : WF_vars(Deliver(k))

FairSpec == Spec /\ TasksRun /\ ClientsRead

(***************************************************************************)
(* Properties                                                              *)
(***************************************************************************)
(* A task is inside its ScanGuard from the compare_exchange it won to the  *)
(* last store of ScanGuard::drop, and registered for part of that time.    *)
Owns(s) == scan[s] \in {"claimed", "resolving", "running", "replying", "dropping", "releasing"}
Registered(s) == scan[s] \in {"resolving", "running", "replying", "dropping"}

(* Only one scan runs at a time: no two tasks are ever between winning the *)
(* compare_exchange and the end of ScanGuard::drop.                        *)
OneScanAtATime == \A s, t \in Scans : Owns(s) /\ Owns(t) => s = t

(* The agent is never stuck answering SCANNER_BUSY: whenever `scanning` is *)
(* set some task still owns the guard that will clear it, also after the   *)
(* task failed, was cancelled or panicked.                                 *)
BusyOnlyWhileOwned == scanning => \E s \in Scans : Owns(s)

(* active_scan names a scan exactly while that scan is registered under    *)
(* its guard: the drop of one scan never wipes the registration of the     *)
(* next one, and no finished scan stays cancellable.                       *)
RegistrationMatches == \A s \in Scans : active = s <=> Registered(s)

(* A cancel flag is raised only by a cancel_scan that gets an              *)
(* acknowledgement, only on the scan that owns the scanner at that moment, *)
(* and only on a scan of which its client has read a scan_progress.        *)
CancelIsExact ==
  [][\A s \in Scans : flag'[s] # flag[s] =>
       /\ Owns(s) /\ \A t \in Scans \ {s} : flag'[t] = flag[t]
       /\ \E c \in Cancels : /\ cancel[c] = "idle" /\ cancel'[c] = "acking"
                             /\ s \in told[ClientOf[c]]]_vars

(* When a start_scan is past its one answer. *)
ScanAnswered(s) ==
  scan[s] \in {"dropping", "releasing", "done", "rejected"} /\ failure[s] # "panic"
One(answered) == IF answered THEN 1 ELSE 0

(* Each request gets at most one final answer, and has had exactly one     *)
(* when its task is over, unless the scan task panicked: the late result   *)
(* of a discovery that timed out, a cancellation racing the end of its     *)
(* scan, or a dead connection never make it two or none.                   *)
AnsweredOnce ==
  /\ \A s \in Scans : replies[s] = One(ScanAnswered(s))
  /\ \A c \in Cancels : replies[c] = One(cancel[c] = "done")
  /\ \A l \in Lists : replies[l] = One(list[l] = "done")
  /\ \A p \in Pings : replies[p] = One(ping[p] = "done")

(* While clients read and every discovery returns, every scan that takes   *)
(* the scanner gives it back.                                              *)
ScanReleased == DiscoveryEnds => \A s \in Scans : Owns(s) ~> scan[s] = "done"

(* A list_scanners is answered even if the discovery it started hangs.     *)
ListAnswered == \A l \in Lists : list[l] = "waiting" ~> list[l] = "done"

(* integration.md:152 says only one scan runs at a time: two scans never   *)
(* drive a scanner together.                                               *)
OneDriver == Cardinality(driving) <= 1
=============================================================================
