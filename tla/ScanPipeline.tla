---------------------------- MODULE ScanPipeline ----------------------------
(***************************************************************************)
(* One admitted scan, end to end (src-tauri/src/scanner/mod.rs): the       *)
(* producer that drives the scanner on a thread (native TWAIN) or in a     *)
(* blocking task (32-bit sidecar), the page channel, the consumer that     *)
(* encodes and streams pages and finishes the document, the bounded        *)
(* response queue, and the client that reads it, cancels, stalls or goes.  *)
(* Payloads are counted in frames of CHUNK_BYTES; pixels are left out.     *)
(***************************************************************************)
EXTENDS Naturals, Sequences, FiniteSets

CONSTANTS
  Backends,            \* backends explored: a subset of {"native", "sidecar"}
  Formats,             \* outputs explored: a subset of {"image", "pdf"}
  DeviceErrors,        \* ScanErrors a producer may report
  QueueCapacity,       \* RESPONSE_CHANNEL_CAPACITY
  PageChannelCapacity, \* PAGE_CHANNEL_CAPACITY
  MaxSheets,           \* bound: sheets in the hopper
  MaxFrames            \* bound: frames per payload

ASSUME PipelineAssumption ==
  /\ Backends \subseteq {"native", "sidecar"} /\ Formats \subseteq {"image", "pdf"}
  /\ QueueCapacity \in Nat \ {0} /\ PageChannelCapacity \in Nat \ {0}
  /\ MaxSheets \in Nat \ {0} /\ MaxFrames \in Nat \ {0}

VARIABLES
  backend,   \* where the scanner was found
  format,    \* "image" (png and jpeg output) or "pdf"
  sheets,    \* sheets still in the hopper
  producer,  \* where the scan thread or the sidecar task stands
  verdict,   \* what the producer returned: "none", "ok", "panic" or an error
  produced,  \* pages the producer has made
  channel,   \* the page channel: page numbers
  rxOpen,    \* whether the consumer still takes pages
  consumer,  \* where the scan task stands
  count,     \* page_count
  docPages,  \* pages written to the pending document
  out,       \* the transfer being sent
  failure,   \* the error the scan task ended with
  flag,      \* the cancel flag
  cancel,    \* the cancel_scan task of the client
  queue,     \* the response queue
  connected, \* whether the connection still takes messages
  client     \* what the client has read so far

jobVars == <<backend, format>>
producerVars == <<sheets, producer, verdict, produced>>
consumerVars == <<rxOpen, consumer, count, docPages, out, failure>>
cancelVars == <<flag, cancel>>
linkVars == <<queue, connected, client>>
vars == <<jobVars, producerVars, channel, consumerVars, cancelVars, linkVars>>

ConsumerErrors == {"Cancelled", "ImageConversion", "PdfGeneration", "Disconnected"}
(* A producer's own errors are those of TWAIN and of the sidecar. *)
ASSUME ErrorAssumption ==
  DeviceErrors \cap (ConsumerErrors \cup {"none", "ok", "complete", "panic"}) = {}

PageKind == IF format = "pdf" THEN "thumbnail" ELSE "page"
Kinds == {"page", "thumbnail", "pdf"}
NoTransfer == [kind |-> "none", page |-> 0, left |-> 0]
Transfers == [kind : Kinds, page : Nat, left : Nat] \cup {NoTransfer}

Progress(page, status) == [type |-> "scan_progress", page |-> page, what |-> status]
BinaryStart(t) == [type |-> "binary_start", page |-> t.page, what |-> t.kind, left |-> t.left]
Frame(t) == [type |-> "frame", page |-> t.page, what |-> t.kind]
ScanComplete(n) == [type |-> "scan_complete", page |-> n, what |-> "complete"]
Error(e) == [type |-> "error", page |-> 0, what |-> e]
CancelReply(answer) == [type |-> "cancel_reply", page |-> 0, what |-> answer]

TypeOK ==
  /\ backend \in Backends /\ format \in Formats
  /\ sheets \in 0..MaxSheets
  /\ producer \in {"starting", "waiting", "polling", "transferring", "handing",
                   "closing", "ended"}
  /\ verdict \in {"none", "ok", "panic", "Cancelled"} \cup DeviceErrors
  /\ produced \in 0..MaxSheets
  /\ channel \in Seq(1..MaxSheets) /\ Len(channel) <= PageChannelCapacity
  /\ rxOpen \in BOOLEAN
  /\ consumer \in {"setup", "recv", "progress", "convert", "announce", "frames", "join",
                   "processing", "finish", "complete", "replying", "over"}
  /\ count \in 0..MaxSheets /\ docPages \in 0..MaxSheets
  /\ out \in Transfers
  /\ failure \in {"none", "panic", "Twain", "Sidecar"} \cup ConsumerErrors \cup DeviceErrors
  /\ flag \in BOOLEAN
  /\ cancel \in {"idle", "acking", "refusing", "done"}
  /\ Len(queue) <= QueueCapacity
  /\ connected \in BOOLEAN
  /\ client.pending \in Transfers

Init ==
  /\ backend \in Backends
  /\ format \in Formats
  /\ sheets \in (IF backend = "native" THEN 1 ELSE 0)..MaxSheets
  /\ producer = "starting"
  /\ verdict = "none"
  /\ produced = 0
  /\ channel = <<>>
  /\ rxOpen = TRUE
  /\ consumer = "setup"
  /\ count = 0
  /\ docPages = 0
  /\ out = NoTransfer
  /\ failure = "none"
  /\ flag = FALSE
  /\ cancel = "idle"
  /\ queue = <<>>
  /\ connected = TRUE
  /\ client = [told |-> FALSE, processing |-> FALSE, pending |-> NoTransfer,
               whole |-> {}, outcome |-> "none", total |-> 0]

(***************************************************************************)
(* The producer.                                                           *)
(***************************************************************************)
End(v) == producer' = "ended" /\ verdict' = v

(* DSM and source opened and enabled, or the sidecar up and told to scan. *)
Start ==
  /\ producer = "starting"
  /\ producer' = IF backend = "native" THEN "waiting" ELSE "polling"
  /\ UNCHANGED <<jobVars, sheets, verdict, produced, channel, consumerVars, cancelVars, linkVars>>

(* wait_for_transfer: the first sheet is ready, or the source asks to be   *)
(* closed (its dialog was dismissed, or the flag is up).                   *)
TransferReady ==
  /\ producer = "waiting"
  /\ producer' = "polling"
  /\ UNCHANGED <<jobVars, sheets, verdict, produced, channel, consumerVars, cancelVars, linkVars>>

CloseRequested ==
  /\ producer = "waiting"
  /\ producer' = "closing"
  /\ UNCHANGED <<jobVars, sheets, verdict, produced, channel, consumerVars, cancelVars, linkVars>>

(* The flag is looked at between pages only. *)
PollFlag ==
  /\ producer = "polling"
  /\ IF flag THEN End("Cancelled")
             ELSE producer' = "transferring" /\ UNCHANGED verdict
  /\ UNCHANGED <<jobVars, sheets, produced, channel, consumerVars, cancelVars, linkVars>>

TransferPage ==
  /\ producer = "transferring"
  /\ sheets > 0
  /\ sheets' = sheets - 1
  /\ produced' = produced + 1
  /\ producer' = "handing"
  /\ UNCHANGED <<jobVars, verdict, channel, consumerVars, cancelVars, linkVars>>

(* The sidecar says how the batch ended; its page count is not looked at. *)
BatchComplete ==
  /\ producer = "transferring" /\ backend = "sidecar"
  /\ End("ok")
  /\ UNCHANGED <<jobVars, sheets, produced, channel, consumerVars, cancelVars, linkVars>>

(* Mutant: the page channel is unbounded. *)
HandPageUnbounded ==
  /\ producer = "handing"
  /\ channel' = IF rxOpen THEN Append(channel, produced) ELSE channel
  /\ producer' = IF backend = "native" /\ sheets = 0 THEN "closing" ELSE "polling"
  /\ UNCHANGED <<jobVars, sheets, verdict, produced, consumerVars, cancelVars, linkVars>>

(* blocking_send: parks while the channel is full, and its error, when the *)
(* consumer is gone, is ignored.                                           *)
HandPage ==
  /\ producer = "handing"
  /\ ~rxOpen \/ Len(channel) < PageChannelCapacity
  /\ channel' = IF rxOpen THEN Append(channel, produced) ELSE channel
  /\ producer' = IF backend = "native" /\ sheets = 0 THEN "closing" ELSE "polling"
  /\ UNCHANGED <<jobVars, sheets, verdict, produced, consumerVars, cancelVars, linkVars>>

CloseSource ==
  /\ producer = "closing"
  /\ End("ok")
  /\ UNCHANGED <<jobVars, sheets, produced, channel, consumerVars, cancelVars, linkVars>>

(* Any device operation may fail, those of the cancel path among them.  The *)
(* sidecar task wraps every failure in an error of its own.                *)
DeviceFails(e) ==
  /\ \/ producer \in {"starting", "waiting", "transferring", "closing"}
     \/ producer = "polling" /\ flag /\ backend = "native"
  /\ e = "Sidecar" <=> backend = "sidecar"
  /\ End(e)
  /\ UNCHANGED <<jobVars, sheets, produced, channel, consumerVars, cancelVars, linkVars>>

ProducerPanics ==
  /\ producer # "ended"
  /\ End("panic")
  /\ UNCHANGED <<jobVars, sheets, produced, channel, consumerVars, cancelVars, linkVars>>

(***************************************************************************)
(* Sending.  Every send of the pipeline is raced against the cancel flag:  *)
(* room in the queue wins, otherwise a raised flag abandons the send.      *)
(***************************************************************************)
CanSend == Len(queue) < QueueCapacity \/ ~connected

Enqueue(m) ==
  /\ CanSend
  /\ queue' = IF connected THEN Append(queue, m) ELSE queue
  /\ UNCHANGED <<connected, client>>

(* Mutant: the receiver outlives the failed consumer. *)
AbandonOpen(e) ==
  /\ consumer' = "replying"
  /\ failure' = e
  /\ UNCHANGED <<jobVars, producerVars, channel, rxOpen, count, docPages, out, cancelVars, linkVars>>

(* `?` leaves the scan: the receiver is dropped and the producer, whose    *)
(* handle is dropped with it, is left to itself.                           *)
Abandon(e) ==
  /\ consumer' = "replying"
  /\ failure' = e
  /\ rxOpen' = FALSE
  /\ channel' = <<>>
  /\ UNCHANGED <<jobVars, producerVars, count, docPages, out, cancelVars, linkVars>>

(* Mutant: progress messages go out through send_json alone. *)
RacedTransfers == {"announce", "frames", "complete"}

RacedSends == {"progress", "announce", "frames", "processing", "complete"}

(* Mutant: losing the race is swallowed, nothing is reported. *)
SendCancelledSwallowed ==
  /\ consumer \in RacedSends
  /\ ~CanSend /\ flag
  /\ consumer' = "over"
  /\ rxOpen' = FALSE
  /\ channel' = <<>>
  /\ UNCHANGED <<jobVars, producerVars, count, docPages, out, failure, cancelVars, linkVars>>

SendCancelled ==
  /\ consumer \in RacedSends
  /\ ~CanSend /\ flag
  /\ Abandon("Cancelled")

(***************************************************************************)
(* consume_pages                                                           *)
(***************************************************************************)
Setup ==
  /\ consumer = "setup"
  /\ consumer' = "recv"
  /\ UNCHANGED <<jobVars, producerVars, channel, rxOpen, count, docPages, out, failure,
                 cancelVars, linkVars>>

(* tempdir() or PdfWriter::create fails. *)
SetupFails == consumer = "setup" /\ format = "pdf" /\ Abandon("PdfGeneration")

ReceivePage ==
  /\ consumer = "recv" /\ channel # <<>>
  /\ ~flag
  /\ channel' = Tail(channel)
  /\ count' = count + 1
  /\ consumer' = "progress"
  /\ UNCHANGED <<jobVars, producerVars, rxOpen, docPages, out, failure, cancelVars, linkVars>>

(* Mutant: a cancellation ends the batch early, with the pages so far. *)
ReceiveStopsEarly ==
  /\ consumer = "recv" /\ channel # <<>> /\ flag
  /\ channel' = <<>> /\ rxOpen' = FALSE
  /\ consumer' = "join"
  /\ UNCHANGED <<jobVars, producerVars, count, docPages, out, failure, cancelVars, linkVars>>

(* The flag is checked with the page in hand; the channel is closed and    *)
(* drained, which frees a producer parked in blocking_send.                *)
ReceiveCancelled == consumer = "recv" /\ channel # <<>> /\ flag /\ Abandon("Cancelled")

(* Mutant: the document is finished before the producer is joined. *)
PagesOverUnjoined ==
  /\ consumer = "recv" /\ channel = <<>> /\ producer = "ended"
  /\ consumer' = IF docPages > 0 THEN "processing" ELSE "join"
  /\ UNCHANGED <<jobVars, producerVars, channel, rxOpen, count, docPages, out, failure,
                 cancelVars, linkVars>>

(* The producer dropped its sender and the channel is empty. *)
PagesOver ==
  /\ consumer = "recv" /\ channel = <<>> /\ producer = "ended"
  /\ consumer' = "join"
  /\ UNCHANGED <<jobVars, producerVars, channel, rxOpen, count, docPages, out, failure,
                 cancelVars, linkVars>>

SendProgress ==
  /\ consumer = "progress"
  /\ Enqueue(Progress(count, "scanning"))
  /\ consumer' = "convert"
  /\ UNCHANGED <<jobVars, producerVars, channel, rxOpen, count, docPages, out, failure, cancelVars>>

(* For a PDF the page goes into the document and its thumbnail is sent. *)
Convert ==
  /\ consumer = "convert"
  /\ \E n \in 1..MaxFrames : out' = [kind |-> PageKind, page |-> count, left |-> n]
  /\ docPages' = IF format = "pdf" THEN docPages + 1 ELSE docPages
  /\ consumer' = "announce"
  /\ UNCHANGED <<jobVars, producerVars, channel, rxOpen, count, failure, cancelVars, linkVars>>

ConvertFails ==
  /\ consumer = "convert"
  /\ \E e \in IF format = "pdf" THEN {"ImageConversion", "PdfGeneration"}
                                ELSE {"ImageConversion"} : Abandon(e)

(* Mutant: the announcement carries the size of one buffer. *)
AnnounceBuffer ==
  /\ consumer = "announce"
  /\ Enqueue(BinaryStart([out EXCEPT !.left = 1]))
  /\ consumer' = "frames"
  /\ UNCHANGED <<jobVars, producerVars, channel, rxOpen, count, docPages, out, failure, cancelVars>>

Announce ==
  /\ consumer = "announce"
  /\ Enqueue(BinaryStart(out))
  /\ consumer' = "frames"
  /\ UNCHANGED <<jobVars, producerVars, channel, rxOpen, count, docPages, out, failure, cancelVars>>

SendFrame ==
  /\ consumer = "frames" /\ out.left > 0 /\ connected
  /\ Enqueue(Frame(out))
  /\ out' = [out EXCEPT !.left = @ - 1]
  /\ UNCHANGED <<jobVars, producerVars, channel, rxOpen, consumer, count, docPages, failure, cancelVars>>

(* Unlike send_json, send_binary reports a closed queue. *)
ClientGone == consumer = "frames" /\ out.left > 0 /\ ~connected /\ Abandon("Disconnected")

TransferDone ==
  /\ consumer = "frames" /\ out.left = 0
  /\ consumer' = IF out.kind = "pdf" THEN "complete" ELSE "recv"
  /\ UNCHANGED <<jobVars, producerVars, channel, rxOpen, count, docPages, out, failure,
                 cancelVars, linkVars>>

(***************************************************************************)
(* The producer's verdict, finalize_pdf and scan_complete.                 *)
(***************************************************************************)
JoinedOk ==
  /\ consumer = "join" /\ verdict = "ok"
  /\ consumer' = IF docPages > 0 THEN "processing" ELSE "complete"
  /\ UNCHANGED <<jobVars, producerVars, channel, rxOpen, count, docPages, out, failure,
                 cancelVars, linkVars>>

(* A panic of the producer is reported as an error of the device layer. *)
JoinedError ==
  /\ consumer = "join" /\ verdict \notin {"none", "ok"}
  /\ Abandon(IF verdict # "panic" THEN verdict
             ELSE IF backend = "native" THEN "Twain" ELSE "Sidecar")

SendProcessing ==
  /\ consumer = "processing"
  /\ Enqueue(Progress(count, "processing"))
  /\ consumer' = "finish"
  /\ UNCHANGED <<jobVars, producerVars, channel, rxOpen, count, docPages, out, failure, cancelVars>>

FinishDocument ==
  /\ consumer = "finish"
  /\ \E n \in 1..MaxFrames : out' = [kind |-> "pdf", page |-> docPages, left |-> n]
  /\ consumer' = "announce"
  /\ UNCHANGED <<jobVars, producerVars, channel, rxOpen, count, docPages, failure, cancelVars, linkVars>>

(* finish(), the re-open or a read_exact of the file fails. *)
DocumentFails ==
  /\ consumer = "finish" \/ (consumer = "frames" /\ out.kind = "pdf" /\ out.left > 0)
  /\ Abandon("PdfGeneration")

(* Mutant: the cancellation is reported although scan_complete was queued. *)
SendCompleteThenError ==
  /\ consumer = "complete"
  /\ Enqueue(ScanComplete(count))
  /\ consumer' = IF flag THEN "replying" ELSE "over"
  /\ failure' = IF flag THEN "Cancelled" ELSE failure
  /\ rxOpen' = FALSE
  /\ UNCHANGED <<jobVars, producerVars, channel, count, docPages, out, cancelVars>>

SendComplete ==
  /\ consumer = "complete"
  /\ Enqueue(ScanComplete(count))
  /\ consumer' = "over"
  /\ rxOpen' = FALSE
  /\ UNCHANGED <<jobVars, producerVars, channel, count, docPages, out, failure, cancelVars>>

(* The scan task panics while decoding or encoding a page. *)
ConsumerPanics ==
  /\ consumer = "convert"
  /\ consumer' = "over"
  /\ failure' = "panic"
  /\ rxOpen' = FALSE
  /\ channel' = <<>>
  /\ UNCHANGED <<jobVars, producerVars, count, docPages, out, cancelVars, linkVars>>

(* handle_command's own error send, which nothing races. *)
ReplyError ==
  /\ consumer = "replying"
  /\ Enqueue(Error(failure))
  /\ consumer' = "over"
  /\ UNCHANGED <<jobVars, producerVars, channel, rxOpen, count, docPages, out, failure, cancelVars>>

(***************************************************************************)
(* cancel_scan: possible once a scan_progress told the client the scan id, *)
(* and effective until the guard is dropped.                               *)
(***************************************************************************)
CancelScan ==
  /\ cancel = "idle" /\ client.told /\ connected
  /\ IF consumer # "over" THEN flag' = TRUE /\ cancel' = "acking"
                          ELSE cancel' = "refusing" /\ UNCHANGED flag
  /\ UNCHANGED <<jobVars, producerVars, channel, consumerVars, linkVars>>

ReplyCancel ==
  /\ cancel \in {"acking", "refusing"}
  /\ Enqueue(CancelReply(cancel))
  /\ cancel' = "done"
  /\ UNCHANGED <<jobVars, producerVars, channel, consumerVars, flag>>

(***************************************************************************)
(* The client of docs/integration.md.                                      *)
(***************************************************************************)
Read(m, seen) ==
  /\ queue # <<>> /\ Head(queue) = m
  /\ queue' = Tail(queue)
  /\ client' = seen
  /\ UNCHANGED <<jobVars, producerVars, channel, consumerVars, cancelVars, connected>>

Incoming(type) == queue # <<>> /\ Head(queue).type = type

ReadProgress ==
  /\ Incoming("scan_progress")
  /\ Read(Head(queue), [client EXCEPT !.told = TRUE,
            !.processing = @ \/ Head(queue).what = "processing"])

ReadBinaryStart ==
  /\ Incoming("binary_start")
  /\ Read(Head(queue), [client EXCEPT !.pending =
            [kind |-> Head(queue).what, page |-> Head(queue).page, left |-> Head(queue).left]])

(* A frame belongs to the transfer announced most recently; the transfer   *)
(* is whole once all its bytes are in.                                     *)
ReadFrame ==
  /\ Incoming("frame") /\ client.pending # NoTransfer
  /\ Read(Head(queue),
          IF client.pending.left > 1
            THEN [client EXCEPT !.pending.left = @ - 1]
            ELSE [client EXCEPT !.pending = NoTransfer,
                    !.whole = @ \cup {<<client.pending.kind, client.pending.page>>}])

ReadTerminal ==
  /\ Incoming("scan_complete") \/ Incoming("error")
  /\ Read(Head(queue), [client EXCEPT !.outcome = Head(queue).what, !.total = Head(queue).page])

ReadCancelReply == Incoming("cancel_reply") /\ Read(Head(queue), client)

Disconnect ==
  /\ connected
  /\ connected' = FALSE
  /\ queue' = <<>>
  /\ UNCHANGED <<jobVars, producerVars, channel, consumerVars, cancelVars, client>>

(* The scan is over, its producer gone and its messages read. *)
Idle ==
  /\ consumer = "over" /\ producer = "ended" /\ queue = <<>>
  /\ cancel \in {"idle", "done"}
  /\ UNCHANGED vars

ProducerWorks ==
  \/ Start \/ TransferReady \/ PollFlag \/ TransferPage \/ HandPage \/ CloseSource
  \/ BatchComplete
ProducerStep ==
  \/ ProducerWorks \/ CloseRequested \/ ProducerPanics
  \/ \E e \in DeviceErrors : DeviceFails(e)

ConsumerWorks ==
  \/ SendCancelled \/ Setup \/ ReceivePage \/ ReceiveCancelled \/ PagesOver
  \/ SendProgress \/ Convert \/ Announce \/ SendFrame \/ ClientGone \/ TransferDone
  \/ JoinedOk \/ JoinedError \/ SendProcessing \/ FinishDocument \/ SendComplete \/ ReplyError
ConsumerStep ==
  \/ ConsumerWorks \/ SetupFails \/ ConvertFails \/ DocumentFails \/ ConsumerPanics

ClientReads ==
  ReadProgress \/ ReadBinaryStart \/ ReadFrame \/ ReadTerminal \/ ReadCancelReply

Next == \/ ProducerStep \/ ConsumerStep \/ ClientReads
        \/ CancelScan \/ ReplyCancel \/ Disconnect \/ Idle

Spec == Init /\ [][Next]_vars

(* The agent's tasks are polled and the device answers; a client may stop  *)
(* reading for good.                                                       *)
AgentSpec == Spec /\ WF_vars(ProducerWorks) /\ WF_vars(ConsumerWorks) /\ WF_vars(ReplyCancel)
ClientKeepsReading == WF_vars(ClientReads)

(***************************************************************************)
(* Properties                                                              *)
(***************************************************************************)
(* Binary framing as integration.md:166-188 promises it: every frame       *)
(* belongs to the transfer announced last, a transfer is announced only    *)
(* when the previous one is whole, and scan_complete leaves none open,     *)
(* whatever cancel replies come in between.                                *)
FramesMatch ==
  /\ Incoming("frame") => /\ client.pending.kind = Head(queue).what
                          /\ client.pending.page = Head(queue).page
  /\ Incoming("binary_start") \/ Incoming("scan_complete") => client.pending = NoTransfer

(* A client told scan_complete holds every page the producer made, each    *)
(* one whole, and for a PDF the document with all of them: cancelling      *)
(* fails a scan, it never shortens it (mod.rs:493-496).                    *)
CompleteMeansAll ==
  client.outcome = "complete" =>
    /\ client.total = produced
    /\ client.whole = {<<PageKind, p>> : p \in 1..produced} \cup
         (IF format = "pdf" /\ produced > 0 THEN {<<"pdf", produced>>} ELSE {})

(* A client that is told the document is being assembled, or is sent one,  *)
(* is never told afterwards that the scanner failed (mod.rs:563-566).      *)
ProcessingMeansScanned ==
  client.processing => verdict = "ok" /\ client.outcome \notin DeviceErrors

(* The contract as the client's state shows it. *)
Pages == {w \in client.whole : w[1] # "pdf"}
Contract == INSTANCE ScanContract WITH
  delivered <- Cardinality(Pages),
  document <- client.whole # Pages,
  outcome <- IF client.outcome \in {"none", "complete"} THEN client.outcome ELSE "error",
  total <- client.total

(* What the client sees is a run of ScanContract: pages and document whole *)
(* and in order, one outcome that says how many, and nothing after it.     *)
Promise == Contract!Spec

(* Once cancelled, execute_*_scan returns even if the client never reads   *)
(* another message.                                                        *)
CancelEndsPipeline == flag ~> consumer \in {"replying", "over"}

(* However the scan task ends, its producer is not left parked on the page *)
(* channel: the scanner is let go in the end.                              *)
ProducerReleased == consumer \in {"replying", "over"} ~> producer = "ended"

(* A client that keeps reading is told how its scan ended, unless the scan *)
(* task panicked.                                                          *)
EveryScanTold ==
  ClientKeepsReading => <>(client.outcome # "none" \/ ~connected \/ failure = "panic")

(* mod.rs:742-746: a client that has stopped reading cannot pin the        *)
(* scanner open once the scan is cancelled.                                *)
CancelFreesScanner == flag ~> consumer = "over"
=============================================================================
