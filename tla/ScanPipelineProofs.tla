------------------------- MODULE ScanPipelineProofs -------------------------
(***************************************************************************)
(* One scan, for every capacity of the queue and the page channel, every   *)
(* hopper, payload and set of device errors: what the client sees is a run *)
(* of ScanContract, whatever it is doing and whoever else fails.           *)
(*                                                                         *)
(* The messages in the queue stand between the client's state and the      *)
(* consumer's.  The inductive invariant says that reading them one after   *)
(* the other is possible (a forecast), that every state on the way is one  *)
(* the contract allows, and that the last one is where the consumer stands.*)
(***************************************************************************)
EXTENDS ScanPipeline, FiniteSetTheorems, SequenceTheorems, FunctionTheorems, TLAPS

Errors == {"Twain", "Sidecar"} \cup ConsumerErrors \cup DeviceErrors

(* What a client may know: pages and document held whole, the transfer     *)
(* announced, the outcome, and whether it was told of the assembly.        *)
Views == [pages : Nat, document : BOOLEAN, pending : Transfers,
          outcome : {"none", "complete"} \cup Errors, processing : BOOLEAN]

Types == {"scan_progress", "binary_start", "frame", "scan_complete", "error", "cancel_reply"}
Words == Kinds \cup Errors \cup {"scanning", "processing", "complete", "acking", "refusing"}
Messages == [type : Types, page : Nat, what : Words]
              \cup [type : Types, page : Nat, what : Words, left : Nat]

(* Reading m takes the client from v to w. *)
Arrives(v, m, w) ==
  IF v.pending.left > 1
    THEN w = [v EXCEPT !.pending.left = @ - 1]
    ELSE w = [v EXCEPT !.pending = NoTransfer,
                       !.pages = IF m.what = "pdf" THEN @ ELSE @ + 1,
                       !.document = IF m.what = "pdf" THEN TRUE ELSE @]

Follows(v, m, w) ==
  \/ m.type = "cancel_reply" /\ w = v
  \/ /\ v.outcome = "none"
     /\ \/ /\ m.type = "scan_progress"
           /\ w = [v EXCEPT !.processing = @ \/ m.what = "processing"]
        \/ /\ m.type = "binary_start" /\ v.pending = NoTransfer
           /\ w = [v EXCEPT !.pending = [kind |-> m.what, page |-> m.page, left |-> m.left]]
        \/ /\ m.type = "frame" /\ v.pending # NoTransfer
           /\ m.what = v.pending.kind /\ m.page = v.pending.page
           /\ Arrives(v, m, w)
        \/ /\ m.type = "scan_complete" /\ v.pending = NoTransfer
           /\ m.what = "complete" /\ m.page = v.pages
           /\ w = [v EXCEPT !.outcome = "complete"]
        \/ /\ m.type = "error" /\ m.what \in Errors /\ m.page = 0
           /\ w = [v EXCEPT !.outcome = m.what]

(* The contract allows v: what is announced is next, and nothing is told   *)
(* before it is true.                                                      *)
Sound(v) ==
  /\ v.document => format = "pdf" /\ v.pages > 0
  /\ v.pending # NoTransfer =>
       /\ ~v.document /\ v.pending.left > 0
       /\ \/ v.pending.kind = PageKind /\ v.pending.page = v.pages + 1
          \/ /\ v.pending.kind = "pdf" /\ v.pending.page = v.pages
             /\ format = "pdf" /\ v.pages > 0
  /\ v.outcome = "complete" =>
       /\ verdict = "ok" /\ v.pages = produced
       /\ v.document <=> format = "pdf" /\ v.pages > 0
  /\ v.processing => verdict = "ok" /\ v.outcome \notin DeviceErrors

(* The client is where v says. *)
Held(v) == {<<PageKind, p>> : p \in 1..v.pages}
             \cup (IF v.document THEN {<<"pdf", v.pages>>} ELSE {})
Shows(v) ==
  client = [told |-> client.told, processing |-> v.processing, pending |-> v.pending,
            whole |-> Held(v), outcome |-> v.outcome,
            total |-> IF v.outcome = "complete" THEN v.pages ELSE 0]

(* The consumer has sent what leads to v. *)
Sent(v) ==
  /\ consumer # "over" => v.outcome = "none"
  /\ consumer \in {"setup", "recv", "join", "processing", "finish"} =>
       v.pages = count /\ v.pending = NoTransfer /\ ~v.document
  /\ consumer \in {"progress", "convert"} =>
       v.pages = count - 1 /\ v.pending = NoTransfer /\ ~v.document
  /\ consumer = "announce" \/ (consumer = "frames" /\ out.left > 0) =>
       /\ v.pages = (IF out.kind = "pdf" THEN count ELSE count - 1) /\ ~v.document
       /\ v.pending = (IF consumer = "frames" THEN out ELSE NoTransfer)
  /\ consumer = "frames" /\ out.left = 0 =>
       v.pages = count /\ v.pending = NoTransfer /\ (v.document <=> out.kind = "pdf")
  /\ consumer = "complete" =>
       v.pages = count /\ v.pending = NoTransfer /\ (v.document <=> docPages > 0)

Forecast(views) ==
  /\ Len(views) = Len(queue) + 1
  /\ Shows(views[1])
  /\ \A i \in 1..Len(views) : Sound(views[i])
  /\ \A i \in 1..Len(queue) : Follows(views[i], queue[i], views[i + 1])
  /\ connected => Sent(views[Len(views)])

Link ==
  /\ queue \in Seq(Messages)
  /\ ~connected => queue = <<>>
  /\ \E views \in Seq(Views) : Forecast(views)

(* Pages are neither lost nor invented between the producer and the        *)
(* consumer, and the pages are all there once the producer is well over.   *)
Handing == IF producer = "handing" THEN 1 ELSE 0
Flow ==
  /\ produced + sheets <= MaxSheets
  /\ producer = "ended" <=> verdict # "none"
  /\ rxOpen <=> consumer \notin {"replying", "over"}
  /\ ~rxOpen => channel = <<>>
  /\ count + Len(channel) <= produced
  /\ rxOpen /\ verdict \in {"none", "ok"} => produced = count + Len(channel) + Handing
  /\ consumer = "join" => channel = <<>> /\ producer = "ended"
  /\ \/ consumer \in {"processing", "finish", "complete"}
     \/ consumer \in {"announce", "frames"} /\ out.kind = "pdf"
     => verdict = "ok" /\ count = produced

(* The document grows with the pages, and the transfer is of one of them.  *)
Document ==
  /\ consumer \in {"setup", "recv", "announce", "frames", "join", "processing", "finish",
                   "complete"}
       => docPages = IF format = "pdf" THEN count ELSE 0
  /\ consumer \in {"progress", "convert"} =>
       count > 0 /\ docPages = IF format = "pdf" THEN count - 1 ELSE 0
  /\ consumer \in {"processing", "finish"} => docPages > 0
  /\ consumer \in {"announce", "frames"} =>
       /\ out # NoTransfer /\ out.page = count /\ count > 0
       /\ out.kind = PageKind \/ (out.kind = "pdf" /\ format = "pdf")
       /\ consumer = "announce" => out.left > 0

(* An error of the device is reported only when the device failed.         *)
Failed ==
  consumer = "replying" =>
    failure \in Errors /\ (failure \in DeviceErrors => verdict \notin {"none", "ok"})

IInv == TypeOK /\ Link /\ Flow /\ Document /\ Failed
(***************************************************************************)
(* What steps do to the forecast.                                          *)
(***************************************************************************)
(* A step that leaves the connection alone keeps the forecast, when no     *)
(* state on it becomes unsound and the consumer stands by what it sent.    *)
LEMMA LinkUntouched ==
  ASSUME Link, UNCHANGED <<queue, connected, client, format>>,
         \A v \in Views : Sound(v) => Sound(v)',
         \A v \in Views : connected /\ Sound(v) /\ Sent(v) => Sent(v)'
  PROVE  Link'
  <1>1. PICK views \in Seq(Views) : Forecast(views)
    BY DEF Link
  <1>2. Len(views) \in Nat /\ Len(queue) \in Nat /\ Len(views) = Len(queue) + 1
    BY <1>1, LenProperties DEF Forecast, Link
  <1>3. views[Len(views)] \in Views /\ \A i \in 1..Len(views) : views[i] \in Views
    BY <1>2
  <1>4. /\ \A i \in 1..Len(views) : Sound(views[i])'
        /\ connected => Sent(views[Len(views)])'
    BY <1>1, <1>2, <1>3 DEF Forecast
  <1>5. Shows(views[1])'
    BY <1>1 DEF Forecast, Shows, Held, PageKind
  <1>6. Forecast(views)'
    BY <1>1, <1>4, <1>5 DEF Forecast
  <1>7. QED
    BY <1>6 DEF Link

(* A message sent extends the forecast by the state it leads to.           *)
LEMMA LinkSent ==
  ASSUME Link, Len(queue) <= QueueCapacity, NEW m \in Messages, Enqueue(m), UNCHANGED format,
         \A v \in Views : Sound(v) => Sound(v)',
         \A v \in Views : Sound(v) /\ Sent(v) =>
            \E w \in Views : Follows(v, m, w) /\ Sound(w)' /\ Sent(w)'
  PROVE  Link' /\ Len(queue') <= QueueCapacity
  <1>1. CASE ~connected
    <2>1. UNCHANGED <<queue, connected, client>>
      BY <1>1 DEF Enqueue
    <2>2. Link'
      BY <1>1, <2>1, LinkUntouched
    <2>3. QED
      BY <2>1, <2>2
  <1>2. CASE connected
    <2>1. /\ queue' = Append(queue, m) /\ Len(queue) < QueueCapacity
          /\ UNCHANGED <<connected, client>>
      BY <1>2 DEF Enqueue, CanSend
    <2>2. PICK views \in Seq(Views) : Forecast(views)
      BY DEF Link
    <2> DEFINE n == Len(views)
    <2>3. /\ n \in Nat /\ Len(queue) \in Nat /\ n = Len(queue) + 1
          /\ \A i \in 1..n : views[i] \in Views
      BY <2>2, LenProperties DEF Forecast, Link
    <2>4. PICK w \in Views : Follows(views[n], m, w) /\ Sound(w)' /\ Sent(w)'
      BY <1>2, <2>2, <2>3 DEF Forecast
    <2> DEFINE longer == Append(views, w)
    <2>5. /\ longer \in Seq(Views) /\ Len(longer) = n + 1 /\ longer[n + 1] = w
          /\ \A i \in 1..n : longer[i] = views[i]
      BY <2>3, AppendProperties
    <2>6. /\ queue' \in Seq(Messages) /\ Len(queue') = n /\ queue'[n] = m
          /\ \A i \in 1..Len(queue) : queue'[i] = queue[i]
      BY <2>1, <2>3, AppendProperties DEF Link
    <2> HIDE DEF longer
    <2>7. \A i \in 1..Len(longer) : Sound(longer[i])'
      <3> SUFFICES ASSUME NEW i \in 1..Len(longer) PROVE Sound(longer[i])'
        OBVIOUS
      <3>1. CASE i = n + 1
        BY <2>4, <2>5, <3>1
      <3>2. CASE i \in 1..n
        BY <2>2, <2>3, <2>5, <3>2 DEF Forecast
      <3>3. QED
        BY <2>3, <2>5, <3>1, <3>2
    <2>8. \A i \in 1..Len(queue') : Follows(longer[i], queue'[i], longer[i + 1])
      <3> SUFFICES ASSUME NEW i \in 1..n PROVE Follows(longer[i], queue'[i], longer[i + 1])
        BY <2>6
      <3>1. CASE i = n
        BY <2>4, <2>5, <2>6, <3>1
      <3>2. CASE i \in 1..Len(queue)
        <4>1. i + 1 \in 1..n /\ i \in 1..n
          BY <2>3, <3>2
        <4>2. QED
          BY <2>2, <2>5, <2>6, <3>2, <4>1 DEF Forecast
      <3>3. QED
        BY <2>3, <3>1, <3>2
    <2>9. Shows(longer[1])'
      <3>1. longer[1] = views[1]
        BY <2>3, <2>5
      <3>2. QED
        BY <2>1, <2>2, <3>1 DEF Forecast, Shows, Held, PageKind
    <2>10. Forecast(longer)'
      BY <2>4, <2>5, <2>6, <2>7, <2>8, <2>9 DEF Forecast
    <2>11. Link'
      BY <1>2, <2>1, <2>5, <2>6, <2>10 DEF Link
    <2>12. QED
      BY <2>1, <2>3, <2>6, <2>11, PipelineAssumption
  <1>3. QED
    BY <1>1, <1>2

(* What the client knows is sound, and so is what it learns next.          *)
LEMMA Front ==
  ASSUME Link
  PROVE  \E v \in Views :
           /\ Shows(v) /\ Sound(v)
           /\ queue # <<>> => \E w \in Views : Follows(v, Head(queue), w) /\ Sound(w)
  <1>1. PICK views \in Seq(Views) : Forecast(views)
    BY DEF Link
  <1>2. Len(views) \in Nat /\ Len(queue) \in Nat /\ Len(views) = Len(queue) + 1
    BY <1>1, LenProperties DEF Forecast, Link
  <1>3. views[1] \in Views /\ Shows(views[1]) /\ Sound(views[1])
    BY <1>1, <1>2 DEF Forecast
  <1>4. ASSUME queue # <<>>
        PROVE  views[2] \in Views /\ Follows(views[1], Head(queue), views[2]) /\ Sound(views[2])
    <2>1. Len(queue) # 0 /\ Head(queue) = queue[1]
      BY <1>4, EmptySeq, HeadTailProperties DEF Link
    <2>2. 1 \in 1..Len(queue) /\ 2 \in 1..Len(views)
      BY <1>2, <2>1
    <2>3. Follows(views[1], queue[1], views[1 + 1])
      BY <1>1, <2>2 DEF Forecast
    <2>4. QED
      BY <1>1, <2>1, <2>2, <2>3 DEF Forecast
  <1>5. QED
    BY <1>3, <1>4

(* Reading takes the client one state along the forecast.                  *)
LEMMA LinkRead ==
  ASSUME Link, queue # <<>>, queue' = Tail(queue),
         UNCHANGED <<connected, format, verdict, produced, consumer, count, docPages, out>>,
         \A v, w \in Views :
           Shows(v) /\ Sound(v) /\ Sound(w) /\ Follows(v, Head(queue), w) => Shows(w)'
  PROVE  Link' /\ Len(queue') <= Len(queue)
  <1>1. PICK views \in Seq(Views) : Forecast(views)
    BY DEF Link
  <1> DEFINE shorter == Tail(views)
  <1>2. Len(views) \in Nat /\ Len(queue) \in Nat /\ Len(views) = Len(queue) + 1
    BY <1>1, LenProperties DEF Forecast, Link
  <1>3. Len(queue) > 0
    BY <1>2, EmptySeq DEF Link
  <1>4. views # <<>>
    BY <1>2, EmptySeq
  <1>5. /\ shorter \in Seq(Views) /\ Len(shorter) = Len(queue)
        /\ \A i \in 1..Len(shorter) : shorter[i] = views[i + 1]
    BY <1>2, <1>4, HeadTailProperties
  <1>6. /\ queue' \in Seq(Messages) /\ Len(queue') = Len(queue) - 1 /\ Head(queue) = queue[1]
        /\ \A i \in 1..Len(queue') : queue'[i] = queue[i + 1]
    BY HeadTailProperties DEF Link
  <1> HIDE DEF shorter
  <1>7. \A v \in Views : (Sound(v) <=> Sound(v)') /\ (Sent(v) <=> Sent(v)')
    BY DEF Sound, Sent, PageKind
  <1>8. \A i \in 1..Len(shorter) : shorter[i] \in Views /\ Sound(shorter[i])'
    <2> SUFFICES ASSUME NEW i \in 1..Len(shorter)
                 PROVE  shorter[i] \in Views /\ Sound(shorter[i])'
      OBVIOUS
    <2>1. i + 1 \in 1..Len(views) /\ shorter[i] = views[i + 1]
      BY <1>2, <1>5
    <2>2. Sound(views[i + 1]) /\ views[i + 1] \in Views
      BY <1>1, <2>1 DEF Forecast
    <2>3. QED
      BY <1>7, <2>1, <2>2
  <1>9. \A i \in 1..Len(queue') : Follows(shorter[i], queue'[i], shorter[i + 1])
    <2> SUFFICES ASSUME NEW i \in 1..Len(queue')
                 PROVE  Follows(shorter[i], queue'[i], shorter[i + 1])
      OBVIOUS
    <2>1. /\ i + 1 \in 1..Len(queue) /\ i \in 1..Len(shorter) /\ i + 1 \in 1..Len(shorter)
      BY <1>2, <1>5, <1>6
    <2>2. Follows(views[i + 1], queue[i + 1], views[(i + 1) + 1])
      BY <1>1, <2>1 DEF Forecast
    <2>3. QED
      BY <1>5, <1>6, <2>1, <2>2
  <1>10. Shows(shorter[1])'
    <2>1. 1 \in 1..Len(views) /\ 2 \in 1..Len(views) /\ 1 \in 1..Len(queue) /\ 1 \in 1..Len(shorter)
      BY <1>2, <1>3, <1>5
    <2>2. /\ views[1] \in Views /\ views[2] \in Views /\ Shows(views[1]) /\ Sound(views[1])
          /\ Sound(views[2]) /\ Follows(views[1], Head(queue), views[2])
      BY <1>1, <1>6, <2>1 DEF Forecast
    <2>3. shorter[1] = views[2]
      BY <1>5, <2>1
    <2>4. QED
      BY <2>2, <2>3
  <1>11. connected' => Sent(shorter[Len(shorter)])'
    <2>1. Len(shorter) \in 1..Len(shorter) /\ shorter[Len(shorter)] = views[Len(views)]
      BY <1>2, <1>3, <1>5
    <2>2. QED
      BY <1>1, <1>7, <1>8, <2>1 DEF Forecast
  <1>12. Forecast(shorter)'
    <2>1. Len(shorter) = Len(queue') + 1
      BY <1>2, <1>5, <1>6
    <2>2. QED
      BY <1>8, <1>9, <1>10, <1>11, <2>1 DEF Forecast
  <1>13. ~connected' => queue' = <<>>
    BY DEF Link
  <1>14. QED
    BY <1>2, <1>5, <1>6, <1>12, <1>13 DEF Link

(***************************************************************************)
(* The invariant.                                                          *)
(***************************************************************************)
LEMMA InitIInv == Init => IInv
  <1> SUFFICES ASSUME Init PROVE IInv
    OBVIOUS
  <1>1. /\ MaxSheets \in Nat \ {0} /\ QueueCapacity \in Nat /\ PageChannelCapacity \in Nat
        /\ Len(queue) = 0 /\ Len(channel) = 0 /\ channel \in Seq(1..MaxSheets)
        /\ sheets \in 0..MaxSheets
    BY PipelineAssumption, EmptySeq DEF Init
  <1>2. TypeOK
    <2>1. client.pending \in Transfers /\ out \in Transfers
      BY DEF Init, Transfers
    <2>2. 0 \in 0..MaxSheets /\ 0 <= QueueCapacity /\ 0 <= PageChannelCapacity
      BY <1>1
    <2>3. QED
      BY <1>1, <2>1, <2>2 DEF Init, TypeOK
  <1>3. Link
    <2> DEFINE v == [pages |-> 0, document |-> FALSE, pending |-> NoTransfer,
                     outcome |-> "none", processing |-> FALSE]
    <2>1. v \in Views /\ Sound(v) /\ Sent(v)
      BY DEF Views, Transfers, Sound, Sent, Init
    <2>2. Held(v) = {}
      BY DEF Held
    <2>3. Shows(v)
      BY <2>2 DEF Init, Shows
    <2> HIDE DEF v
    <2> DEFINE views == <<v>>
    <2>4. views \in Seq(Views) /\ Len(views) = 1 /\ views[1] = v
      BY <2>1
    <2> HIDE DEF views
    <2>5. Forecast(views)
      BY <1>1, <2>1, <2>3, <2>4 DEF Forecast
    <2>6. queue \in Seq(Messages) /\ connected
      BY EmptySeq DEF Init
    <2>7. QED
      BY <2>4, <2>5, <2>6 DEF Link
  <1>4. Flow /\ Document /\ Failed
    BY <1>1 DEF Init, Flow, Handing, Document, Failed
  <1>5. QED
    BY <1>2, <1>3, <1>4 DEF IInv

(* The numbers before a step.                                              *)
LEMMA Numbers ==
  ASSUME IInv
  PROVE  /\ MaxSheets \in Nat \ {0} /\ PageChannelCapacity \in Nat \ {0}
         /\ QueueCapacity \in Nat \ {0}
         /\ sheets \in 0..MaxSheets /\ produced \in 0..MaxSheets /\ count \in 0..MaxSheets
         /\ docPages \in 0..MaxSheets /\ Len(channel) \in 0..PageChannelCapacity
         /\ Len(queue) \in 0..QueueCapacity
  BY PipelineAssumption, LenProperties DEF IInv, TypeOK, Link

(* What the producer does: it gives a page at a time to the channel, and   *)
(* nothing it does makes a forecast unsound, since it has not succeeded.   *)
LEMMA ProducerKeeps ==
  ASSUME IInv, ProducerStep
  PROVE  IInv'
  <1> USE DEF jobVars, producerVars, consumerVars, cancelVars, linkVars
  <1>1. /\ producer # "ended" /\ verdict = "none"
        /\ UNCHANGED <<jobVars, consumerVars, cancelVars, linkVars>>
    BY DEF ProducerStep, ProducerWorks, Start, TransferReady, PollFlag, TransferPage, HandPage,
           CloseSource, BatchComplete, CloseRequested, ProducerPanics, DeviceFails, IInv, Flow
  <1>2. Link'
    <2>1. \A v \in Views : Sound(v) => Sound(v)'
      BY <1>1 DEF Sound, PageKind
    <2>2. \A v \in Views : connected /\ Sound(v) /\ Sent(v) => Sent(v)'
      BY <1>1 DEF Sent
    <2>3. QED
      BY <1>1, <2>1, <2>2, LinkUntouched DEF IInv
  <1>3. Document' /\ Failed'
    BY <1>1, ErrorAssumption DEF IInv, Document, Failed, PageKind
  <1>4. \/ /\ UNCHANGED <<sheets, produced, channel>>
           /\ \/ /\ producer' \in {"waiting", "polling", "transferring", "closing"}
                 /\ producer # "handing" /\ verdict' = "none"
              \/ /\ producer' = "ended"
                 /\ verdict' \in {"ok", "panic", "Cancelled"} \cup DeviceErrors
                 /\ verdict' = "ok" => producer # "handing"
        \/ TransferPage
        \/ HandPage
    BY <1>1, ErrorAssumption
    DEF ProducerStep, ProducerWorks, Start, TransferReady, PollFlag,
        CloseSource, BatchComplete, CloseRequested, ProducerPanics, DeviceFails, End
  <1>5. CASE /\ UNCHANGED <<sheets, produced, channel>>
             /\ \/ /\ producer' \in {"waiting", "polling", "transferring", "closing"}
                   /\ producer # "handing" /\ verdict' = "none"
                \/ /\ producer' = "ended"
                   /\ verdict' \in {"ok", "panic", "Cancelled"} \cup DeviceErrors
                   /\ verdict' = "ok" => producer # "handing"
    <2>1. TypeOK'
      BY <1>1, <1>5 DEF IInv, TypeOK, Transfers, NoTransfer
    <2>2. Flow'
      BY <1>1, <1>5, ErrorAssumption DEF IInv, Flow, Handing
    <2>3. QED
      BY <1>2, <1>3, <2>1, <2>2 DEF IInv
  <1>6. CASE TransferPage
    <2>1. /\ sheets > 0 /\ sheets' = sheets - 1 /\ produced' = produced + 1
          /\ producer = "transferring" /\ producer' = "handing" /\ UNCHANGED <<verdict, channel>>
      BY <1>6 DEF TransferPage
    <2>2. /\ sheets' \in 0..MaxSheets /\ produced' \in 0..MaxSheets
          /\ produced' + sheets' <= MaxSheets
      BY <2>1, Numbers, SMTT(20) DEF IInv, Flow
    <2>3. TypeOK'
      BY <1>1, <2>1, <2>2 DEF IInv, TypeOK, Transfers, NoTransfer
    <2>4. rxOpen => produced' = count + Len(channel) + 1
      BY <1>1, <2>1, Numbers DEF IInv, Flow, Handing
    <2>5. count + Len(channel) <= produced'
      BY <2>1, Numbers DEF IInv, Flow
    <2>6. Flow'
      BY <1>1, <2>1, <2>2, <2>4, <2>5 DEF IInv, Flow, Handing
    <2>7. QED
      BY <1>2, <1>3, <2>3, <2>6 DEF IInv
  <1>7. CASE HandPage
    <2>1. /\ producer = "handing" /\ producer' \in {"closing", "polling"}
          /\ ~rxOpen \/ Len(channel) < PageChannelCapacity
          /\ channel' = IF rxOpen THEN Append(channel, produced) ELSE channel
          /\ UNCHANGED <<sheets, produced, verdict>>
      BY <1>7 DEF HandPage
    <2>2. CASE rxOpen
      <3>1. produced = count + Len(channel) + 1
        BY <1>1, <2>1, <2>2, Numbers DEF IInv, Flow, Handing
      <3>2. produced \in 1..MaxSheets
        BY <3>1, Numbers
      <3>3. channel' \in Seq(1..MaxSheets) /\ Len(channel') = Len(channel) + 1
        <4> DEFINE S == 1..MaxSheets
        <4>1. channel \in Seq(S)
          BY DEF IInv, TypeOK
        <4>2. channel' = Append(channel, produced)
          BY <2>1, <2>2
        <4>3. produced \in S
          BY <3>2
        <4> HIDE DEF S
        <4>4. channel' \in Seq(S) /\ Len(channel') = Len(channel) + 1
          BY <4>1, <4>2, <4>3, AppendProperties
        <4> QED
          BY <4>4 DEF S
      <3>4. TypeOK'
        BY <1>1, <2>1, <2>2, <3>3, Numbers DEF IInv, TypeOK, Transfers, NoTransfer
      <3>5. consumer # "join"
        BY <1>1 DEF IInv, Flow
      <3>6. verdict # "ok"
        BY <1>1
      <3>7. Flow'
        BY <1>1, <2>1, <2>2, <3>1, <3>3, <3>5, <3>6, Numbers DEF IInv, Flow, Handing
      <3>8. QED
        BY <1>2, <1>3, <3>4, <3>7 DEF IInv
    <2>3. CASE ~rxOpen
      <3>1. TypeOK'
        BY <1>1, <2>1, <2>3 DEF IInv, TypeOK, Transfers, NoTransfer
      <3>2. Flow'
        BY <1>1, <2>1, <2>3, Numbers DEF IInv, Flow, Handing
      <3>3. QED
        BY <1>2, <1>3, <3>1, <3>2 DEF IInv
    <2>4. QED
      BY <2>2, <2>3 DEF IInv, TypeOK
  <1>8. QED
    BY <1>4, <1>5, <1>6, <1>7

(* Outside the producer nothing changes what makes a state sound.          *)
LEMMA SoundStays ==
  ASSUME UNCHANGED <<format, verdict, produced>>
  PROVE  \A v \in Views : Sound(v) <=> Sound(v)'
  BY DEF Sound, PageKind

(* A scan abandoned may have a transfer open, which the error then ends.   *)
LEMMA Abandoned ==
  ASSUME IInv, consumer \notin {"replying", "over"}, NEW e \in Errors, Abandon(e),
         e \in DeviceErrors => verdict \notin {"none", "ok"}
  PROVE  IInv'
  <1> USE DEF jobVars, producerVars, consumerVars, cancelVars, linkVars
  <1>1. /\ consumer' = "replying" /\ failure' = e /\ rxOpen' = FALSE /\ channel' = <<>>
        /\ UNCHANGED <<jobVars, producerVars, count, docPages, out, cancelVars, linkVars>>
    BY DEF Abandon
  <1>2. Link'
    <2>1. \A v \in Views : connected /\ Sound(v) /\ Sent(v) => Sent(v)'
      BY <1>1 DEF Sent
    <2>2. QED
      BY <1>1, <2>1, SoundStays, LinkUntouched DEF IInv
  <1>3. channel' \in Seq(1..MaxSheets) /\ Len(channel') = 0 /\ 0 <= PageChannelCapacity
    BY <1>1, EmptySeq, Numbers
  <1>4. TypeOK'
    <2>1. failure' \in {"Twain", "Sidecar"} \cup ConsumerErrors \cup DeviceErrors
      BY <1>1 DEF Errors
    <2>2. TypeOK
      BY DEF IInv
    <2>3. /\ channel' \in Seq(1..MaxSheets) /\ Len(channel') <= PageChannelCapacity
          /\ rxOpen' \in BOOLEAN /\ consumer' \in {"replying", "over"}
          /\ failure' \in {"none", "panic", "Twain", "Sidecar"} \cup ConsumerErrors \cup DeviceErrors
      BY <1>1, <1>3, <2>1
    <2>4. UNCHANGED <<backend, format, sheets, producer, verdict, produced, count, docPages,
                      out, flag, cancel, queue, connected, client>>
      BY <1>1
    <2>5. QED
      BY ONLY <2>2, <2>3, <2>4 DEF TypeOK
  <1>5. Flow'
    BY <1>1, <1>3, Numbers DEF IInv, Flow
  <1>6. Document' /\ Failed'
    BY <1>1 DEF Document, Failed
  <1>7. QED
    BY <1>2, <1>4, <1>5, <1>6 DEF IInv

(* The consumer between two messages.                                      *)
LEMMA ConsumerSilent ==
  ASSUME IInv, \/ Setup \/ ReceivePage \/ PagesOver \/ Convert \/ TransferDone \/ JoinedOk
               \/ FinishDocument \/ ConsumerPanics
  PROVE  IInv'
  <1> USE DEF jobVars, producerVars, consumerVars, cancelVars, linkVars
  <1>1. UNCHANGED <<jobVars, producerVars, cancelVars, linkVars>>
    BY DEF Setup, ReceivePage, PagesOver, Convert, TransferDone, JoinedOk, FinishDocument,
           ConsumerPanics
  <1>2. ASSUME \A v \in Views : Sent(v) => Sent(v)'
        PROVE  Link'
    BY <1>1, <1>2, SoundStays, LinkUntouched DEF IInv
  <1>3. CASE Setup \/ PagesOver
    <2>1. /\ consumer \in {"setup", "recv"} /\ consumer' \in {"recv", "join"}
          /\ consumer' = "join" => channel = <<>> /\ producer = "ended"
          /\ UNCHANGED <<channel, rxOpen, count, docPages, out, failure>>
      BY <1>3 DEF Setup, PagesOver
    <2>2. Link'
      BY <1>2, <2>1 DEF Sent
    <2>3. TypeOK'
      BY <1>1, <2>1 DEF IInv, TypeOK
    <2>4. Flow' /\ Document' /\ Failed'
      BY <1>1, <2>1 DEF IInv, Flow, Handing, Document, Failed
    <2>5. QED
      BY <2>2, <2>3, <2>4 DEF IInv
  <1>4. CASE ReceivePage
    <2>1. /\ consumer = "recv" /\ consumer' = "progress" /\ count' = count + 1
          /\ channel # <<>> /\ channel' = Tail(channel)
          /\ UNCHANGED <<rxOpen, docPages, out, failure>>
      BY <1>4 DEF ReceivePage
    <2>2. channel' \in Seq(1..MaxSheets) /\ Len(channel') = Len(channel) - 1 /\ Len(channel) > 0
      BY <2>1, EmptySeq, HeadTailProperties DEF IInv, TypeOK
    <2>3. /\ count' + Len(channel') = count + Len(channel) /\ count' \in 1..MaxSheets
          /\ count' - 1 = count /\ Len(channel') <= PageChannelCapacity
      <3>1. count + Len(channel) <= produced
        BY DEF IInv, Flow
      <3>2. QED
        BY <2>1, <2>2, <3>1, Numbers, SMTT(20)
    <2>4. Link'
      BY <1>2, <2>1, <2>3 DEF Sent
    <2>5. TypeOK'
      BY <1>1, <2>1, <2>2, <2>3 DEF IInv, TypeOK
    <2>6. Flow'
      BY <1>1, <2>1, <2>3 DEF IInv, Flow, Handing
    <2>7. Document' /\ Failed'
      BY <1>1, <2>1, <2>3 DEF IInv, Document, Failed
    <2>8. QED
      BY <2>4, <2>5, <2>6, <2>7 DEF IInv
  <1>5. CASE Convert
    <2>1. PICK n \in 1..MaxFrames : out' = [kind |-> PageKind, page |-> count, left |-> n]
      BY <1>5 DEF Convert
    <2>2. /\ consumer = "convert" /\ consumer' = "announce"
          /\ docPages' = IF format = "pdf" THEN docPages + 1 ELSE docPages
          /\ UNCHANGED <<channel, rxOpen, count, failure>>
      BY <1>5 DEF Convert
    <2>3. n \in Nat /\ n > 0
      BY <2>1, PipelineAssumption
    <2>4. /\ count > 0 /\ docPages = (IF format = "pdf" THEN count - 1 ELSE 0)
          /\ docPages' = IF format = "pdf" THEN count ELSE 0
      BY <2>2, Numbers DEF IInv, Document
    <2>5. /\ PageKind \in {"page", "thumbnail"} /\ out'.kind = PageKind /\ out'.page = count
          /\ out'.left = n /\ out' \in Transfers /\ out' # NoTransfer
      BY <2>1, <2>3, <2>4, Numbers DEF Transfers, Kinds, PageKind, NoTransfer
    <2>6. Link'
      BY <1>2, <2>2, <2>5 DEF Sent
    <2>7. TypeOK'
      BY <1>1, <2>2, <2>4, <2>5, Numbers DEF IInv, TypeOK
    <2>8. Flow'
      BY <1>1, <2>2, <2>5 DEF IInv, Flow, Handing
    <2>9. Document' /\ Failed'
      BY <1>1, <2>2, <2>3, <2>4, <2>5 DEF Document, Failed, PageKind
    <2>10. QED
      BY <2>6, <2>7, <2>8, <2>9 DEF IInv
  <1>6. CASE TransferDone
    <2>1. /\ consumer = "frames" /\ out.left = 0
          /\ consumer' = IF out.kind = "pdf" THEN "complete" ELSE "recv"
          /\ UNCHANGED <<channel, rxOpen, count, docPages, out, failure>>
      BY <1>6 DEF TransferDone
    <2>2. /\ docPages = (IF format = "pdf" THEN count ELSE 0) /\ count > 0
          /\ out.kind = "pdf" => docPages > 0 /\ verdict = "ok" /\ count = produced
      BY <2>1 DEF IInv, Document, Flow, PageKind
    <2>3. Link'
      BY <1>2, <2>1, <2>2 DEF Sent
    <2>4. TypeOK' /\ Flow' /\ Document' /\ Failed'
      BY <1>1, <2>1, <2>2 DEF IInv, TypeOK, Flow, Handing, Document, Failed
    <2>5. QED
      BY <2>3, <2>4 DEF IInv
  <1>7. CASE JoinedOk
    <2>1. /\ consumer = "join" /\ verdict = "ok"
          /\ consumer' = IF docPages > 0 THEN "processing" ELSE "complete"
          /\ UNCHANGED <<channel, rxOpen, count, docPages, out, failure>>
      BY <1>7 DEF JoinedOk
    <2>2. channel = <<>> /\ Handing = 0 /\ rxOpen
      BY <2>1 DEF IInv, Flow, Handing
    <2>3. Len(channel) = 0
      BY <2>2, EmptySeq
    <2>4. count = produced
      BY <2>1, <2>2, <2>3, Numbers DEF IInv, Flow
    <2>5. docPages = IF format = "pdf" THEN count ELSE 0
      BY <2>1 DEF IInv, Document
    <2>6. Link'
      <3>1. consumer' = "complete" => ~(docPages > 0)
        BY <2>1
      <3>2. \A v \in Views : ~v.document => v.document = FALSE
        BY DEF Views
      <3>3. QED
        BY <1>2, <2>1, <3>1, <3>2 DEF Sent
    <2>7. TypeOK' /\ Flow' /\ Document' /\ Failed'
      BY <1>1, <2>1, <2>4, <2>5 DEF IInv, TypeOK, Flow, Handing, Document, Failed
    <2>8. QED
      BY <2>6, <2>7 DEF IInv
  <1>8. CASE FinishDocument
    <2>1. PICK n \in 1..MaxFrames : out' = [kind |-> "pdf", page |-> docPages, left |-> n]
      BY <1>8 DEF FinishDocument
    <2>2. /\ consumer = "finish" /\ consumer' = "announce"
          /\ UNCHANGED <<channel, rxOpen, count, docPages, failure>>
      BY <1>8 DEF FinishDocument
    <2>3. n \in Nat /\ n > 0
      BY <2>1, PipelineAssumption
    <2>4. /\ docPages > 0 /\ format = "pdf" /\ docPages = count /\ count > 0
          /\ verdict = "ok" /\ count = produced
      BY <2>2, Numbers DEF IInv, Document, Flow
    <2>5. /\ out'.kind = "pdf" /\ out'.page = count
          /\ out'.left = n /\ out' \in Transfers /\ out' # NoTransfer
      BY <2>1, <2>3, <2>4, Numbers DEF Transfers, Kinds, NoTransfer
    <2>6. Link'
      BY <1>2, <2>2, <2>5 DEF Sent
    <2>7. TypeOK'
      BY <1>1, <2>2, <2>5 DEF IInv, TypeOK
    <2>8. Flow' /\ Document' /\ Failed'
      BY <1>1, <2>2, <2>3, <2>4, <2>5 DEF IInv, Flow, Handing, Document, Failed
    <2>9. QED
      BY <2>6, <2>7, <2>8 DEF IInv
  <1>9. CASE ConsumerPanics
    <2>1. /\ consumer = "convert" /\ consumer' = "over" /\ failure' = "panic" /\ rxOpen' = FALSE
          /\ channel' = <<>> /\ UNCHANGED <<count, docPages, out>>
      BY <1>9 DEF ConsumerPanics
    <2>2. channel' \in Seq(1..MaxSheets) /\ Len(channel') = 0 /\ 0 <= PageChannelCapacity
      BY <2>1, EmptySeq, Numbers
    <2>3. Link'
      BY <1>2, <2>1 DEF Sent
    <2>4. TypeOK'
      BY <1>1, <2>1, <2>2, Numbers DEF IInv, TypeOK
    <2>5. Flow' /\ Document' /\ Failed'
      BY <1>1, <2>1, <2>2, Numbers DEF IInv, Flow, Document, Failed
    <2>6. QED
      BY <2>3, <2>4, <2>5 DEF IInv
  <1>10. QED
    BY <1>3, <1>4, <1>5, <1>6, <1>7, <1>8, <1>9

(* The consumer's messages, and where each one leads.                      *)
LEMMA ConsumerSends ==
  ASSUME IInv, \/ SendProgress \/ Announce \/ SendFrame \/ SendProcessing \/ SendComplete
               \/ ReplyError
  PROVE  IInv'
  <1> USE DEF jobVars, producerVars, consumerVars, cancelVars
  <1>1. UNCHANGED <<jobVars, producerVars, channel, count, docPages, failure, cancelVars>>
    BY DEF SendProgress, Announce, SendFrame, SendProcessing, SendComplete, ReplyError
  <1>2. ASSUME NEW m \in Messages, Enqueue(m),
               \A v \in Views : Sound(v) /\ Sent(v) =>
                 \E w \in Views : Follows(v, m, w) /\ Sound(w) /\ Sent(w)'
        PROVE  Link' /\ Len(queue') <= QueueCapacity /\ UNCHANGED <<connected, client>>
    <2>1. UNCHANGED <<connected, client>>
      BY <1>2 DEF Enqueue
    <2>2. Link' /\ Len(queue') <= QueueCapacity
      BY <1>1, <1>2, SoundStays, LinkSent DEF IInv, TypeOK
    <2>3. QED
      BY <2>1, <2>2
  <1>3. CASE SendProgress
    <2> DEFINE m == Progress(count, "scanning")
    <2>1. /\ consumer = "progress" /\ consumer' = "convert" /\ Enqueue(m)
          /\ UNCHANGED <<rxOpen, out>>
      BY <1>3 DEF SendProgress
    <2>2. m \in Messages /\ m.type = "scan_progress" /\ m.what = "scanning"
      BY Numbers DEF Progress, Messages, Types, Words
    <2> HIDE DEF m
    <2>3. \A v \in Views : Sound(v) /\ Sent(v) =>
            \E w \in Views : Follows(v, m, w) /\ Sound(w) /\ Sent(w)'
      <3> SUFFICES ASSUME NEW v \in Views, Sound(v), Sent(v)
                   PROVE  Follows(v, m, v) /\ Sent(v)'
        OBVIOUS
      <3>1. Sent(v)'
        BY <1>1, <2>1 DEF Sent
      <3>2. v.outcome = "none"
        BY <2>1 DEF Sent
      <3>3. v = [v EXCEPT !.processing = @ \/ m.what = "processing"]
        BY <2>2 DEF Views
      <3>4. QED
        BY <2>2, <3>1, <3>2, <3>3 DEF Follows
    <2>4. Link' /\ Len(queue') <= QueueCapacity /\ UNCHANGED <<connected, client>>
      BY <1>2, <2>1, <2>2, <2>3
    <2>5. TypeOK' /\ Flow' /\ Document' /\ Failed'
      BY <1>1, <2>1, <2>4 DEF IInv, TypeOK, Flow, Handing, Document, Failed
    <2>6. QED
      BY <2>4, <2>5 DEF IInv
  <1>4. CASE Announce
    <2> DEFINE m == BinaryStart(out)
    <2>1. /\ consumer = "announce" /\ consumer' = "frames" /\ Enqueue(m)
          /\ UNCHANGED <<rxOpen, out>>
      BY <1>4 DEF Announce
    <2>2. /\ out \in [kind : Kinds, page : Nat, left : Nat] /\ out # NoTransfer
          /\ out.left > 0 /\ out.page = count /\ count > 0
          /\ out.kind = PageKind \/ (out.kind = "pdf" /\ format = "pdf")
      BY <2>1 DEF IInv, TypeOK, Document, Transfers
    <2>3. /\ m \in Messages /\ m.type = "binary_start"
          /\ out = [kind |-> m.what, page |-> m.page, left |-> m.left]
      BY <2>2 DEF BinaryStart, Messages, Types, Words
    <2> HIDE DEF m
    <2>4. \A v \in Views : Sound(v) /\ Sent(v) =>
            \E w \in Views : Follows(v, m, w) /\ Sound(w) /\ Sent(w)'
      <3> SUFFICES ASSUME NEW v \in Views, Sound(v), Sent(v)
                   PROVE  \E w \in Views : Follows(v, m, w) /\ Sound(w) /\ Sent(w)'
        OBVIOUS
      <3>1. PICK w \in Views : w = [v EXCEPT !.pending = out]
        BY <2>2 DEF Views, Transfers
      <3>2. /\ w.pending = out /\ w.pages = v.pages /\ w.document = v.document
            /\ w.outcome = v.outcome /\ w.processing = v.processing
        BY <3>1, <2>2 DEF Views, Transfers
      <3>3. /\ v.pending = NoTransfer /\ ~v.document /\ v.outcome = "none"
            /\ v.pages = IF out.kind = "pdf" THEN count ELSE count - 1
        BY <2>1 DEF Sent
      <3>4. Follows(v, m, w)
        BY <3>1, <2>3, <3>3 DEF Follows
      <3>5. Sound(w)
        <4>1. PageKind # "pdf"
          BY DEF PageKind
        <4>2. \/ out.kind = PageKind /\ out.page = v.pages + 1
              \/ out.kind = "pdf" /\ out.page = v.pages /\ format = "pdf" /\ v.pages > 0
          BY <2>2, <3>3, <4>1, Numbers
        <4>3. QED
          BY <2>2, <3>1, <3>2, <3>3, <4>2 DEF Sound
      <3>6. Sent(w)'
        BY <1>1, <2>1, <2>2, <3>1, <3>2, <3>3 DEF Sent
      <3>7. QED
        BY <3>1, <3>2, <3>4, <3>5, <3>6
    <2>5. Link' /\ Len(queue') <= QueueCapacity /\ UNCHANGED <<connected, client>>
      BY <1>2, <2>1, <2>3, <2>4
    <2>6. TypeOK' /\ Flow' /\ Document' /\ Failed'
      BY <1>1, <2>1, <2>2, <2>5 DEF IInv, TypeOK, Flow, Handing, Document, Failed, PageKind
    <2>7. QED
      BY <2>5, <2>6 DEF IInv
  <1>5. CASE SendFrame
    <2> DEFINE m == Frame(out)
    <2>1. /\ consumer = "frames" /\ consumer' = "frames" /\ Enqueue(m) /\ out.left > 0
          /\ out' = [out EXCEPT !.left = @ - 1] /\ UNCHANGED rxOpen
      BY <1>5 DEF SendFrame
    <2>2. /\ out \in [kind : Kinds, page : Nat, left : Nat] /\ out # NoTransfer
          /\ out.page = count /\ count > 0 /\ out.left \in Nat
          /\ out.kind = PageKind \/ (out.kind = "pdf" /\ format = "pdf")
      BY <2>1 DEF IInv, TypeOK, Document, Transfers
    <2>3. /\ m \in Messages /\ m.type = "frame" /\ m.what = out.kind /\ m.page = out.page
      BY <2>2 DEF Frame, Messages, Types, Words
    <2> HIDE DEF m
    <2>4. /\ out' \in [kind : Kinds, page : Nat, left : Nat] /\ out'.kind = out.kind
          /\ out'.page = out.page /\ out'.left = out.left - 1 /\ out' # NoTransfer
      BY <2>1, <2>2 DEF Kinds, NoTransfer
    <2>5. \A v \in Views : Sound(v) /\ Sent(v) =>
            \E w \in Views : Follows(v, m, w) /\ Sound(w) /\ Sent(w)'
      <3> SUFFICES ASSUME NEW v \in Views, Sound(v), Sent(v)
                   PROVE  \E w \in Views : Follows(v, m, w) /\ Sound(w) /\ Sent(w)'
        OBVIOUS
      <3>1. /\ v.pending = out /\ ~v.document /\ v.outcome = "none"
            /\ v.pages = IF out.kind = "pdf" THEN count ELSE count - 1
        BY <2>1 DEF Sent
      <3>2. CASE out.left > 1
        <4>1. PICK w \in Views : w = [v EXCEPT !.pending.left = @ - 1]
          BY <2>1, <2>4, <3>1 DEF Views, Transfers
        <4>2. /\ w.pending = out' /\ w.pages = v.pages /\ w.document = v.document
              /\ w.outcome = v.outcome /\ w.processing = v.processing
          BY <4>1, <2>1, <2>4, <3>1 DEF Views, Transfers
        <4>3. Follows(v, m, w)
          BY <4>1, <2>2, <2>3, <3>1, <3>2 DEF Follows, Arrives
        <4>4. Sound(w)
          BY <2>2, <2>4, <3>1, <3>2, <4>1, <4>2 DEF Sound
        <4>5. Sent(w)'
          BY <1>1, <2>1, <2>2, <2>4, <3>1, <3>2, <4>1, <4>2 DEF Sent
        <4>6. QED
          BY <4>1, <4>2, <4>3, <4>4, <4>5
      <3>3. CASE out.left = 1
        <4>1. /\ NoTransfer \in Transfers /\ v.document \in BOOLEAN
              /\ (IF m.what = "pdf" THEN v.pages ELSE v.pages + 1) \in Nat
          BY DEF Views, Transfers
        <4>2. PICK w \in Views : w = [v EXCEPT !.pending = NoTransfer,
                                            !.pages = IF m.what = "pdf" THEN @ ELSE @ + 1,
                                            !.document = IF m.what = "pdf" THEN TRUE ELSE @]
          BY <4>1 DEF Views
        <4>3. v.pages + 1 = IF out.kind = "pdf" THEN count + 1 ELSE count
          BY <3>1, Numbers
        <4>4. /\ w.pending = NoTransfer
              /\ w.pages = count /\ (w.document <=> out.kind = "pdf")
              /\ w.outcome = v.outcome /\ w.processing = v.processing
          BY <4>2, <4>3, <2>2, <2>3, <3>1, Numbers DEF Views, Transfers
        <4>5. Follows(v, m, w)
          BY <4>2, <2>2, <2>3, <3>1, <3>3 DEF Follows, Arrives
        <4>6. Sound(w)
          BY <2>2, <3>1, <4>2, <4>4 DEF Sound, PageKind
        <4>7. Sent(w)'
          BY <1>1, <2>1, <2>2, <2>4, <3>1, <3>3, <4>2, <4>4 DEF Sent
        <4>8. QED
          BY <4>2, <4>4, <4>5, <4>6, <4>7
      <3>4. QED
        BY <2>1, <2>2, <3>2, <3>3
    <2>6. Link' /\ Len(queue') <= QueueCapacity /\ UNCHANGED <<connected, client>>
      BY <1>2, <2>1, <2>3, <2>5
    <2>7. TypeOK' /\ Flow' /\ Document' /\ Failed'
      BY <1>1, <2>1, <2>2, <2>4, <2>6
      DEF IInv, TypeOK, Transfers, Flow, Handing, Document, Failed, PageKind
    <2>8. QED
      BY <2>6, <2>7 DEF IInv
  <1>6. CASE SendProcessing
    <2> DEFINE m == Progress(count, "processing")
    <2>1. /\ consumer = "processing" /\ consumer' = "finish" /\ Enqueue(m)
          /\ UNCHANGED <<rxOpen, out>>
      BY <1>6 DEF SendProcessing
    <2>2. m \in Messages /\ m.type = "scan_progress" /\ m.what = "processing"
      BY Numbers DEF Progress, Messages, Types, Words
    <2> HIDE DEF m
    <2>3. verdict = "ok"
      BY <2>1 DEF IInv, Flow
    <2>4. \A v \in Views : Sound(v) /\ Sent(v) =>
            \E w \in Views : Follows(v, m, w) /\ Sound(w) /\ Sent(w)'
      <3> SUFFICES ASSUME NEW v \in Views, Sound(v), Sent(v)
                   PROVE  \E w \in Views : Follows(v, m, w) /\ Sound(w) /\ Sent(w)'
        OBVIOUS
      <3>1. PICK w \in Views : w = [v EXCEPT !.processing = @ \/ m.what = "processing"]
        BY DEF Views
      <3>2. /\ w.pending = v.pending /\ w.pages = v.pages
            /\ w.document = v.document /\ w.outcome = v.outcome
        BY <3>1 DEF Views
      <3>3. v.outcome = "none"
        BY <2>1 DEF Sent
      <3>4. Follows(v, m, w)
        BY <3>1, <2>2, <3>3 DEF Follows
      <3>5. Sound(w)
        BY <2>3, <3>1, <3>2, <3>3, ErrorAssumption DEF Sound
      <3>6. Sent(w)'
        BY <1>1, <2>1, <3>1, <3>2 DEF Sent
      <3>7. QED
        BY <3>1, <3>2, <3>4, <3>5, <3>6
    <2>5. Link' /\ Len(queue') <= QueueCapacity /\ UNCHANGED <<connected, client>>
      BY <1>2, <2>1, <2>2, <2>4
    <2>6. TypeOK' /\ Flow' /\ Document' /\ Failed'
      BY <1>1, <2>1, <2>5 DEF IInv, TypeOK, Flow, Handing, Document, Failed
    <2>7. QED
      BY <2>5, <2>6 DEF IInv
  <1>7. CASE SendComplete
    <2> DEFINE m == ScanComplete(count)
    <2>1. /\ consumer = "complete" /\ consumer' = "over" /\ Enqueue(m) /\ rxOpen' = FALSE
          /\ UNCHANGED out
      BY <1>7 DEF SendComplete
    <2>2. m \in Messages /\ m.type = "scan_complete" /\ m.what = "complete" /\ m.page = count
      BY Numbers DEF ScanComplete, Messages, Types, Words
    <2> HIDE DEF m
    <2>3. /\ verdict = "ok" /\ count = produced /\ rxOpen
          /\ docPages = IF format = "pdf" THEN count ELSE 0
      BY <2>1 DEF IInv, Flow, Document
    <2>4. \A v \in Views : Sound(v) /\ Sent(v) =>
            \E w \in Views : Follows(v, m, w) /\ Sound(w) /\ Sent(w)'
      <3> SUFFICES ASSUME NEW v \in Views, Sound(v), Sent(v)
                   PROVE  \E w \in Views : Follows(v, m, w) /\ Sound(w) /\ Sent(w)'
        OBVIOUS
      <3>1. PICK w \in Views : w = [v EXCEPT !.outcome = "complete"]
        BY DEF Views
      <3>2. /\ w.pending = v.pending /\ w.pages = v.pages
            /\ w.document = v.document /\ w.outcome = "complete" /\ w.processing = v.processing
        BY <3>1 DEF Views
      <3>3. /\ v.outcome = "none" /\ v.pending = NoTransfer /\ v.pages = count
            /\ v.document <=> docPages > 0
        BY <2>1 DEF Sent
      <3>4. Follows(v, m, w)
        BY <3>1, <2>2, <3>3 DEF Follows
      <3>5. Sound(w)
        BY <2>3, <3>1, <3>2, <3>3, ErrorAssumption DEF Sound
      <3>6. Sent(w)'
        BY <1>1, <2>1, <3>1, <3>2 DEF Sent
      <3>7. QED
        BY <3>1, <3>2, <3>4, <3>5, <3>6
    <2>5. Link' /\ Len(queue') <= QueueCapacity /\ UNCHANGED <<connected, client>>
      BY <1>2, <2>1, <2>2, <2>4
    <2>6. channel = <<>>
      <3>1. Len(channel) = 0
        BY <2>3, Numbers DEF IInv, Flow
      <3>2. QED
        BY <3>1, EmptySeq DEF IInv, TypeOK
    <2>7. TypeOK' /\ Flow' /\ Document' /\ Failed'
      BY <1>1, <2>1, <2>3, <2>5, <2>6 DEF IInv, TypeOK, Flow, Handing, Document, Failed
    <2>8. QED
      BY <2>5, <2>7 DEF IInv
  <1>8. CASE ReplyError
    <2> DEFINE m == Error(failure)
    <2>1. /\ consumer = "replying" /\ consumer' = "over" /\ Enqueue(m)
          /\ UNCHANGED <<rxOpen, out>>
      BY <1>8 DEF ReplyError
    <2>2. failure \in Errors /\ (failure \in DeviceErrors => verdict # "ok")
      BY <2>1 DEF IInv, Failed
    <2>3. m \in Messages /\ m.type = "error" /\ m.what = failure /\ m.page = 0
      BY <2>2 DEF Error, Messages, Types, Words
    <2> HIDE DEF m
    <2>4. \A v \in Views : Sound(v) /\ Sent(v) =>
            \E w \in Views : Follows(v, m, w) /\ Sound(w) /\ Sent(w)'
      <3> SUFFICES ASSUME NEW v \in Views, Sound(v), Sent(v)
                   PROVE  \E w \in Views : Follows(v, m, w) /\ Sound(w) /\ Sent(w)'
        OBVIOUS
      <3>1. PICK w \in Views : w = [v EXCEPT !.outcome = m.what]
        BY <2>2, <2>3 DEF Views
      <3>2. /\ w.pending = v.pending /\ w.pages = v.pages
            /\ w.document = v.document /\ w.outcome = failure /\ w.processing = v.processing
        BY <3>1, <2>2, <2>3 DEF Views
      <3>3. v.outcome = "none" /\ failure # "complete"
        BY <2>1, <2>2, ErrorAssumption DEF Sent, Errors, ConsumerErrors
      <3>4. Follows(v, m, w)
        BY <3>1, <2>2, <2>3, <3>3 DEF Follows
      <3>5. Sound(w)
        BY <2>2, <3>1, <3>2, <3>3 DEF Sound
      <3>6. Sent(w)'
        BY <1>1, <2>1, <3>1, <3>2 DEF Sent
      <3>7. QED
        BY <3>1, <3>2, <3>4, <3>5, <3>6
    <2>5. Link' /\ Len(queue') <= QueueCapacity /\ UNCHANGED <<connected, client>>
      BY <1>2, <2>1, <2>3, <2>4
    <2>6. TypeOK' /\ Flow' /\ Document' /\ Failed'
      BY <1>1, <2>1, <2>5 DEF IInv, TypeOK, Flow, Handing, Document, Failed
    <2>7. QED
      BY <2>5, <2>6 DEF IInv
  <1>9. QED
    BY <1>3, <1>4, <1>5, <1>6, <1>7, <1>8

(***************************************************************************)
(* The client.                                                             *)
(***************************************************************************)
(* Each read moves the client along the forecast.                          *)
LEMMA ReadShows ==
  ASSUME ClientReads, NEW v \in Views, NEW w \in Views,
         Shows(v), Sound(v), Follows(v, Head(queue), w), UNCHANGED format
  PROVE  Shows(w)'
  <1>1. client = [told |-> client.told, processing |-> v.processing, pending |-> v.pending,
                  whole |-> Held(v), outcome |-> v.outcome,
                  total |-> IF v.outcome = "complete" THEN v.pages ELSE 0]
    BY DEF Shows
  <1> DEFINE m == Head(queue)
  <1>2. Held(w)' = Held(w)
    BY DEF Held, PageKind
  <1>3. ASSUME NEW t, client' = [told |-> t, processing |-> w.processing, pending |-> w.pending,
                  whole |-> Held(w), outcome |-> w.outcome,
                  total |-> IF w.outcome = "complete" THEN w.pages ELSE 0]
        PROVE  Shows(w)'
    BY <1>2, <1>3 DEF Shows
  <1> HIDE DEF m
  <1>4. CASE ReadCancelReply
    <2>1. m.type = "cancel_reply" /\ client' = client
      BY <1>4 DEF ReadCancelReply, Incoming, Read, m
    <2>2. w = v
      BY <2>1 DEF Follows, m
    <2>3. QED
      BY <1>1, <1>3, <2>1, <2>2
  <1>5. CASE ReadProgress
    <2>1. /\ m.type = "scan_progress"
          /\ client' = [client EXCEPT !.told = TRUE, !.processing = @ \/ m.what = "processing"]
      BY <1>5 DEF ReadProgress, Incoming, Read, m
    <2>2. w = [v EXCEPT !.processing = @ \/ m.what = "processing"]
      BY <2>1 DEF Follows, m
    <2>3. /\ w.processing = (v.processing \/ m.what = "processing") /\ w.pending = v.pending
          /\ w.pages = v.pages /\ w.document = v.document /\ w.outcome = v.outcome
      BY <2>2 DEF Views
    <2>4. Held(w) = Held(v)
      BY <2>3 DEF Held
    <2>5. client' = [told |-> TRUE, processing |-> w.processing, pending |-> w.pending,
                     whole |-> Held(w), outcome |-> w.outcome,
                     total |-> IF w.outcome = "complete" THEN w.pages ELSE 0]
      <3>1. client' = [told |-> TRUE, processing |-> client.processing \/ m.what = "processing",
                       pending |-> client.pending, whole |-> client.whole,
                       outcome |-> client.outcome, total |-> client.total]
        BY <1>1, <2>1
      <3>2. /\ client.processing = v.processing /\ client.pending = v.pending
            /\ client.whole = Held(v) /\ client.outcome = v.outcome
            /\ client.total = IF v.outcome = "complete" THEN v.pages ELSE 0
        BY <1>1
      <3>3. QED
        BY <2>3, <2>4, <3>1, <3>2
    <2>6. QED
      BY <1>3, <2>5
  <1>6. CASE ReadBinaryStart
    <2>1. /\ m.type = "binary_start"
          /\ client' = [client EXCEPT !.pending =
                          [kind |-> m.what, page |-> m.page, left |-> m.left]]
      BY <1>6 DEF ReadBinaryStart, Incoming, Read, m
    <2>2. w = [v EXCEPT !.pending = [kind |-> m.what, page |-> m.page, left |-> m.left]]
      BY <2>1 DEF Follows, m
    <2>3. /\ w.processing = v.processing /\ w.pages = v.pages /\ w.document = v.document
          /\ w.outcome = v.outcome
          /\ w.pending = [kind |-> m.what, page |-> m.page, left |-> m.left]
      BY <2>2 DEF Views
    <2>4. Held(w) = Held(v)
      BY <2>3 DEF Held
    <2>5. client' = [told |-> client.told, processing |-> w.processing, pending |-> w.pending,
                     whole |-> Held(w), outcome |-> w.outcome,
                     total |-> IF w.outcome = "complete" THEN w.pages ELSE 0]
      BY <1>1, <2>1, <2>3, <2>4
    <2>6. QED
      BY <1>3, <2>5
  <1>7. CASE ReadFrame
    <2>1. /\ m.type = "frame" /\ v.pending # NoTransfer
          /\ client' = IF v.pending.left > 1
               THEN [client EXCEPT !.pending.left = @ - 1]
               ELSE [client EXCEPT !.pending = NoTransfer,
                       !.whole = @ \cup {<<v.pending.kind, v.pending.page>>}]
      <3>1. client.pending = v.pending
        BY <1>1
      <3>2. QED
        BY <1>7, <3>1 DEF ReadFrame, Incoming, Read, m
    <2>2. v.outcome = "none" /\ m.what = v.pending.kind /\ Arrives(v, m, w)
      BY <2>1 DEF Follows, m
    <2>3. CASE v.pending.left > 1
      <3>1. w = [v EXCEPT !.pending.left = @ - 1]
        BY <2>2, <2>3 DEF Arrives
      <3>2. /\ w.processing = v.processing /\ w.pages = v.pages /\ w.document = v.document
            /\ w.outcome = v.outcome
            /\ w.pending = [v.pending EXCEPT !.left = @ - 1]
        BY <3>1 DEF Views
      <3>3. Held(w) = Held(v)
        BY <3>2 DEF Held
      <3>4. client' = [told |-> client.told, processing |-> w.processing, pending |-> w.pending,
                       whole |-> Held(w), outcome |-> w.outcome,
                       total |-> IF w.outcome = "complete" THEN w.pages ELSE 0]
        BY <1>1, <2>1, <2>3, <3>2, <3>3
      <3>5. QED
        BY <1>3, <3>4
    <2>4. CASE ~(v.pending.left > 1)
      <3>1. /\ w.processing = v.processing /\ w.outcome = v.outcome /\ w.pending = NoTransfer
            /\ w.pages = (IF v.pending.kind = "pdf" THEN v.pages ELSE v.pages + 1)
            /\ w.document = (IF v.pending.kind = "pdf" THEN TRUE ELSE v.document)
        BY <2>2, <2>4 DEF Arrives, Views
      <3>2. v.pages \in Nat /\ ~v.document
        BY <2>1 DEF Views, Sound
      <3>3. Held(w) = Held(v) \cup {<<v.pending.kind, v.pending.page>>}
        <4>1. CASE v.pending.kind = "pdf"
          <5>1. v.pending.page = v.pages
            BY <2>1, <4>1 DEF Sound, PageKind
          <5>2. QED
            BY <3>1, <3>2, <4>1, <5>1 DEF Held
        <4>2. CASE v.pending.kind # "pdf"
          <5>1. v.pending.kind = PageKind /\ v.pending.page = v.pages + 1
            BY <2>1, <4>2 DEF Sound
          <5>2. 1..(v.pages + 1) = (1..v.pages) \cup {v.pages + 1}
            BY <3>2
          <5>3. Held(v) = {<<PageKind, p>> : p \in 1..v.pages}
            BY <3>2 DEF Held
          <5>4. Held(w) = {<<PageKind, p>> : p \in 1..(v.pages + 1)}
            BY <3>1, <3>2, <4>2 DEF Held
          <5>5. QED
            BY <5>1, <5>2, <5>3, <5>4
        <4>3. QED
          BY <4>1, <4>2
      <3>4. client' = [told |-> client.told, processing |-> w.processing, pending |-> w.pending,
                       whole |-> Held(w), outcome |-> w.outcome,
                       total |-> IF w.outcome = "complete" THEN w.pages ELSE 0]
        <4>1. client' = [client EXCEPT !.pending = NoTransfer, !.whole = Held(w)]
          <5>1. client.whole = Held(v)
            BY <1>1
          <5>2. client' = [client EXCEPT !.pending = NoTransfer,
                             !.whole = client.whole \cup {<<v.pending.kind, v.pending.page>>}]
            BY <2>1, <2>4
          <5>3. QED
            BY <3>3, <5>1, <5>2
        <4>2. v.outcome # "complete"
          BY <2>2
        <4>3. client' = [told |-> client.told, processing |-> client.processing,
                         pending |-> NoTransfer, whole |-> Held(w),
                         outcome |-> client.outcome, total |-> client.total]
          BY <1>1, <4>1
        <4>4. /\ client.processing = v.processing /\ client.outcome = v.outcome
              /\ client.total = 0
          BY <1>1, <4>2
        <4>5. QED
          BY <3>1, <4>2, <4>3, <4>4
      <3>5. QED
        BY <1>3, <3>4
    <2>5. QED
      BY <2>3, <2>4
  <1>8. CASE ReadTerminal
    <2>1. /\ m.type \in {"scan_complete", "error"}
          /\ client' = [client EXCEPT !.outcome = m.what, !.total = m.page]
      BY <1>8 DEF ReadTerminal, Incoming, Read, m
    <2>2. /\ w = [v EXCEPT !.outcome = m.what]
          /\ \/ m.what = "complete" /\ m.page = v.pages
             \/ m.what \in Errors /\ m.page = 0
      BY <2>1 DEF Follows, m
    <2>3. "complete" \notin Errors
      BY ErrorAssumption DEF Errors, ConsumerErrors
    <2>4. /\ w.processing = v.processing /\ w.pages = v.pages /\ w.document = v.document
          /\ w.outcome = m.what /\ w.pending = v.pending
      BY <2>2 DEF Views
    <2>5. Held(w) = Held(v)
      BY <2>4 DEF Held
    <2>6. m.page = IF w.outcome = "complete" THEN w.pages ELSE 0
      BY <2>2, <2>3, <2>4
    <2>7. client' = [told |-> client.told, processing |-> w.processing, pending |-> w.pending,
                     whole |-> Held(w), outcome |-> w.outcome,
                     total |-> IF w.outcome = "complete" THEN w.pages ELSE 0]
      <3>1. client' = [told |-> client.told, processing |-> client.processing,
                       pending |-> client.pending, whole |-> client.whole,
                       outcome |-> m.what, total |-> m.page]
        BY <1>1, <2>1
      <3>2. /\ client.processing = v.processing /\ client.pending = v.pending
            /\ client.whole = Held(v)
        BY <1>1
      <3>3. QED
        BY <2>4, <2>5, <2>6, <3>1, <3>2
    <2>8. QED
      BY <1>3, <2>7
  <1>9. QED
    BY <1>4, <1>5, <1>6, <1>7, <1>8 DEF ClientReads

(* What every read has in common.                                          *)
LEMMA Reading ==
  ASSUME ClientReads
  PROVE  /\ queue # <<>> /\ queue' = Tail(queue)
         /\ UNCHANGED <<jobVars, producerVars, channel, consumerVars, cancelVars, connected>>
  BY DEF ClientReads, ReadProgress, ReadBinaryStart, ReadFrame, ReadTerminal, ReadCancelReply, Read

(* The client reads the first message: the forecast begins one view later. *)
LEMMA ClientKeeps ==
  ASSUME IInv, ClientReads
  PROVE  IInv'
  <1> USE DEF jobVars, producerVars, consumerVars, cancelVars
  <1>1. /\ queue # <<>> /\ queue' = Tail(queue)
        /\ UNCHANGED <<jobVars, producerVars, channel, consumerVars, cancelVars, connected>>
    BY Reading
  <1>2. Link' /\ Len(queue') <= Len(queue)
    BY <1>1, ReadShows, LinkRead DEF IInv
  <1>3. client'.pending \in Transfers
    <2>1. PICK v, w \in Views : Shows(v) /\ Sound(v) /\ Follows(v, Head(queue), w)
      BY <1>1, Front DEF IInv
    <2>2. Shows(w)'
      BY <1>1, <2>1, ReadShows
    <2>3. QED
      BY <2>2 DEF Shows, Views
  <1>4. Len(queue') <= QueueCapacity
    BY <1>2, Numbers, LenProperties DEF Link
  <1>5. TypeOK'
    BY <1>1, <1>3, <1>4 DEF IInv, TypeOK
  <1>6. Flow' /\ Document' /\ Failed'
    BY <1>1 DEF IInv, Flow, Handing, Document, Failed, PageKind
  <1>7. QED
    BY <1>2, <1>5, <1>6 DEF IInv

(* Cancel replies come in between, and a client gone reads no more.        *)
LEMMA CancelKeeps ==
  ASSUME IInv, CancelScan \/ ReplyCancel
  PROVE  IInv'
  <1> USE DEF jobVars, producerVars, consumerVars, linkVars
  <1>1. UNCHANGED <<jobVars, producerVars, channel, consumerVars>>
    BY DEF CancelScan, ReplyCancel
  <1>2. Flow' /\ Document' /\ Failed'
    BY <1>1 DEF IInv, Flow, Handing, Document, Failed, PageKind
  <1>3. CASE CancelScan
    <2>1. /\ UNCHANGED linkVars /\ flag' \in BOOLEAN /\ cancel' \in {"acking", "refusing"}
      BY <1>3 DEF CancelScan, IInv, TypeOK
    <2>2. \A v \in Views : connected /\ Sound(v) /\ Sent(v) => Sent(v)'
      BY <1>1 DEF Sent
    <2>3. Link'
      BY <1>1, <2>1, <2>2, SoundStays, LinkUntouched DEF IInv
    <2>4. TypeOK'
      BY <1>1, <2>1 DEF IInv, TypeOK
    <2>5. QED
      BY <1>2, <2>3, <2>4 DEF IInv
  <1>4. CASE ReplyCancel
    <2> DEFINE m == CancelReply(cancel)
    <2>1. /\ Enqueue(m) /\ cancel \in {"acking", "refusing"} /\ cancel' = "done"
          /\ UNCHANGED <<flag, connected, client>>
      BY <1>4 DEF ReplyCancel, Enqueue
    <2>2. m \in Messages /\ m.type = "cancel_reply"
      BY <2>1 DEF CancelReply, Messages, Types, Words
    <2> HIDE DEF m
    <2>3. \A v \in Views : Sound(v) /\ Sent(v) => Follows(v, m, v) /\ Sound(v)' /\ Sent(v)'
      BY <1>1, <2>2, SoundStays DEF Sent, Follows
    <2>4. Link' /\ Len(queue') <= QueueCapacity
      BY <1>1, <2>1, <2>2, <2>3, SoundStays, LinkSent DEF IInv, TypeOK
    <2>5. TypeOK'
      BY <1>1, <2>1, <2>4 DEF IInv, TypeOK
    <2>6. QED
      BY <1>2, <2>4, <2>5 DEF IInv
  <1>5. QED
    BY <1>3, <1>4

(* The client goes: its queue is dropped, and the forecast is where it     *)
(* stands.                                                                 *)
LEMMA DisconnectKeeps ==
  ASSUME IInv, Disconnect
  PROVE  IInv'
  <1> USE DEF jobVars, producerVars, consumerVars, cancelVars
  <1>1. /\ connected' = FALSE /\ queue' = <<>>
        /\ UNCHANGED <<jobVars, producerVars, channel, consumerVars, cancelVars, client>>
    BY DEF Disconnect
  <1>2. Len(queue') = 0 /\ queue' \in Seq(Messages) /\ 0 <= QueueCapacity
    BY <1>1, EmptySeq, Numbers
  <1>3. Link'
    <2>1. PICK v \in Views : Shows(v) /\ Sound(v)
      BY Front DEF IInv
    <2>2. Shows(v)' /\ Sound(v)'
      BY <1>1, <2>1, SoundStays DEF Shows, Held, PageKind
    <2> DEFINE views == <<v>>
    <2>3. views \in Seq(Views) /\ Len(views) = 1 /\ views[1] = v
      OBVIOUS
    <2> HIDE DEF views
    <2>4. Forecast(views)'
      BY <1>1, <1>2, <2>2, <2>3 DEF Forecast
    <2>5. QED
      BY <1>1, <1>2, <2>3, <2>4 DEF Link
  <1>4. TypeOK'
    <2>1. /\ connected' \in BOOLEAN /\ client'.pending \in Transfers
          /\ Len(queue') <= QueueCapacity
      BY <1>1, <1>2 DEF IInv, TypeOK
    <2>2. QED
      BY <1>1, <2>1 DEF IInv, TypeOK
  <1>5. Flow' /\ Document' /\ Failed'
    BY <1>1 DEF IInv, Flow, Handing, Document, Failed, PageKind
  <1>6. QED
    BY <1>3, <1>4, <1>5 DEF IInv

(***************************************************************************)
(* The theorems.                                                           *)
(***************************************************************************)
LEMMA NextIInv ==
  ASSUME IInv, [Next]_vars
  PROVE  IInv'
  <1>1. CASE ProducerStep
    BY <1>1, ProducerKeeps
  <1>2. CASE \/ SendCancelled \/ ReceiveCancelled \/ ClientGone \/ JoinedError
             \/ SetupFails \/ ConvertFails \/ DocumentFails
    <2>1. PICK e \in Errors : /\ consumer \notin {"replying", "over"} /\ Abandon(e)
                              /\ e \in DeviceErrors => verdict \notin {"none", "ok"}
      <3>1. CASE SendCancelled \/ ReceiveCancelled \/ ClientGone \/ SetupFails \/ ConvertFails
                   \/ DocumentFails
        <4>1. \E e \in ConsumerErrors : Abandon(e) /\ consumer \notin {"replying", "over"}
          BY <3>1 DEF SendCancelled, RacedSends, ReceiveCancelled, ClientGone, SetupFails,
                      ConvertFails, DocumentFails, ConsumerErrors
        <4>2. QED
          BY <4>1, ErrorAssumption DEF Errors
      <3>2. CASE JoinedError
        <4> DEFINE e == IF verdict # "panic" THEN verdict
                        ELSE IF backend = "native" THEN "Twain" ELSE "Sidecar"
        <4>1. consumer = "join" /\ verdict \notin {"none", "ok"} /\ Abandon(e)
          BY <3>2 DEF JoinedError
        <4>2. e \in Errors
          BY <4>1 DEF IInv, TypeOK, Errors, ConsumerErrors
        <4>3. QED
          BY <4>1, <4>2
      <3>3. QED
        BY <1>2, <3>1, <3>2
    <2>2. QED
      BY <2>1, Abandoned
  <1>3. CASE \/ Setup \/ ReceivePage \/ PagesOver \/ Convert \/ TransferDone \/ JoinedOk
             \/ FinishDocument \/ ConsumerPanics
    BY <1>3, ConsumerSilent
  <1>4. CASE SendProgress \/ Announce \/ SendFrame \/ SendProcessing \/ SendComplete \/ ReplyError
    BY <1>4, ConsumerSends
  <1>5. CASE ClientReads
    BY <1>5, ClientKeeps
  <1>6. CASE CancelScan \/ ReplyCancel
    BY <1>6, CancelKeeps
  <1>7. CASE Disconnect
    BY <1>7, DisconnectKeeps
  <1>8. CASE UNCHANGED vars
    <2> USE DEF vars, jobVars, producerVars, consumerVars, cancelVars, linkVars
    <2>1. Link'
      <3>1. \A v \in Views : Sent(v) => Sent(v)'
        BY <1>8 DEF Sent
      <3>2. QED
        BY <1>8, <3>1, SoundStays, LinkUntouched DEF IInv
    <2>2. TypeOK'
      BY <1>8 DEF IInv, TypeOK
    <2>3. Flow' /\ Document' /\ Failed'
      BY <1>8 DEF IInv, Flow, Handing, Document, Failed, PageKind
    <2>4. QED
      BY <2>1, <2>2, <2>3 DEF IInv
  <1>9. QED
    BY <1>1, <1>2, <1>3, <1>4, <1>5, <1>6, <1>7, <1>8
    DEF Next, ConsumerStep, ConsumerWorks, Idle

(* The inductive invariant, behind every theorem of this module.           *)
LEMMA Invariance == Spec => []IInv
  <1>1. IInv /\ [Next]_vars => IInv'
    BY NextIInv
  <1>2. QED
    BY InitIInv, <1>1, PTL DEF Spec

(* Every variable keeps its type: in particular the queue and the page     *)
(* channel stay within their capacities.                                   *)
THEOREM TypeCorrect == Spec => []TypeOK
  <1>1. IInv => TypeOK
    BY DEF IInv
  <1>2. QED
    BY Invariance, <1>1, PTL

(* The binary framing of integration.md:166-188 holds: every frame belongs *)
(* to the transfer announced last, and no transfer is left open under      *)
(* another announcement or under scan_complete.                            *)
THEOREM FramingKept == Spec => []FramesMatch
  <1>1. IInv => FramesMatch
    <2> SUFFICES ASSUME IInv PROVE FramesMatch
      OBVIOUS
    <2>1. PICK v \in Views : /\ Shows(v)
                             /\ queue # <<>> => \E w \in Views : Follows(v, Head(queue), w)
      BY Front DEF IInv
    <2>2. client.pending = v.pending
      BY <2>1 DEF Shows
    <2>3. QED
      BY <2>1, <2>2 DEF FramesMatch, Incoming, Follows
  <1>2. QED
    BY Invariance, <1>1, PTL

(* A client told scan_complete holds every page that was scanned, and the  *)
(* document with all of them.                                              *)
THEOREM NothingMissing == Spec => []CompleteMeansAll
  <1>1. IInv => CompleteMeansAll
    <2> SUFFICES ASSUME IInv, client.outcome = "complete" PROVE CompleteMeansAll
      BY DEF CompleteMeansAll
    <2>1. PICK v \in Views : Shows(v) /\ Sound(v)
      BY Front DEF IInv
    <2>2. /\ v.outcome = "complete" /\ client.total = v.pages /\ client.whole = Held(v)
      BY <2>1 DEF Shows
    <2>3. v.pages = produced /\ (v.document <=> format = "pdf" /\ v.pages > 0)
      BY <2>1, <2>2 DEF Sound
    <2>4. QED
      BY <2>2, <2>3 DEF CompleteMeansAll, Held
  <1>2. QED
    BY Invariance, <1>1, PTL

(* A client told that its document is being assembled is never told that   *)
(* the scanner failed.                                                     *)
THEOREM AssemblyAfterScan == Spec => []ProcessingMeansScanned
  <1>1. IInv => ProcessingMeansScanned
    BY Front DEF IInv, Shows, Sound, ProcessingMeansScanned
  <1>2. QED
    BY Invariance, <1>1, PTL

(***************************************************************************)
(* The refinement.                                                         *)
(***************************************************************************)
(* What the refinement mapping makes of a client's state: its pages and    *)
(* its document.                                                           *)
PagesOf(whole) == {x \in whole : x[1] # "pdf"}

(* The refinement mapping at a view: pages are counted one by one, and the *)
(* document is what is held besides.                                       *)
LEMMA Mapped ==
  ASSUME NEW v \in Views
  PROVE  /\ Cardinality(PagesOf(Held(v))) = v.pages
         /\ Held(v) # PagesOf(Held(v)) <=> v.document
  <1> DEFINE S == {<<PageKind, p>> : p \in 1..v.pages}
             f == [p \in 1..v.pages |-> <<PageKind, p>>]
  <1>1. v.pages \in Nat
    BY DEF Views
  <1>2. PagesOf(Held(v)) = S
    BY DEF PagesOf, Held, PageKind
  <1>3. Cardinality(S) = v.pages
    <2>1. f \in Bijection(1..v.pages, S)
      <3>1. f \in [1..v.pages -> S]
        OBVIOUS
      <3>2. \A i, j \in 1..v.pages : f[i] = f[j] => i = j
        OBVIOUS
      <3>3. \A s \in S : \E i \in 1..v.pages : f[i] = s
        OBVIOUS
      <3>4. QED
        BY <3>1, <3>2, <3>3, Fun_IsBij
    <2>2. ExistsBijection(1..v.pages, S)
      BY <2>1 DEF ExistsBijection
    <2>3. IsFiniteSet(1..v.pages) /\ Cardinality(1..v.pages) = v.pages
      BY <1>1, FS_Interval, SMTT(20)
    <2> HIDE DEF S
    <2>4. QED
      BY <2>2, <2>3, FS_Bijection
  <1>4. Held(v) # S <=> v.document
    <2>1. <<"pdf", v.pages>> \notin S
      BY DEF PageKind
    <2>2. QED
      BY <2>1 DEF Held
  <1>5. QED
    BY <1>2, <1>3, <1>4

(* What the client sees is a run of ScanContract.                          *)
THEOREM Promised == Spec => Promise
  <1> USE DEF jobVars, producerVars, consumerVars, cancelVars, linkVars
  <1>1. Init => Contract!Init
    <2> SUFFICES ASSUME Init PROVE Contract!Init
      OBVIOUS
    <2>1. Pages = {} /\ client.whole = {} /\ client.outcome = "none" /\ client.total = 0
      BY DEF Init, Pages
    <2>2. Cardinality(Pages) = 0
      BY <2>1, FS_EmptySet
    <2>3. QED
      BY <2>1, <2>2, PipelineAssumption DEF Init, Contract!Init
  <1>2. IInv /\ [Next]_vars => [Contract!Next]_(Contract!cvars)
    <2> SUFFICES ASSUME IInv, [Next]_vars PROVE [Contract!Next]_(Contract!cvars)
      OBVIOUS
    <2>1. UNCHANGED format
      BY DEF Next, vars, ProducerStep, ProducerWorks, Start, TransferReady, PollFlag, TransferPage,
             HandPage, CloseSource, BatchComplete, CloseRequested, ProducerPanics, DeviceFails,
             ConsumerStep, ConsumerWorks, SendCancelled, Setup, ReceivePage, ReceiveCancelled,
             PagesOver, SendProgress, Convert, Announce, SendFrame, ClientGone, TransferDone,
             JoinedOk, JoinedError, SendProcessing, FinishDocument, SendComplete, ReplyError,
             SetupFails, ConvertFails, DocumentFails, ConsumerPanics, Abandon, ClientReads,
             ReadProgress, ReadBinaryStart, ReadFrame, ReadTerminal, ReadCancelReply, Read,
             CancelScan, ReplyCancel, Disconnect, Idle
    <2>2. CASE UNCHANGED client
      BY <2>1, <2>2 DEF Contract!cvars, Pages
    <2>3. CASE ClientReads
      <3>1. PICK v, w \in Views : /\ Shows(v) /\ Sound(v) /\ Sound(w)
                                  /\ Follows(v, Head(queue), w)
        BY <2>3, Front, Reading DEF IInv
      <3>2. Shows(w)' /\ Sound(w)'
        BY <2>1, <2>3, <3>1, ReadShows, Reading, SoundStays
      <3>3. /\ Cardinality(Pages) = v.pages /\ (client.whole # Pages <=> v.document)
            /\ client.outcome = v.outcome
            /\ client.total = IF v.outcome = "complete" THEN v.pages ELSE 0
        <4>1. client.whole = Held(v) /\ Pages = PagesOf(Held(v))
          BY <3>1 DEF Shows, Pages, PagesOf
        <4>2. QED
          BY <3>1, <4>1, Mapped DEF Shows
      <3>4. /\ Cardinality(Pages') = w.pages /\ (client'.whole # Pages' <=> w.document)
            /\ client'.outcome = w.outcome
            /\ client'.total = IF w.outcome = "complete" THEN w.pages ELSE 0
        <4>1. client'.whole = Held(w) /\ Pages' = PagesOf(Held(w))
          BY <2>1, <3>2 DEF Shows, Pages, PagesOf, Held, PageKind
        <4>2. QED
          BY <3>2, <4>1, Mapped DEF Shows
      <3>5. \/ w.pages = v.pages /\ w.document = v.document /\ w.outcome = v.outcome
            \/ /\ v.outcome = "none" /\ w.outcome = "none" /\ ~v.document
               /\ \/ w.pages = v.pages + 1 /\ ~w.document
                  \/ w.pages = v.pages /\ w.document /\ format = "pdf" /\ v.pages > 0
            \/ /\ v.outcome = "none" /\ w.outcome = "complete"
               /\ w.pages = v.pages /\ w.document = v.document
               /\ v.document <=> format = "pdf" /\ v.pages > 0
            \/ /\ v.outcome = "none" /\ w.outcome \in Errors
               /\ w.pages = v.pages /\ w.document = v.document
        <4>1. \A m : Arrives(v, m, w) /\ v.pending # NoTransfer /\ v.outcome = "none" =>
                \/ w.pages = v.pages /\ w.document = v.document /\ w.outcome = v.outcome
                \/ /\ v.outcome = "none" /\ w.outcome = "none" /\ ~v.document
                   /\ \/ m.what # "pdf" /\ w.pages = v.pages + 1 /\ ~w.document
                      \/ m.what = "pdf" /\ w.pages = v.pages /\ w.document
          BY <3>1 DEF Arrives, Views, Sound
        <4>2. v.pending # NoTransfer /\ v.pending.kind = "pdf" => format = "pdf" /\ v.pages > 0
          BY <3>1 DEF Sound, PageKind
        <4>3. QED
          BY <3>1, <4>1, <4>2 DEF Follows, Views, Sound
      <3>6. "none" \notin Errors /\ "complete" \notin Errors
        BY ErrorAssumption DEF Errors, ConsumerErrors
      <3>7. CASE w.pages = v.pages /\ w.document = v.document /\ w.outcome = v.outcome
        BY <2>1, <3>3, <3>4, <3>7 DEF Contract!cvars
      <3>8. CASE /\ v.outcome = "none" /\ w.outcome = "none" /\ ~v.document
                 /\ \/ w.pages = v.pages + 1 /\ ~w.document
                    \/ w.pages = v.pages /\ w.document /\ format = "pdf" /\ v.pages > 0
        BY <2>1, <3>3, <3>4, <3>8
        DEF Contract!Next, Contract!DeliverPage, Contract!DeliverDocument
      <3>9. CASE /\ v.outcome = "none" /\ w.outcome = "complete"
                 /\ w.pages = v.pages /\ w.document = v.document
                 /\ v.document <=> format = "pdf" /\ v.pages > 0
        BY <2>1, <3>3, <3>4, <3>9 DEF Contract!Next, Contract!Complete
      <3>10. CASE /\ v.outcome = "none" /\ w.outcome \in Errors
                  /\ w.pages = v.pages /\ w.document = v.document
        BY <2>1, <3>3, <3>4, <3>6, <3>10 DEF Contract!Next, Contract!Fail
      <3>11. QED
        BY <3>5, <3>7, <3>8, <3>9, <3>10
    <2>4. UNCHANGED client \/ ClientReads
      BY DEF Next, vars, ProducerStep, ProducerWorks, Start, TransferReady, PollFlag, TransferPage,
             HandPage, CloseSource, BatchComplete, CloseRequested, ProducerPanics, DeviceFails,
             ConsumerStep, ConsumerWorks, SendCancelled, Setup, ReceivePage, ReceiveCancelled,
             PagesOver, SendProgress, Convert, Announce, SendFrame, ClientGone, TransferDone,
             JoinedOk, JoinedError, SendProcessing, FinishDocument, SendComplete, ReplyError,
             SetupFails, ConvertFails, DocumentFails, ConsumerPanics, Abandon, Enqueue,
             CancelScan, ReplyCancel, Disconnect, Idle
    <2>5. QED
      BY <2>2, <2>3, <2>4
  <1>3. QED
    BY <1>1, <1>2, Invariance, PTL DEF Spec, Promise, Contract!Spec

=============================================================================
