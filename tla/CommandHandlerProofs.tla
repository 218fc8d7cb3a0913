------------------------ MODULE CommandHandlerProofs ------------------------
(***************************************************************************)
(* What holds of the command handler for every set of requests, clients    *)
(* and scanner names and every queue capacity.                             *)
(***************************************************************************)
EXTENDS CommandHandler, TLAPS

USE DEF taskVars, lockVars, pipeVars, orchVars, linkVars

(* The code of an error is the kind of a message.                          *)
LEMMA CodesAreKinds ==
  ASSUME NEW e \in ScanErrors
  PROVE  ErrorToCode[e] \in Kinds
  BY DEF Kinds

(* Queueing a message keeps the queues and the reply counts well typed,    *)
(* and no queue grows past the channel's capacity.                         *)
LEMMA EnqueueType ==
  ASSUME TypeOK, NEW r \in Requests, NEW kind \in Kinds, Enqueue(r, kind)
  PROVE  /\ queue' \in [Clients -> Seq(Messages)]
         /\ \A k \in Clients : Len(queue'[k]) <= QueueCapacity
         /\ connected' = connected /\ told' = told
  <1>1. ClientOf[r] \in Clients
    BY ClientsAssumption
  <1>2. [req |-> r, kind |-> kind] \in Messages
    BY DEF Messages
  <1> DEFINE longer == Append(queue[ClientOf[r]], [req |-> r, kind |-> kind])
  <1>3. longer \in Seq(Messages) /\ Len(longer) = Len(queue[ClientOf[r]]) + 1
    BY <1>1, <1>2 DEF TypeOK
  <1>4. CASE ~connected[ClientOf[r]]
    BY <1>4 DEF TypeOK, Enqueue
  <1>5. CASE connected[ClientOf[r]]
    <2>1. queue' = [queue EXCEPT ![ClientOf[r]] = longer] /\ connected' = connected /\ told' = told
      BY <1>5 DEF Enqueue
    <2>2. Len(queue[ClientOf[r]]) \in Nat /\ Len(queue[ClientOf[r]]) < QueueCapacity
      BY <1>1, <1>5 DEF Enqueue, CanSend, TypeOK
    <2>3. Len(longer) <= QueueCapacity
      BY <1>3, <2>2, BoundsAssumption
    <2> HIDE DEF longer
    <2>4. QED
      BY <1>1, <1>3, <2>1, <2>3 DEF TypeOK
  <1>6. QED
    BY <1>4, <1>5

(* So does answering a request, which also counts the answer.              *)
LEMMA AnswerType ==
  ASSUME TypeOK, NEW r \in Requests, NEW kind \in Kinds, Answer(r, kind)
  PROVE  /\ queue' \in [Clients -> Seq(Messages)]
         /\ \A k \in Clients : Len(queue'[k]) <= QueueCapacity
         /\ replies' \in [Requests -> Nat]
         /\ connected' = connected /\ told' = told
  <1>1. Enqueue(r, kind)
    BY DEF Answer
  <1>2. replies' \in [Requests -> Nat]
    BY DEF Answer, TypeOK
  <1>3. QED
    BY <1>1, <1>2, EnqueueType

(***************************************************************************)
(* The inductive invariant.  Type correctness alone is not inductive: a    *)
(* task that replies must have a failure that has a code.                  *)
(***************************************************************************)
FailureKnown == \A s \in Scans : scan[s] = "replying" => failure[s] \in ScanErrors
IInv ==
  /\ TypeOK
  /\ FailureKnown
  /\ OneScanAtATime
  /\ BusyOnlyWhileOwned
  /\ \A s \in Scans : Owns(s) => scanning
  /\ RegistrationMatches
  /\ active # NoScan => \E s \in Scans : active = s

(* Nothing is claimed, registered or sent in the initial state.            *)
LEMMA InitIInv == Init => IInv
  <1> SUFFICES ASSUME Init PROVE IInv
    OBVIOUS
  <1>1. TypeOK
    <2>1. <<>> \in Seq(Messages) /\ Len(<<>>) = 0
      OBVIOUS
    <2>2. queue \in [Clients -> Seq(Messages)] /\ \A k \in Clients : Len(queue[k]) <= QueueCapacity
      BY <2>1, BoundsAssumption DEF Init
    <2>3. QED
      BY <2>2 DEF Init, TypeOK, ScanStates, Sources
  <1>2. QED
    BY <1>1, IdsAssumption DEF Init, IInv, FailureKnown, OneScanAtATime, BusyOnlyWhileOwned,
         RegistrationMatches, Owns, Registered

(* Every step keeps every variable in its type. *)
LEMMA NextTypeOK ==
  ASSUME TypeOK, FailureKnown, [Next]_vars
  PROVE  TypeOK'
  <1> USE DEF TypeOK
  <1>1. ASSUME NEW s \in Scans, ScanStep(s) PROVE TypeOK'
    <2> s \in Requests
      BY DEF Requests
    <2>1. CASE StartScan(s)
      BY <2>1 DEF StartScan, ScanStates
    <2>2. CASE RejectBusy(s)
      <3>1. Answer(s, "SCANNER_BUSY") /\ "SCANNER_BUSY" \in Kinds
        BY <2>2 DEF RejectBusy, Kinds
      <3>2. QED
        BY <2>2, <3>1, AnswerType DEF RejectBusy, ScanStates
    <2>3. CASE Register(s)
      BY <2>3 DEF Register, ScanStates
    <2>4. CASE ResolveScanner(s)
      <3>1. PICK n \in Names : source' = [source EXCEPT ![s] = cache[n]]
        BY <2>4 DEF ResolveScanner, Found
      <3>2. QED
        BY <2>4, <3>1 DEF ResolveScanner, ScanStates
    <2>4a. CASE ResolveFails(s)
      <3>1. ResolveErrors \subseteq ScanErrors
        BY DEF ResolveErrors, ScanErrors, ErrorToCode
      <3>2. QED
        BY <2>4a, <3>1 DEF ResolveFails, ScanStates
    <2>5. CASE AnnouncePage(s)
      <3>1. Enqueue(s, "scan_progress") /\ "scan_progress" \in Kinds
        BY <2>5 DEF AnnouncePage, Kinds
      <3>2. QED
        BY <2>5, <3>1, EnqueueType DEF AnnouncePage
    <2>6. CASE ProducerStops(s)
      BY <2>6 DEF ProducerStops
    <2>7. CASE ScanCompletes(s)
      <3>1. Answer(s, "scan_complete") /\ "scan_complete" \in Kinds
        BY <2>7 DEF ScanCompletes, Kinds
      <3>2. QED
        BY <2>7, <3>1, AnswerType DEF ScanCompletes, ScanStates
    <2>8. ASSUME NEW e \in PipelineErrors, ScanFails(s, e) PROVE TypeOK'
      BY <2>8, ErrorsAssumption DEF ScanFails, ScanStates
    <2>9. CASE ScanCancelled(s)
      BY <2>9 DEF ScanCancelled, ScanStates, ScanErrors, ErrorToCode
    <2>10. CASE ScanPanics(s)
      BY <2>10 DEF ScanPanics, ScanStates
    <2>11. CASE ReplyError(s)
      <3>1. Answer(s, ErrorToCode[failure[s]]) /\ ErrorToCode[failure[s]] \in Kinds
        BY <2>11, CodesAreKinds DEF ReplyError, FailureKnown
      <3>2. QED
        BY <2>11, <3>1, AnswerType DEF ReplyError, ScanStates
    <2>12. CASE DropRegistration(s)
      BY <2>12 DEF DropRegistration, ScanStates
    <2>13. CASE DropScanning(s)
      BY <2>13 DEF DropScanning, ScanStates
    <2>14. QED
      BY <1>1, <2>1, <2>2, <2>3, <2>4, <2>4a, <2>5, <2>6, <2>7, <2>8, <2>9, <2>10, <2>11,
         <2>12, <2>13 DEF ScanStep
  <1>2. ASSUME NEW l \in Lists, ListStep(l) PROVE TypeOK'
    <2> l \in Requests
      BY DEF Requests
    <2>1. CASE ListScanners(l)
      BY <2>1 DEF ListScanners
    <2>2. CASE LockForDiscovery(l)
      BY <2>2 DEF LockForDiscovery
    <2>3. CASE DiscoverScanners(l)
      <3>1. cache' \in [Names -> Sources]
        BY <2>3 DEF DiscoverScanners, Merge, Sources
      <3>2. QED
        BY <2>3, <3>1 DEF DiscoverScanners
    <2>4. CASE DiscoveryPanics(l)
      BY <2>4 DEF DiscoveryPanics
    <2>5. CASE DiscoveryJoined(l)
      BY <2>5 DEF DiscoveryJoined
    <2>6. CASE DiscoveryTimesOut(l)
      BY <2>6 DEF DiscoveryTimesOut
    <2>7. CASE ReplyList(l)
      <3>1. ListAnswer[list[l]] \in Kinds
        BY <2>7 DEF ReplyList, ListAnswer, Kinds, ErrorToCode, ScanErrors
      <3>2. Answer(l, ListAnswer[list[l]])
        BY <2>7 DEF ReplyList
      <3>3. QED
        BY <2>7, <3>1, <3>2, AnswerType DEF ReplyList
    <2>8. QED
      BY <1>2, <2>1, <2>2, <2>3, <2>4, <2>5, <2>6, <2>7 DEF ListStep
  <1>3. ASSUME NEW c \in Cancels, CancelStep(c) PROVE TypeOK'
    <2> c \in Requests
      BY DEF Requests
    <2>1. CASE CancelScan(c)
      BY <2>1 DEF CancelScan
    <2>2. CASE ReplyCancel(c)
      <3>1. "cancel_ack" \in Kinds /\ "INVALID_REQUEST" \in Kinds
        BY DEF Kinds
      <3>2. Answer(c, IF cancel[c] = "acking" THEN "cancel_ack" ELSE "INVALID_REQUEST")
        BY <2>2 DEF ReplyCancel
      <3>3. QED
        BY <2>2, <3>1, <3>2, AnswerType DEF ReplyCancel
    <2>3. QED
      BY <1>3, <2>1, <2>2 DEF CancelStep
  <1>4. ASSUME NEW p \in Pings, Ping(p) PROVE TypeOK'
    <2>1. p \in Requests /\ Answer(p, "pong") /\ "pong" \in Kinds
      BY <1>4 DEF Ping, Requests, Kinds
    <2>2. QED
      BY <1>4, <2>1, AnswerType DEF Ping
  <1>5. ASSUME NEW k \in Clients, ClientStep(k) PROVE TypeOK'
    <2>1. CASE Deliver(k)
      <3>1. /\ Head(queue[k]) \in Messages
            /\ Tail(queue[k]) \in Seq(Messages)
        BY <2>1 DEF Deliver
      <3>2. Head(queue[k]).req \in Requests
        BY <3>1 DEF Messages
      <3>3. queue' \in [Clients -> Seq(Messages)]
        BY <2>1, <3>1 DEF Deliver
      <3>4. told' \in [Clients -> SUBSET Requests]
        BY <2>1, <3>2 DEF Deliver
      <3>5. \A c \in Clients : Len(queue'[c]) <= QueueCapacity
        <4>1. Len(Tail(queue[k])) = Len(queue[k]) - 1 /\ Len(queue[k]) \in Nat
          BY <2>1 DEF Deliver
        <4>2. \A c \in Clients \ {k} : queue'[c] = queue[c]
          BY <2>1 DEF Deliver
        <4>3. queue'[k] = Tail(queue[k])
          BY <2>1 DEF Deliver
        <4>4. Len(queue[k]) <= QueueCapacity /\ QueueCapacity \in Nat
          BY BoundsAssumption
        <4>5. Len(queue'[k]) <= QueueCapacity
          BY <4>1, <4>3, <4>4
        <4>6. QED
          BY <4>2, <4>5
      <3>6. QED
        BY <2>1, <3>3, <3>4, <3>5 DEF Deliver
    <2>2. CASE Disconnect(k)
      <3>1. <<>> \in Seq(Messages) /\ Len(<<>>) = 0
        OBVIOUS
      <3>2. queue' \in [Clients -> Seq(Messages)] /\ \A c \in Clients : Len(queue'[c]) <= QueueCapacity
        BY <2>2, <3>1, BoundsAssumption DEF Disconnect
      <3>3. QED
        BY <2>2, <3>2 DEF Disconnect
    <2>3. QED
      BY <1>5, <2>1, <2>2 DEF ClientStep
  <1>6. CASE UNCHANGED vars
    BY <1>6 DEF vars
  <1>7. QED
    BY <1>1, <1>2, <1>3, <1>4, <1>5, <1>6 DEF Next, Idle

(* Every step keeps the guard, the flag and the registration in agreement. *)
LEMMA NextIInv ==
  ASSUME IInv, [Next]_vars
  PROVE  IInv'
  <1> USE DEF IInv
  <1>0. TypeOK'
    BY NextTypeOK
  <1> USE DEF FailureKnown, OneScanAtATime, BusyOnlyWhileOwned, RegistrationMatches,
              Owns, Registered
  <1>1. ASSUME NEW s \in Scans, ScanStep(s) PROVE IInv'
    <2> USE DEF TypeOK
    <2>1. CASE StartScan(s)
      BY <1>0, <2>1 DEF StartScan
    <2>2. CASE RejectBusy(s)
      BY <1>0, <2>2 DEF RejectBusy
    <2>3. CASE Register(s)
      BY <1>0, <2>3, IdsAssumption DEF Register
    <2>4. CASE ResolveScanner(s)
      BY <1>0, <2>4 DEF ResolveScanner
    <2>5. CASE ResolveFails(s)
      <3>1. ResolveErrors \subseteq ScanErrors
        BY DEF ResolveErrors, ScanErrors, ErrorToCode
      <3>2. QED
        BY <1>0, <2>5, <3>1 DEF ResolveFails
    <2>6. CASE AnnouncePage(s)
      BY <1>0, <2>6 DEF AnnouncePage
    <2>7. CASE ProducerStops(s)
      BY <1>0, <2>7 DEF ProducerStops
    <2>8. CASE ScanCompletes(s)
      BY <1>0, <2>8 DEF ScanCompletes
    <2>9. ASSUME NEW e \in PipelineErrors, ScanFails(s, e) PROVE IInv'
      BY <1>0, <2>9, ErrorsAssumption DEF ScanFails
    <2>10. CASE ScanCancelled(s)
      BY <1>0, <2>10 DEF ScanCancelled, ScanErrors, ErrorToCode
    <2>11. CASE ScanPanics(s)
      BY <1>0, <2>11 DEF ScanPanics
    <2>12. CASE ReplyError(s)
      BY <1>0, <2>12 DEF ReplyError
    <2>13. CASE DropRegistration(s)
      BY <1>0, <2>13, IdsAssumption DEF DropRegistration
    <2>14. CASE DropScanning(s)
      BY <1>0, <2>14 DEF DropScanning
    <2>15. QED
      BY <1>1, <2>1, <2>2, <2>3, <2>4, <2>5, <2>6, <2>7, <2>8, <2>9, <2>10, <2>11,
         <2>12, <2>13, <2>14 DEF ScanStep
  <1>2. ASSUME UNCHANGED <<scan, scanning, active, failure>> PROVE IInv'
    BY <1>0, <1>2
  <1>3. ASSUME NEW l \in Lists, ListStep(l) PROVE UNCHANGED <<scan, scanning, active, failure>>
    BY <1>3 DEF ListStep, ListScanners, LockForDiscovery, DiscoverScanners, DiscoveryPanics,
                DiscoveryJoined, DiscoveryTimesOut, ReplyList
  <1>4. ASSUME NEW c \in Cancels, CancelStep(c) PROVE UNCHANGED <<scan, scanning, active, failure>>
    BY <1>4 DEF CancelStep, CancelScan, ReplyCancel
  <1>5. ASSUME NEW p \in Pings, Ping(p) PROVE UNCHANGED <<scan, scanning, active, failure>>
    BY <1>5 DEF Ping
  <1>6. ASSUME NEW k \in Clients, ClientStep(k) PROVE UNCHANGED <<scan, scanning, active, failure>>
    BY <1>6 DEF ClientStep, Deliver, Disconnect
  <1>7. QED
    BY <1>1, <1>2, <1>3, <1>4, <1>5, <1>6 DEF Next, Idle, vars

(* The inductive invariant, behind the theorems on types, lock and flag.   *)
LEMMA Invariance == Spec => []IInv
  <1>1. IInv /\ [Next]_vars => IInv'
    BY NextIInv
  <1>2. QED
    BY InitIInv, <1>1, PTL DEF Spec

(* Every variable keeps its type in every behaviour of the handler. *)
THEOREM TypeCorrect == Spec => []TypeOK
  <1>1. IInv => TypeOK
    BY DEF IInv
  <1>2. QED
    BY Invariance, <1>1, PTL

(* The compare_exchange and the guard admit one scan at a time, however    *)
(* many clients start scans and however those scans end.                   *)
THEOREM MutualExclusion == Spec => []OneScanAtATime
  <1>1. IInv => OneScanAtATime
    BY DEF IInv
  <1>2. QED
    BY Invariance, <1>1, PTL

(* The busy flag is never left behind without a task that will clear it.   *)
THEOREM NeverStuckBusy == Spec => []BusyOnlyWhileOwned
  <1>1. IInv => BusyOnlyWhileOwned
    BY DEF IInv
  <1>2. QED
    BY Invariance, <1>1, PTL

(* A cancel_scan finds a scan exactly while that scan is registered.       *)
THEOREM RegistrationExact == Spec => []RegistrationMatches
  <1>1. IInv => RegistrationMatches
    BY DEF IInv
  <1>2. QED
    BY Invariance, <1>1, PTL

(* A cancel flag goes up only under an acknowledged cancel_scan, on the    *)
(* scan that owns the scanner, for a client that was told its id.          *)
THEOREM CancelExact == Spec => CancelIsExact
  <1>1. ASSUME IInv, [Next]_vars, NEW s \in Scans, flag'[s] # flag[s]
        PROVE  /\ Owns(s) /\ \A t \in Scans \ {s} : flag'[t] = flag[t]
               /\ \E c \in Cancels : /\ cancel[c] = "idle" /\ cancel'[c] = "acking"
                                     /\ s \in told[ClientOf[c]]
    <2>1. \A t \in Scans : ~ScanStep(t)
      BY <1>1 DEF ScanStep, StartScan, RejectBusy, Register, ResolveScanner, ResolveFails,
           AnnouncePage, ProducerStops, ScanCompletes, ScanFails, ScanCancelled, ScanPanics,
           ReplyError, DropRegistration, DropScanning
    <2>2. \A l \in Lists : ~ListStep(l)
      BY <1>1 DEF ListStep, ListScanners, LockForDiscovery, DiscoverScanners, DiscoveryPanics,
                DiscoveryJoined, DiscoveryTimesOut, ReplyList
    <2>3. \A p \in Pings : ~Ping(p)
      BY <1>1 DEF Ping
    <2>4. \A k \in Clients : ~ClientStep(k)
      BY <1>1 DEF ClientStep, Deliver, Disconnect
    <2>5. PICK c \in Cancels : CancelStep(c)
      BY <1>1, <2>1, <2>2, <2>3, <2>4 DEF Next, Idle, vars
    <2>6. CancelScan(c)
      BY <1>1, <2>5 DEF CancelStep, ReplyCancel
    <2>7. PICK target \in (told[ClientOf[c]] \cap Scans) \cup {UnknownId} :
             /\ active = target
             /\ flag' = [flag EXCEPT ![target] = TRUE]
             /\ cancel' = [cancel EXCEPT ![c] = "acking"]
      BY <1>1, <2>6 DEF CancelScan
    <2>8. target \in Scans
      BY <1>1, <2>7, IdsAssumption DEF IInv, TypeOK
    <2>9. target = s /\ \A t \in Scans \ {s} : flag'[t] = flag[t]
      <3>1. flag \in [Scans -> BOOLEAN]
        BY <1>1 DEF IInv, TypeOK
      <3>2. \A t \in Scans \ {target} : flag'[t] = flag[t]
        BY <2>7, <3>1
      <3>3. QED
        BY <1>1, <2>8, <3>2
    <2>10. Owns(s)
      BY <1>1, <2>7, <2>9 DEF IInv, RegistrationMatches, Registered, Owns
    <2>11. s \in told[ClientOf[c]]
      BY <2>7, <2>8, <2>9, IdsAssumption
    <2>12. cancel[c] = "idle" /\ cancel'[c] = "acking"
      BY <1>1, <2>6, <2>7 DEF CancelScan, IInv, TypeOK
    <2>13. QED
      BY <2>9, <2>10, <2>11, <2>12
  <1>2. IInv /\ [Next]_vars =>
          [\A s \in Scans : flag'[s] # flag[s] =>
             /\ Owns(s) /\ \A t \in Scans \ {s} : flag'[t] = flag[t]
             /\ \E c \in Cancels : /\ cancel[c] = "idle" /\ cancel'[c] = "acking"
                                   /\ s \in told[ClientOf[c]]]_vars
    BY <1>1
  <1>3. QED
    BY Invariance, <1>2, PTL DEF Spec, CancelIsExact

(***************************************************************************)
(* One answer per request.                                                 *)
(***************************************************************************)
(* A scan has no failure before the pipeline or the resolution ended it.   *)
FailureStage ==
  \A s \in Scans : scan[s] \notin {"replying", "dropping", "releasing", "done"}
                     => failure[s] = "none"
AInv == IInv /\ FailureStage /\ AnsweredOnce

(* An answer is counted for the request it is given to and no other.       *)
LEMMA AnswerCounts ==
  ASSUME TypeOK, NEW r \in Requests, NEW kind, Answer(r, kind), replies[r] = 0
  PROVE  /\ replies'[r] = 1
         /\ \A q \in Requests \ {r} : replies'[q] = replies[q]
  BY DEF Answer, TypeOK

(* Nobody has been answered in the initial state.                          *)
LEMMA InitAInv == Init => AInv
  BY InitIInv DEF Init, AInv, FailureStage, AnsweredOnce, One, ScanAnswered, Requests

(* A step that answers nobody leaves every count and every stage alone.    *)
LEMMA NextAInv ==
  ASSUME AInv, [Next]_vars
  PROVE  AInv'
  <1>0. IInv'
    BY NextIInv DEF AInv
  <1>t. TypeOK
    BY DEF AInv, IInv
  <1>r. Scans \subseteq Requests /\ Cancels \subseteq Requests /\ Lists \subseteq Requests
        /\ Pings \subseteq Requests
    BY DEF Requests
  <1> USE DEF AInv, FailureStage, AnsweredOnce, One, ScanAnswered
  <1>1. ASSUME NEW s \in Scans, ScanStep(s) PROVE AInv'
    <2> USE DEF TypeOK
    <2>1. CASE StartScan(s)
      BY <1>0, <1>t, <2>1 DEF StartScan
    <2>2. CASE RejectBusy(s)
      <3>1. s \in Requests /\ replies[s] = 0 /\ Answer(s, "SCANNER_BUSY")
        BY <1>t, <1>r, <2>2 DEF RejectBusy
      <3>2. replies'[s] = 1 /\ \A q \in Requests \ {s} : replies'[q] = replies[q]
        BY <1>t, <3>1, AnswerCounts
      <3>3. failure[s] = "none"
        BY <2>2 DEF RejectBusy
      <3>4. QED
        BY <1>0, <1>t, <1>r, <2>2, <3>2, <3>3, DisjointAssumption DEF RejectBusy
    <2>3. CASE Register(s)
      BY <1>0, <1>t, <2>3 DEF Register
    <2>4. CASE ResolveScanner(s)
      BY <1>0, <1>t, <2>4 DEF ResolveScanner
    <2>5. CASE ResolveFails(s)
      BY <1>0, <1>t, <2>5 DEF ResolveFails
    <2>6. CASE AnnouncePage(s)
      BY <1>0, <1>t, <2>6 DEF AnnouncePage
    <2>7. CASE ProducerStops(s)
      BY <1>0, <1>t, <2>7 DEF ProducerStops
    <2>8. CASE ScanCompletes(s)
      <3>1. s \in Requests /\ replies[s] = 0 /\ Answer(s, "scan_complete")
        BY <1>t, <1>r, <2>8 DEF ScanCompletes
      <3>2. replies'[s] = 1 /\ \A q \in Requests \ {s} : replies'[q] = replies[q]
        BY <1>t, <3>1, AnswerCounts
      <3>3. failure[s] = "none"
        BY <2>8 DEF ScanCompletes
      <3>4. QED
        BY <1>0, <1>t, <1>r, <2>8, <3>2, <3>3, DisjointAssumption DEF ScanCompletes
    <2>9. ASSUME NEW e \in PipelineErrors, ScanFails(s, e) PROVE AInv'
      BY <1>0, <1>t, <2>9 DEF ScanFails
    <2>10. CASE ScanCancelled(s)
      BY <1>0, <1>t, <2>10 DEF ScanCancelled
    <2>11. CASE ScanPanics(s)
      BY <1>0, <1>t, <2>11 DEF ScanPanics
    <2>12. CASE ReplyError(s)
      <3>1. failure[s] # "panic"
        BY <2>12 DEF ReplyError, IInv, FailureKnown, ScanErrors, ErrorToCode
      <3>2. s \in Requests /\ replies[s] = 0 /\ Answer(s, ErrorToCode[failure[s]])
        BY <1>t, <1>r, <2>12 DEF ReplyError
      <3>3. replies'[s] = 1 /\ \A q \in Requests \ {s} : replies'[q] = replies[q]
        BY <1>t, <3>2, AnswerCounts
      <3>4. QED
        BY <1>0, <1>t, <1>r, <2>12, <3>1, <3>3, DisjointAssumption DEF ReplyError
    <2>13. CASE DropRegistration(s)
      BY <1>0, <1>t, <2>13 DEF DropRegistration
    <2>14. CASE DropScanning(s)
      BY <1>0, <1>t, <2>14 DEF DropScanning
    <2>15. QED
      BY <1>1, <2>1, <2>2, <2>3, <2>4, <2>5, <2>6, <2>7, <2>8, <2>9, <2>10, <2>11,
         <2>12, <2>13, <2>14 DEF ScanStep
  <1>2. ASSUME NEW l \in Lists, ListStep(l) PROVE AInv'
    <2> USE DEF TypeOK
    <2>1. CASE ListScanners(l)
      BY <1>0, <1>t, <2>1 DEF ListScanners
    <2>2. CASE LockForDiscovery(l)
      BY <1>0, <1>t, <2>2 DEF LockForDiscovery
    <2>3. CASE DiscoverScanners(l)
      BY <1>0, <1>t, <2>3 DEF DiscoverScanners
    <2>4. CASE DiscoveryPanics(l)
      BY <1>0, <1>t, <2>4 DEF DiscoveryPanics
    <2>5. CASE DiscoveryJoined(l)
      BY <1>0, <1>t, <2>5 DEF DiscoveryJoined
    <2>6. CASE DiscoveryTimesOut(l)
      BY <1>0, <1>t, <2>6 DEF DiscoveryTimesOut
    <2>7. CASE ReplyList(l)
      <3>1. list[l] # "done" /\ Answer(l, ListAnswer[list[l]])
        BY <2>7 DEF ReplyList, ListAnswer
      <3>2. l \in Requests /\ replies[l] = 0
        BY <1>r, <3>1
      <3>3. replies'[l] = 1 /\ \A q \in Requests \ {l} : replies'[q] = replies[q]
        BY <1>t, <3>1, <3>2, AnswerCounts
      <3>4. QED
        BY <1>0, <1>t, <1>r, <2>7, <3>3, DisjointAssumption DEF ReplyList
    <2>8. QED
      BY <1>2, <2>1, <2>2, <2>3, <2>4, <2>5, <2>6, <2>7 DEF ListStep
  <1>3. ASSUME NEW c \in Cancels, CancelStep(c) PROVE AInv'
    <2> USE DEF TypeOK
    <2>1. CASE CancelScan(c)
      BY <1>0, <1>t, <2>1 DEF CancelScan
    <2>2. CASE ReplyCancel(c)
      <3>1. c \in Requests /\ replies[c] = 0
        BY <1>r, <2>2 DEF ReplyCancel
      <3>2. replies'[c] = 1 /\ \A q \in Requests \ {c} : replies'[q] = replies[q]
        BY <1>t, <2>2, <3>1, AnswerCounts DEF ReplyCancel
      <3>3. QED
        BY <1>0, <1>t, <1>r, <2>2, <3>2, DisjointAssumption DEF ReplyCancel
    <2>3. QED
      BY <1>3, <2>1, <2>2 DEF CancelStep
  <1>4. ASSUME NEW p \in Pings, Ping(p) PROVE AInv'
    <2>1. p \in Requests /\ replies[p] = 0 /\ Answer(p, "pong")
      BY <1>r, <1>4 DEF Ping
    <2>2. replies'[p] = 1 /\ \A q \in Requests \ {p} : replies'[q] = replies[q]
      BY <1>t, <2>1, AnswerCounts
    <2>3. QED
      BY <1>0, <1>t, <1>r, <1>4, <2>2, DisjointAssumption DEF Ping, TypeOK
  <1>5. ASSUME NEW k \in Clients, ClientStep(k) PROVE AInv'
    BY <1>0, <1>5 DEF ClientStep, Deliver, Disconnect
  <1>6. CASE UNCHANGED vars
    BY <1>0, <1>6 DEF vars
  <1>7. QED
    BY <1>1, <1>2, <1>3, <1>4, <1>5, <1>6 DEF Next, Idle

(* Every request has been answered exactly once when its task is over,     *)
(* except by a scan task that panicked, and never twice.                   *)
THEOREM OneAnswer == Spec => []AnsweredOnce
  <1>1. AInv /\ [Next]_vars => AInv'
    BY NextAInv
  <1>2. AInv => AnsweredOnce
    BY DEF AInv
  <1>3. QED
    BY InitAInv, <1>1, <1>2, PTL DEF Spec
=============================================================================
