------------------------------ MODULE WsConnection ------------------------------
(***************************************************************************)
(* One established connection (src-tauri/src/ws_server.rs): the reader in  *)
(* handle_connection, the three tasks it spawns to forward responses,      *)
(* forward broadcast events and send pings, the mutex they share on the    *)
(* write half of the socket, the watch channel that tells them to leave,   *)
(* and a client that reads, stalls, closes or vanishes.                    *)
(***************************************************************************)
EXTENDS Naturals, Sequences, FiniteSets

CONSTANTS
  QueueCapacity,   \* RESPONSE_CHANNEL_CAPACITY
  EventCapacity,   \* slots of the broadcast channel
  WireCapacity,    \* messages the socket takes before a send has to wait
  Scripts,         \* bound: what the client may send, as sequences of Messages
  MaxResponses,    \* bound: messages sent to the client by its commands
  MaxEvents,       \* bound: broadcasts
  MaxTicks         \* bound: heartbeats

ASSUME ConnectionAssumption ==
  /\ QueueCapacity \in Nat \ {0} /\ EventCapacity \in Nat \ {0} /\ WireCapacity \in Nat \ {0}
  /\ Scripts \subseteq Seq({"command", "unreadable", "ping", "close", "binary"})
  /\ MaxResponses \in Nat /\ MaxEvents \in Nat /\ MaxTicks \in Nat

VARIABLES
  inbox,      \* what the client has sent and the reader has not read
  handled,    \* commands passed to the command handler
  commandRx,  \* whether the command handler still receives
  handler,    \* where handle_connection stands
  closing,    \* the value of the close watch channel
  task,       \* where each spawned task stands
  hand,       \* what each user of the socket is sending
  waiters,    \* the socket's mutex: its owner, then those who wait, in order
  accepted,   \* messages the response queue has taken from senders
  discarded,  \* messages send_json gave up on because the receiver was gone
  queue,      \* the response queue: message numbers
  broadcasts, \* events sent to the broadcast channel so far
  nextEvent,  \* the event this connection's receiver is due
  ticks,      \* heartbeats so far
  wire,       \* the socket, towards the client
  client,     \* "up" or "gone"
  delivered,  \* responses the client has read
  heard       \* events the client has read, by number

readerVars == <<inbox, handled, commandRx, handler, closing>>
taskVars == <<task, hand, waiters>>
queueVars == <<accepted, discarded, queue>>
sourceVars == <<broadcasts, nextEvent, ticks>>
clientVars == <<wire, client, delivered, heard>>
vars == <<readerVars, taskVars, queueVars, sourceVars, clientVars>>

Tasks == {"response", "event", "ping"}
Users == Tasks \cup {"reader"}
Messages == {"command", "unreadable", "ping", "close", "binary"}
Item(kind, n) == [kind |-> kind, n |-> n]
Nothing == Item("none", 0)
Items == {Nothing} \cup {Item(kind, 0) : kind \in {"ping", "pong", "error"}}
         \cup {Item("response", n) : n \in 1..MaxResponses}
         \cup {Item("event", n) : n \in 1..MaxEvents}

TypeOK ==
  /\ inbox \in Seq(Messages)
  /\ handled \in Nat
  /\ commandRx \in BOOLEAN
  /\ handler \in {"reading", "answering", "closing", "ended"}
  /\ closing \in BOOLEAN
  /\ task \in [Tasks -> {"waiting", "sending", "ended"}]
  /\ hand \in [Users -> Items]
  /\ waiters \in Seq(Users) /\ Len(waiters) <= Cardinality(Users)
  /\ accepted \in 0..MaxResponses /\ discarded \in 0..MaxResponses
  /\ queue \in Seq(1..MaxResponses) /\ Len(queue) <= QueueCapacity
  /\ broadcasts \in 0..MaxEvents /\ nextEvent \in 1..(MaxEvents + 1)
  /\ ticks \in 0..MaxTicks
  /\ wire \in Seq(Items) /\ Len(wire) <= WireCapacity
  /\ client \in {"up", "gone"}
  /\ delivered \in 0..MaxResponses
  /\ heard \in Seq(1..MaxEvents)

(* A client may have sent anything by the time it is read: a message that  *)
(* arrives later is one the reader gets to later.                          *)
Init ==
  /\ inbox \in Scripts
  /\ handled = 0
  /\ commandRx = TRUE
  /\ handler = "reading"
  /\ closing = FALSE
  /\ task = [t \in Tasks |-> "waiting"]
  /\ hand = [u \in Users |-> Nothing]
  /\ waiters = <<>>
  /\ accepted = 0 /\ discarded = 0
  /\ queue = <<>>
  /\ broadcasts = 0 /\ nextEvent = 1 /\ ticks = 0
  /\ wire = <<>>
  /\ client = "up"
  /\ delivered = 0
  /\ heard = <<>>

(***************************************************************************)
(* The socket's write half.  tokio's mutex is fair, so waiters is its      *)
(* queue and its head the owner.                                           *)
(***************************************************************************)
Lock(u, item) ==
  /\ waiters' = Append(waiters, u)
  /\ hand' = [hand EXCEPT ![u] = item]

Unlock(u) ==
  /\ waiters # <<>> /\ u = Head(waiters)
  /\ waiters' = Tail(waiters)
  /\ hand' = [hand EXCEPT ![u] = Nothing]

(* The socket takes the message once it has room ...                       *)
SocketTakes(u) ==
  /\ client = "up"
  /\ Len(wire) < WireCapacity
  /\ Unlock(u)
  /\ wire' = Append(wire, hand[u])

(* ... or the send fails: the client is gone, or its Close has been read   *)
(* and the protocol lets no new message follow (one that waits for room    *)
(* may as well go on waiting).                                             *)
SocketFails(u) ==
  /\ client = "gone" \/ handler \in {"closing", "ended"}
  /\ Unlock(u)
  /\ UNCHANGED wire

(***************************************************************************)
(* The spawned tasks.  A task that has begun a send does not look at the   *)
(* close signal before the send is over.                                   *)
(***************************************************************************)
TakeResponse ==
  /\ task["response"] = "waiting"
  /\ queue # <<>>
  /\ task' = [task EXCEPT !["response"] = "sending"]
  /\ Lock("response", Item("response", Head(queue)))
  /\ queue' = Tail(queue)
  /\ UNCHANGED <<readerVars, accepted, discarded, sourceVars, clientVars>>

(* The oldest event still in the ring.                                     *)
Oldest == IF broadcasts > EventCapacity THEN broadcasts - EventCapacity + 1 ELSE 1

TakeEvent ==
  /\ task["event"] = "waiting"
  /\ nextEvent \in Oldest..broadcasts
  /\ task' = [task EXCEPT !["event"] = "sending"]
  /\ Lock("event", Item("event", nextEvent))
  /\ nextEvent' = nextEvent + 1
  /\ UNCHANGED <<readerVars, queueVars, broadcasts, ticks, clientVars>>

(* Mutant: a receiver that lags goes on with the latest event.             *)
SkipToLatest ==
  /\ task["event"] = "waiting"
  /\ nextEvent < Oldest
  /\ nextEvent' = broadcasts
  /\ UNCHANGED <<readerVars, taskVars, queueVars, broadcasts, ticks, clientVars>>

(* RecvError::Lagged: the receiver moves to the oldest event kept, and the *)
(* task goes on.                                                           *)
Lagged ==
  /\ task["event"] = "waiting"
  /\ nextEvent < Oldest
  /\ nextEvent' = Oldest
  /\ UNCHANGED <<readerVars, taskVars, queueVars, broadcasts, ticks, clientVars>>

Tick ==
  /\ task["ping"] = "waiting"
  /\ ticks < MaxTicks
  /\ ticks' = ticks + 1
  /\ task' = [task EXCEPT !["ping"] = "sending"]
  /\ Lock("ping", Item("ping", 0))
  /\ UNCHANGED <<readerVars, queueVars, broadcasts, nextEvent, clientVars>>

TaskSends(t) ==
  /\ task[t] = "sending"
  /\ SocketTakes(t)
  /\ task' = [task EXCEPT ![t] = "waiting"]
  /\ UNCHANGED <<readerVars, queueVars, sourceVars, client, delivered, heard>>

(* A task that ends takes its receiver with it: the queue and what it held *)
(* are lost, and later sends find no receiver.                             *)
TaskEnds(t) ==
  /\ task' = [task EXCEPT ![t] = "ended"]
  /\ queue' = IF t = "response" THEN <<>> ELSE queue
  /\ UNCHANGED <<readerVars, accepted, discarded, sourceVars, client, delivered, heard>>

(* Mutant: a send to a full socket is given up and the task goes on.       *)
TaskDropsSlow(t) ==
  /\ task[t] = "sending"
  /\ Len(wire) = WireCapacity
  /\ Unlock(t)
  /\ task' = [task EXCEPT ![t] = "waiting"]
  /\ UNCHANGED <<readerVars, queueVars, sourceVars, clientVars>>

TaskSendFails(t) ==
  /\ task[t] = "sending"
  /\ SocketFails(t)
  /\ TaskEnds(t)

(* Mutant: the heartbeat does not listen for the close signal.             *)
PingIgnoresClose(t) ==
  /\ t # "ping"
  /\ task[t] = "waiting"
  /\ closing
  /\ TaskEnds(t)
  /\ UNCHANGED <<hand, waiters, wire>>

(* select! is not biased: this branch may win over a message that is ready.*)
TaskSeesClose(t) ==
  /\ task[t] = "waiting"
  /\ closing
  /\ TaskEnds(t)
  /\ UNCHANGED <<hand, waiters, wire>>

(***************************************************************************)
(* The reader: the body of handle_connection.                              *)
(***************************************************************************)
Arrives(message) == handler = "reading" /\ inbox # <<>> /\ Head(inbox) = message

(* Mutant: a command is acknowledged on the socket before it is passed on. *)
ReadUnderLock ==
  /\ Arrives("command")
  /\ waiters = <<>>
  /\ inbox' = Tail(inbox)
  /\ handled' = handled + 1
  /\ UNCHANGED <<commandRx, handler, closing, taskVars, queueVars, sourceVars, clientVars>>

ReadCommand ==
  /\ Arrives("command")
  /\ inbox' = Tail(inbox)
  /\ IF commandRx
     THEN handled' = handled + 1 /\ UNCHANGED <<handler, closing>>
     ELSE handler' = "closing" /\ closing' = TRUE /\ UNCHANGED handled
  /\ UNCHANGED <<commandRx, taskVars, queueVars, sourceVars, clientVars>>

(* An unreadable message and a ping are answered by the reader itself, on  *)
(* the socket and not through the queue.                                   *)
ReadAnswered(message, answer) ==
  /\ Arrives(message)
  /\ inbox' = Tail(inbox)
  /\ handler' = "answering"
  /\ Lock("reader", Item(answer, 0))
  /\ UNCHANGED <<handled, commandRx, closing, task, queueVars, sourceVars, clientVars>>

ReadBinary ==
  /\ Arrives("binary")
  /\ inbox' = Tail(inbox)
  /\ UNCHANGED <<handled, commandRx, handler, closing, taskVars, queueVars, sourceVars,
                 clientVars>>

(* Mutant: the guard of the mutex lives on in the reader's loop.           *)
AnswerKeepsLock ==
  /\ handler = "answering"
  /\ waiters # <<>> /\ Head(waiters) = "reader"
  /\ Len(wire) < WireCapacity /\ client = "up"
  /\ wire' = Append(wire, hand["reader"])
  /\ handler' = "reading"
  /\ UNCHANGED <<inbox, handled, commandRx, closing, taskVars, queueVars, sourceVars, client,
                 delivered, heard>>

(* A failed answer is ignored: the next read will tell.                    *)
ReaderAnswers ==
  /\ handler = "answering"
  /\ SocketTakes("reader") \/ SocketFails("reader")
  /\ handler' = "reading"
  /\ UNCHANGED <<inbox, handled, commandRx, closing, task, queueVars, sourceVars, client,
                 delivered, heard>>

(* A Close, an error or the end of the stream. A client that is gone takes *)
(* with it what was not read.                                              *)
ReadEnd ==
  /\ \/ Arrives("close")
     \/ handler = "reading" /\ client = "gone"
  /\ handler' = "closing"
  /\ closing' = TRUE
  /\ inbox' = <<>>
  /\ UNCHANGED <<handled, commandRx, taskVars, queueVars, sourceVars, clientVars>>

AllEnded == \A t \in Tasks : task[t] = "ended"

Return ==
  /\ handler = "closing"
  /\ handler' = "ended"
  /\ UNCHANGED <<inbox, handled, commandRx, closing, taskVars, queueVars, sourceVars,
                 clientVars>>

TasksJoined == AllEnded /\ Return

(* Mutant: the tasks are awaited without a limit.                          *)
JoinForever == FALSE /\ UNCHANGED vars

(* After 5 s the tasks that have not ended are left to themselves, with    *)
(* their halves of the channels and of the socket.                         *)
JoinTimesOut == ~AllEnded /\ Return

(***************************************************************************)
(* The rest of the agent.                                                  *)
(***************************************************************************)
(* A command of this client has a message left to send.                   *)
CanSend == handled > 0 /\ accepted + discarded < MaxResponses

(* Mutant: an unbounded response channel.                                  *)
SendUnbounded ==
  /\ CanSend
  /\ IF task["response"] = "ended"
     THEN discarded' = discarded + 1 /\ UNCHANGED <<accepted, queue>>
     ELSE accepted' = accepted + 1 /\ queue' = Append(queue, accepted') /\ UNCHANGED discarded
  /\ UNCHANGED <<readerVars, taskVars, sourceVars, clientVars>>

(* send_json and send_binary, called by the tasks of this client's         *)
(* commands: parks while the queue is full, is discarded when the receiver *)
(* is gone.                                                                *)
Send ==
  /\ CanSend
  /\ IF task["response"] = "ended"
     THEN discarded' = discarded + 1 /\ UNCHANGED <<accepted, queue>>
     ELSE /\ Len(queue) < QueueCapacity
          /\ accepted' = accepted + 1
          /\ queue' = Append(queue, accepted')
          /\ UNCHANGED discarded
  /\ UNCHANGED <<readerVars, taskVars, sourceVars, clientVars>>

(* A deep link, or server_shutdown: sent whatever becomes of the receivers.*)
Broadcast ==
  /\ broadcasts < MaxEvents
  /\ broadcasts' = broadcasts + 1
  /\ UNCHANGED <<readerVars, taskVars, queueVars, nextEvent, ticks, clientVars>>

(* command_handler is gone: its task has panicked or the runtime stops.    *)
CommandHandlerStops ==
  /\ commandRx
  /\ commandRx' = FALSE
  /\ UNCHANGED <<inbox, handled, handler, closing, taskVars, queueVars, sourceVars, clientVars>>

(***************************************************************************)
(* The client.                                                             *)
(***************************************************************************)
ClientReads ==
  /\ client = "up"
  /\ wire # <<>>
  /\ LET item == Head(wire) IN
       /\ delivered' = IF item.kind = "response" THEN item.n ELSE delivered
       /\ heard' = IF item.kind = "event" THEN Append(heard, item.n) ELSE heard
  /\ wire' = Tail(wire)
  /\ UNCHANGED <<readerVars, taskVars, queueVars, sourceVars, client>>

(* The process of the client ends: on this host the socket breaks at once. *)
Vanish ==
  /\ client = "up"
  /\ client' = "gone"
  /\ wire' = <<>>
  /\ UNCHANGED <<readerVars, taskVars, queueVars, sourceVars, delivered, heard>>

(* Nothing is left to do only when everybody has left.                     *)
Over ==
  /\ client = "gone" /\ handler = "ended" /\ AllEnded /\ ~CanSend
  /\ UNCHANGED vars

Next ==
  \/ TakeResponse \/ TakeEvent \/ Lagged \/ Tick
  \/ \E t \in Tasks : TaskSends(t) \/ TaskSendFails(t) \/ TaskSeesClose(t)
  \/ ReadCommand \/ ReadBinary \/ ReadEnd
  \/ ReadAnswered("unreadable", "error") \/ ReadAnswered("ping", "pong")
  \/ ReaderAnswers \/ TasksJoined \/ JoinTimesOut
  \/ Send \/ Broadcast \/ CommandHandlerStops
  \/ ClientReads \/ Vanish \/ Over

Spec == Init /\ [][Next]_vars

(* Tasks are polled when they can go on, the mutex is handed on, and the   *)
(* runtime's timer fires. Nothing is assumed of the client, of broadcasts  *)
(* or of the heartbeat, nor that a Close ends a send that waits for room.  *)
TasksRun ==
  /\ WF_vars(TakeResponse) /\ WF_vars(TakeEvent \/ Lagged)
  /\ \A t \in Tasks : /\ WF_vars(TaskSends(t) \/ (client = "gone" /\ TaskSendFails(t)))
                      /\ WF_vars(TaskSeesClose(t))
  /\ WF_vars(ReadCommand \/ ReadBinary \/ ReadEnd \/ ReadAnswered("unreadable", "error")
             \/ ReadAnswered("ping", "pong"))
  /\ WF_vars(ReaderAnswers) /\ WF_vars(TasksJoined \/ JoinTimesOut) /\ WF_vars(Send)

AgentSpec == Spec /\ TasksRun

(***************************************************************************)
(* Properties.                                                             *)
(***************************************************************************)

(* The connection is the link the rest of the agent takes it for: accepted *)
(* responses arrive in order, none is lost or discarded before the client  *)
(* or the command handler has gone, and the backlog is bounded by the      *)
(* queue, the message in hand and the socket.                              *)
Link == INSTANCE ResponseLink WITH
  Backlog <- QueueCapacity + 1 + WireCapacity,
  link <- IF task["response"] = "ended" THEN "closed"
          ELSE IF client = "up" /\ handler \in {"reading", "answering"} THEN "open"
          ELSE "ending"

Reliable == Link!Spec

(* Events reach a client in the order of the broadcast and at most once,   *)
(* and one is missing only when the client had fallen behind by the whole  *)
(* ring (RecvError::Lagged skips no more than what the ring has lost).     *)
EventsKept ==
  LET all == <<0>> \o heard IN
    \A i \in 1..Len(heard) :
      \/ all[i + 1] = all[i] + 1
      \/ all[i + 1] > all[i] + 1 /\ broadcasts + 1 >= all[i + 1] + EventCapacity

(* A client that is gone releases everything: the handler returns, its     *)
(* tasks end, and every send of a command's task comes back, also one that *)
(* was parked on the full queue of a client that had stopped reading.      *)
Released ==
  (client = "gone") ~> (handler = "ended" /\ AllEnded /\ ~CanSend)

(* handle_connection returns after a Close even when a task is stuck in a  *)
(* send to a client that no longer reads (the limit of 5 s).               *)
HandlerReturns == (handler = "closing") ~> (handler = "ended")

(* A client that does not read what it is sent is still listened to: its   *)
(* commands, cancel_scan among them, reach the handler, unless the reader  *)
(* is itself waiting to answer behind a socket that is full.               *)
CommandsRead ==
  \/ <>[](handler = "answering" /\ Len(wire) = WireCapacity)
  \/ <>(handler \in {"closing", "ended"} \/ \A i \in DOMAIN inbox : inbox[i] # "command")

(* A client that stays and reads gets all it was to be sent.               *)
AllDelivered ==
  (/\ WF_vars(ClientReads)
   /\ [](client = "up" /\ handler \in {"reading", "answering"}))
    => [](handled > 0 => <>(delivered = MaxResponses))
=============================================================================
