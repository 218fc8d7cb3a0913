------------------------- MODULE WsConnectionProofs -------------------------
(***************************************************************************)
(* One connection, for every capacity and every script of the client: it   *)
(* is the reliable link the rest of the agent takes it for, and loses      *)
(* events only to a client that has fallen behind by the whole ring.       *)
(*                                                                         *)
(* The messages on the wire stand between what the client has and what the *)
(* tasks have sent.  The inductive invariant follows the client through    *)
(* them (a forecast) up to where the tasks stand.                          *)
(***************************************************************************)
EXTENDS WsConnection, FiniteSetTheorems, SequenceTheorems, FunctionTheorems, TLAPS

(* Event b may come next after event a: what is missing in between the     *)
(* ring has lost.                                                          *)
Gap(a, b) == b = a + 1 \/ (b > a + 1 /\ broadcasts + 1 >= b + EventCapacity)

(* The last response and the last event a client has. *)
Views == [response : Nat, event : Nat]

Follows(v, item, w) ==
  /\ w.response = IF item.kind = "response" THEN item.n ELSE v.response
  /\ w.event = IF item.kind = "event" THEN item.n ELSE v.event
  /\ item.kind = "response" => item.n = v.response + 1
  /\ item.kind = "event" => Gap(v.event, item.n)

LastHeard == IF heard = <<>> THEN 0 ELSE heard[Len(heard)]
Shows(v) == v.response = delivered /\ v.event = LastHeard

(* Responses that have left the queue and the task's hand for the socket.  *)
Gone == accepted - Len(queue) - (IF task["response"] = "sending" THEN 1 ELSE 0)

(* The tasks have sent what leads to v. *)
Sent(v) ==
  /\ v.response <= accepted
  /\ task["response"] # "ended" => v.response = Gone
  /\ task["event"] = "waiting" => Gap(v.event, nextEvent)
  /\ task["event"] = "sending" =>
       Gap(v.event, hand["event"].n) /\ Gap(hand["event"].n, nextEvent)

(* No more responses lie between two places on the wire than messages.     *)
Paced(views) ==
  \A i, j \in 1..Len(views) : i < j =>
    /\ views[i].response <= views[j].response
    /\ views[j].response <= views[i].response + (j - i)

Forecast(views) ==
  /\ Len(views) = Len(wire) + 1
  /\ Shows(views[1])
  /\ \A i \in 1..Len(wire) : Follows(views[i], wire[i], views[i + 1])
  /\ Paced(views)
  /\ client = "up" => Sent(views[Len(views)])

Wire == \E views \in Seq(Views) : Forecast(views)

(* The queue holds the responses accepted last, in order, and the task the *)
(* one before them.                                                        *)
Queue ==
  /\ accepted + discarded <= MaxResponses
  /\ Len(queue) <= accepted
  /\ \A i \in 1..Len(queue) : queue[i] = accepted - Len(queue) + i
  /\ task["response"] = "ended" => queue = <<>>
  /\ task["response"] = "sending" =>
       Len(queue) < accepted /\ hand["response"] = Item("response", accepted - Len(queue))
  /\ task["response"] # "ended" => Gone <= delivered + WireCapacity
  /\ client = "gone" => wire = <<>>

(* Each user of the socket waits for it once, with a message of its own.   *)
Kinds(u) == CASE u = "reader"   -> {"none", "pong", "error"}
              [] u = "ping"     -> {"none", "ping"}
              [] u = "event"    -> {"none", "event"}
              [] u = "response" -> {"none", "response"}
Mutex ==
  /\ \A i, j \in 1..Len(waiters) : waiters[i] = waiters[j] => i = j
  /\ \A i \in 1..Len(waiters) :
       /\ waiters[i] \in Tasks => task[waiters[i]] = "sending"
       /\ waiters[i] = "reader" => handler = "answering"
  /\ \A u \in Users : hand[u].kind \in Kinds(u)

(* The close signal is given when the reader has left. *)
Closing == closing <=> handler \in {"closing", "ended"}

(* The ring and what was heard of it. *)
Ring ==
  /\ nextEvent <= broadcasts + 1
  /\ \A i \in 1..Len(heard) : Gap(IF i = 1 THEN 0 ELSE heard[i - 1], heard[i])

IInv == TypeOK /\ Wire /\ Queue /\ Mutex /\ Closing /\ Ring

(***************************************************************************)
(* The mutex.                                                              *)
(***************************************************************************)
(* What the types say of numbers and sequences. *)
LEMMA Numbers ==
  ASSUME TypeOK
  PROVE  /\ QueueCapacity \in Nat \ {0} /\ EventCapacity \in Nat \ {0}
         /\ WireCapacity \in Nat \ {0} /\ MaxResponses \in Nat /\ MaxEvents \in Nat
         /\ Len(queue) \in Nat /\ Len(wire) \in Nat /\ Len(waiters) \in Nat /\ Len(heard) \in Nat
         /\ accepted \in Nat /\ discarded \in Nat /\ delivered \in Nat
         /\ broadcasts \in Nat /\ nextEvent \in Nat \ {0}
         /\ \A item \in Items : item.n \in Nat /\ (item.kind = "none" => item.n = 0)
         /\ \A u \in Users : hand[u] \in Items
         /\ \A i \in 1..Len(wire) : wire[i] \in Items
         /\ LastHeard \in Nat
  <1>1. /\ QueueCapacity \in Nat \ {0} /\ EventCapacity \in Nat \ {0}
        /\ WireCapacity \in Nat \ {0} /\ MaxResponses \in Nat /\ MaxEvents \in Nat
    BY ConnectionAssumption
  <1>2. /\ Len(queue) \in Nat /\ Len(wire) \in Nat /\ Len(waiters) \in Nat /\ Len(heard) \in Nat
    BY LenProperties DEF TypeOK
  <1>3. /\ accepted \in Nat /\ discarded \in Nat /\ delivered \in Nat
        /\ broadcasts \in Nat /\ nextEvent \in Nat \ {0}
    BY <1>1 DEF TypeOK
  <1>4. \A item \in Items : item.n \in Nat /\ (item.kind = "none" => item.n = 0)
    BY <1>1 DEF Items, Item, Nothing
  <1>5. /\ \A u \in Users : hand[u] \in Items
        /\ \A i \in 1..Len(wire) : wire[i] \in Items
    BY <1>2 DEF TypeOK
  <1>6. LastHeard \in Nat
    <2>1. CASE heard = <<>>
      BY <2>1 DEF LastHeard
    <2>2. CASE heard # <<>>
      <3>1. Len(heard) \in 1..Len(heard)
        BY <1>2, <2>2, EmptySeq DEF TypeOK
      <3>2. heard[Len(heard)] \in 1..MaxEvents
        BY <3>1, ElementOfSeq DEF TypeOK
      <3>3. QED
        BY <1>1, <2>2, <3>2 DEF LastHeard
    <2>3. QED
      BY <2>1, <2>2
  <1>7. QED
    BY <1>1, <1>2, <1>3, <1>4, <1>5, <1>6

(* Users who wait at most once each are no more than there are users.      *)
LEMMA Bounded ==
  ASSUME NEW s \in Seq(Users), \A i, j \in 1..Len(s) : s[i] = s[j] => i = j
  PROVE  Len(s) <= Cardinality(Users)
  <1>1. Len(s) \in Nat /\ s \in [1..Len(s) -> Users]
    BY LenProperties
  <1>2. s \in Injection(1..Len(s), Users)
    BY <1>1, Fun_IsInj
  <1>3. IsFiniteSet(Users)
    <2>1. IsFiniteSet({"response"})
      BY FS_Singleton
    <2>2. IsFiniteSet({"response"} \cup {"event"})
      BY <2>1, FS_AddElement
    <2>3. IsFiniteSet(({"response"} \cup {"event"}) \cup {"ping"})
      BY <2>2, FS_AddElement
    <2>4. IsFiniteSet((({"response"} \cup {"event"}) \cup {"ping"}) \cup {"reader"})
      BY <2>3, FS_AddElement
    <2>5. Users = (({"response"} \cup {"event"}) \cup {"ping"}) \cup {"reader"}
      BY DEF Users, Tasks
    <2>6. QED
      BY <2>4, <2>5
  <1>4. Cardinality(1..Len(s)) <= Cardinality(Users)
    BY <1>2, <1>3, FS_Injection
  <1>5. Cardinality(1..Len(s)) = Len(s)
    BY <1>1, FS_Interval
  <1>6. QED
    BY <1>4, <1>5

(* Who does not wait yet may queue up.                                     *)
LEMMA Locked ==
  ASSUME TypeOK, Mutex, NEW u \in Users, NEW item \in Items, item.kind \in Kinds(u),
         Lock(u, item), \A i \in 1..Len(waiters) : waiters[i] # u,
         \A t \in Tasks : task[t] = "sending" \/ t = u => task'[t] = "sending",
         handler = "answering" \/ u = "reader" => handler' = "answering"
  PROVE  /\ Mutex'
         /\ waiters' \in Seq(Users) /\ Len(waiters') <= Cardinality(Users)
         /\ hand' \in [Users -> Items]
         /\ hand'[u] = item /\ \A w \in Users \ {u} : hand'[w] = hand[w]
  <1>1. /\ waiters' \in Seq(Users) /\ Len(waiters') = Len(waiters) + 1 /\ Len(waiters) \in Nat
        /\ waiters'[Len(waiters) + 1] = u
        /\ \A i \in 1..Len(waiters) : waiters'[i] = waiters[i]
    BY AppendProperties, LenProperties DEF Lock, TypeOK
  <1>2. /\ hand' \in [Users -> Items]
        /\ hand'[u] = item /\ \A w \in Users \ {u} : hand'[w] = hand[w]
    BY DEF Lock, TypeOK
  <1>3. \A i, j \in 1..Len(waiters') : waiters'[i] = waiters'[j] => i = j
    BY <1>1 DEF Mutex
  <1>4. \A i \in 1..Len(waiters') :
          /\ waiters'[i] \in Tasks => task'[waiters'[i]] = "sending"
          /\ waiters'[i] = "reader" => handler' = "answering"
    <2> SUFFICES ASSUME NEW i \in 1..Len(waiters')
                 PROVE  /\ waiters'[i] \in Tasks => task'[waiters'[i]] = "sending"
                        /\ waiters'[i] = "reader" => handler' = "answering"
      OBVIOUS
    <2>1. CASE i = Len(waiters) + 1
      BY <1>1, <2>1
    <2>2. CASE i \in 1..Len(waiters)
      BY <1>1, <2>2 DEF Mutex
    <2>3. QED
      BY <1>1, <2>1, <2>2
  <1>5. \A w \in Users : hand'[w].kind \in Kinds(w)
    BY <1>2 DEF Mutex
  <1>6. QED
    BY <1>1, <1>2, <1>3, <1>4, <1>5, Bounded DEF Mutex

(* The owner leaves the others waiting in their order.                     *)
LEMMA Unlocked ==
  ASSUME TypeOK, Mutex, NEW u \in Users, Unlock(u),
         \A t \in Tasks \ {u} : task[t] = "sending" => task'[t] = "sending",
         handler = "answering" /\ u # "reader" => handler' = "answering"
  PROVE  /\ Mutex'
         /\ waiters' \in Seq(Users) /\ Len(waiters') <= Cardinality(Users)
         /\ hand' \in [Users -> Items]
         /\ \A w \in Users \ {u} : hand'[w] = hand[w]
  <1>1. /\ waiters' \in Seq(Users) /\ Len(waiters') = Len(waiters) - 1 /\ Len(waiters) \in Nat
        /\ u = waiters[1]
        /\ \A i \in 1..Len(waiters') : waiters'[i] = waiters[i + 1]
    BY HeadTailProperties, LenProperties DEF Unlock, TypeOK
  <1>2. /\ hand' \in [Users -> Items]
        /\ hand'[u] = Nothing /\ \A w \in Users \ {u} : hand'[w] = hand[w]
    BY DEF Unlock, TypeOK, Items
  <1>3. \A i, j \in 1..Len(waiters') : waiters'[i] = waiters'[j] => i = j
    <2> SUFFICES ASSUME NEW i \in 1..Len(waiters'), NEW j \in 1..Len(waiters'),
                        waiters'[i] = waiters'[j]
                 PROVE  i = j
      OBVIOUS
    <2>1. i + 1 \in 1..Len(waiters) /\ j + 1 \in 1..Len(waiters)
      BY <1>1
    <2>2. waiters[i + 1] = waiters[j + 1]
      BY <1>1
    <2>3. i + 1 = j + 1
      BY <2>1, <2>2 DEF Mutex
    <2>4. QED
      BY <2>3
  <1>4. \A i \in 1..Len(waiters') :
          /\ waiters'[i] \in Tasks => task'[waiters'[i]] = "sending"
          /\ waiters'[i] = "reader" => handler' = "answering"
    <2> SUFFICES ASSUME NEW i \in 1..Len(waiters')
                 PROVE  /\ waiters'[i] \in Tasks => task'[waiters'[i]] = "sending"
                        /\ waiters'[i] = "reader" => handler' = "answering"
      OBVIOUS
    <2>1. i + 1 \in 1..Len(waiters) /\ 1 \in 1..Len(waiters) /\ i + 1 # 1
      BY <1>1
    <2>2. waiters[i + 1] # u /\ waiters'[i] = waiters[i + 1]
      BY <1>1, <2>1 DEF Mutex
    <2>3. QED
      BY <2>1, <2>2 DEF Mutex
  <1>5. Nothing.kind \in Kinds(u)
    BY DEF Nothing, Item, Kinds, Users, Tasks
  <1>6. \A w \in Users : hand'[w].kind \in Kinds(w)
    BY <1>2, <1>5 DEF Mutex
  <1>7. QED
    BY <1>1, <1>2, <1>3, <1>4, <1>6, Bounded DEF Mutex

(***************************************************************************)
(* What steps do to the forecast.                                          *)
(***************************************************************************)
(* A step that leaves the wire alone keeps the forecast, when the tasks    *)
(* stand by what they sent.                                                *)
LEMMA WireUntouched ==
  ASSUME TypeOK, Wire, UNCHANGED <<wire, client, delivered, heard>>,
         \A a, b \in Nat : Gap(a, b) => Gap(a, b)',
         \A v \in Views : client = "up" /\ Sent(v) => Sent(v)'
  PROVE  Wire'
  <1>1. PICK views \in Seq(Views) : Forecast(views)
    BY DEF Wire
  <1>2. Len(views) \in Nat /\ Len(wire) \in Nat /\ Len(views) = Len(wire) + 1
    BY <1>1, LenProperties, Numbers DEF Forecast
  <1>3. \A i \in 1..Len(views) : views[i] \in Views
    BY <1>2
  <1>4. \A i \in 1..Len(wire) : Follows(views[i], wire[i], views[i + 1])'
    <2> SUFFICES ASSUME NEW i \in 1..Len(wire)
                 PROVE  Follows(views[i], wire[i], views[i + 1])'
      OBVIOUS
    <2>1. Follows(views[i], wire[i], views[i + 1])
      BY <1>1 DEF Forecast
    <2>2. views[i].event \in Nat /\ wire[i].n \in Nat
      <3>1. views[i] \in Views /\ wire[i] \in Items
        BY <1>2, <1>3, Numbers
      <3>2. QED
        BY <3>1, Numbers DEF Views
    <2>3. QED
      BY <2>1, <2>2 DEF Follows
  <1>5. client' = "up" => Sent(views[Len(views)])'
    BY <1>1, <1>2, <1>3 DEF Forecast
  <1>6. Shows(views[1])' /\ Paced(views)
    BY <1>1 DEF Forecast, Shows, LastHeard
  <1>7. Forecast(views)'
    BY <1>1, <1>4, <1>5, <1>6 DEF Forecast, Paced
  <1>8. QED
    BY <1>7 DEF Wire

(* A message sent extends the forecast by where it leads.                  *)
LEMMA WireSent ==
  ASSUME TypeOK, Wire, client = "up", NEW item \in Items, wire' = Append(wire, item),
         UNCHANGED <<client, delivered, heard, broadcasts>>,
         \A v \in Views : Sent(v) => \E w \in Views : Follows(v, item, w) /\ Sent(w)'
  PROVE  Wire'
  <1>1. PICK views \in Seq(Views) : Forecast(views)
    BY DEF Wire
  <1> DEFINE n == Len(views)
  <1>2. /\ n \in Nat /\ Len(wire) \in Nat /\ n = Len(wire) + 1
        /\ \A i \in 1..n : views[i] \in Views
    BY <1>1, LenProperties, Numbers DEF Forecast
  <1>3. PICK w \in Views : Follows(views[n], item, w) /\ Sent(w)'
    BY <1>1, <1>2 DEF Forecast
  <1> DEFINE longer == Append(views, w)
  <1>4. /\ longer \in Seq(Views) /\ Len(longer) = n + 1 /\ longer[n + 1] = w
        /\ \A i \in 1..n : longer[i] = views[i]
    BY <1>2, AppendProperties
  <1>5. /\ Len(wire') = n /\ wire'[n] = item
        /\ \A i \in 1..Len(wire) : wire'[i] = wire[i]
    BY <1>2, AppendProperties DEF TypeOK
  <1> HIDE DEF longer
  <1>6. \A i \in 1..Len(wire') : Follows(longer[i], wire'[i], longer[i + 1])
    <2> SUFFICES ASSUME NEW i \in 1..n PROVE Follows(longer[i], wire'[i], longer[i + 1])
      BY <1>5
    <2>1. CASE i = n
      BY <1>3, <1>4, <1>5, <2>1
    <2>2. CASE i \in 1..Len(wire)
      <3>1. i + 1 \in 1..n /\ i \in 1..n
        BY <1>2, <2>2
      <3>2. QED
        BY <1>1, <1>4, <1>5, <2>2, <3>1 DEF Forecast
    <2>3. QED
      BY <1>2, <2>1, <2>2
  <1>7. Paced(longer)
    <2>1. \A i \in 1..n : /\ views[i].response \in Nat
                          /\ views[i].response <= views[n].response
                          /\ views[n].response <= views[i].response + (n - i)
      <3> SUFFICES ASSUME NEW i \in 1..n
                   PROVE  /\ views[i].response \in Nat
                          /\ views[i].response <= views[n].response
                          /\ views[n].response <= views[i].response + (n - i)
        OBVIOUS
      <3>1. views[i].response \in Nat
        BY <1>2 DEF Views
      <3>2. CASE i = n
        BY <1>2, <3>1, <3>2
      <3>3. CASE i < n
        <4>1. n \in 1..n
          BY <1>2
        <4>2. QED
          BY <1>1, <3>1, <3>3, <4>1 DEF Forecast, Paced
      <3>4. QED
        BY <1>2, <3>2, <3>3
    <2>2. w.response \in Nat /\ w.response \in {views[n].response, views[n].response + 1}
      <3>1. views[n].response \in Nat /\ w.response \in Nat
        BY <1>2, <1>3 DEF Views
      <3>2. QED
        BY <1>3, <3>1 DEF Follows
    <2>3. ASSUME NEW i \in 1..n + 1, NEW j \in 1..n + 1, i < j
          PROVE  /\ longer[i].response <= longer[j].response
                 /\ longer[j].response <= longer[i].response + (j - i)
      <3>1. i \in 1..n
        BY <1>2, <2>3
      <3>2. CASE j = n + 1
        BY <1>2, <1>4, <2>1, <2>2, <3>1, <3>2, SMTT(20)
      <3>3. CASE j \in 1..n
        BY <1>1, <1>4, <2>3, <3>1, <3>3 DEF Forecast, Paced
      <3>4. QED
        BY <1>2, <3>2, <3>3
    <2>4. QED
      BY <1>4, <2>3 DEF Paced
  <1>8. Shows(longer[1])'
    <2>1. longer[1] = views[1]
      BY <1>2, <1>4
    <2>2. QED
      BY <1>1, <2>1 DEF Forecast, Shows, LastHeard
  <1>9. Forecast(longer)'
    BY <1>3, <1>4, <1>5, <1>6, <1>7, <1>8 DEF Forecast, Paced, Follows, Gap
  <1>10. QED
    BY <1>4, <1>9 DEF Wire

(* What the client reads next, what it has then, and how far it can be     *)
(* behind.                                                                 *)
LEMMA Front ==
  ASSUME TypeOK, Wire, wire # <<>>
  PROVE  \E v, w \in Views :
           /\ Shows(v) /\ Follows(v, Head(wire), w)
           /\ client = "up" => w.response <= accepted
  <1>1. PICK views \in Seq(Views) : Forecast(views)
    BY DEF Wire
  <1>2. /\ Len(views) \in Nat /\ Len(wire) \in Nat \ {0} /\ Len(views) = Len(wire) + 1
        /\ Head(wire) = wire[1]
    BY <1>1, LenProperties, EmptySeq, HeadTailProperties DEF Forecast, TypeOK
  <1>3. /\ 1 \in 1..Len(wire) /\ 1 \in 1..Len(views) /\ 2 \in 1..Len(views)
        /\ Len(views) \in 1..Len(views)
    BY <1>2
  <1>4. views[1] \in Views /\ views[2] \in Views /\ views[Len(views)] \in Views
    BY <1>3
  <1>5. Shows(views[1]) /\ Follows(views[1], Head(wire), views[2])
    <2>1. Follows(views[1], wire[1], views[1 + 1])
      BY <1>1, <1>3 DEF Forecast
    <2>2. QED
      BY <1>1, <1>2, <2>1 DEF Forecast
  <1>6. ASSUME client = "up" PROVE views[2].response <= accepted
    <2>1. views[Len(views)].response <= accepted
      BY <1>1, <1>6 DEF Forecast, Sent
    <2>2. views[2].response <= views[Len(views)].response
      <3>1. views[2].response \in Nat
        BY <1>4 DEF Views
      <3>2. CASE Len(views) = 2
        BY <3>1, <3>2
      <3>3. CASE 2 < Len(views)
        BY <1>1, <1>3, <3>3 DEF Forecast, Paced
      <3>4. QED
        BY <1>2, <3>2, <3>3
    <2>3. /\ views[2].response \in Nat /\ views[Len(views)].response \in Nat
          /\ accepted \in Nat
      BY <1>4, Numbers DEF Views
    <2>4. QED
      BY <2>1, <2>2, <2>3
  <1>7. QED
    BY <1>4, <1>5, <1>6

(* A socket with room holds fewer responses than it takes messages.        *)
LEMMA Room ==
  ASSUME TypeOK, Wire, client = "up", Len(wire) < WireCapacity, task["response"] # "ended"
  PROVE  Gone < delivered + WireCapacity
  <1>1. PICK views \in Seq(Views) : Forecast(views)
    BY DEF Wire
  <1>2. /\ Len(views) \in Nat /\ Len(wire) \in Nat /\ Len(views) = Len(wire) + 1
        /\ WireCapacity \in Nat /\ delivered \in Nat
    BY <1>1, LenProperties, Numbers DEF Forecast
  <1>3. 1 \in 1..Len(views) /\ Len(views) \in 1..Len(views)
    BY <1>2
  <1>4. views[1].response = delivered /\ views[Len(views)].response = Gone
    BY <1>1 DEF Forecast, Shows, Sent
  <1>5. views[1].response \in Nat /\ views[Len(views)].response \in Nat
    <2>1. views[1] \in Views /\ views[Len(views)] \in Views
      BY <1>3
    <2>2. QED
      BY <2>1 DEF Views
  <1>6. views[Len(views)].response <= views[1].response + (Len(views) - 1)
    <2>1. CASE Len(views) = 1
      BY <1>5, <2>1
    <2>2. CASE 1 < Len(views)
      BY <1>1, <1>3, <2>2 DEF Forecast, Paced
    <2>3. QED
      BY <1>2, <2>1, <2>2
  <1>7. QED
    BY <1>2, <1>4, <1>5, <1>6

(* Reading takes the client one place along the forecast.                  *)
LEMMA WireRead ==
  ASSUME TypeOK, Wire, client = "up", wire # <<>>, wire' = Tail(wire),
         UNCHANGED <<client, accepted, queue, task, hand, nextEvent, broadcasts>>,
         \A v, w \in Views : Shows(v) /\ Follows(v, Head(wire), w) => Shows(w)'
  PROVE  Wire'
  <1>1. PICK views \in Seq(Views) : Forecast(views)
    BY DEF Wire
  <1> DEFINE shorter == Tail(views)
  <1>2. Len(views) \in Nat /\ Len(wire) \in Nat \ {0} /\ Len(views) = Len(wire) + 1
    BY <1>1, LenProperties, EmptySeq DEF Forecast, TypeOK
  <1>3. views # <<>>
    BY <1>2, EmptySeq
  <1>4. /\ shorter \in Seq(Views) /\ Len(shorter) = Len(wire)
        /\ \A i \in 1..Len(shorter) : shorter[i] = views[i + 1]
    BY <1>2, <1>3, HeadTailProperties
  <1>5. /\ Len(wire') = Len(wire) - 1 /\ Head(wire) = wire[1]
        /\ \A i \in 1..Len(wire') : wire'[i] = wire[i + 1]
    BY HeadTailProperties DEF TypeOK
  <1> HIDE DEF shorter
  <1>6. \A i \in 1..Len(wire') : Follows(shorter[i], wire'[i], shorter[i + 1])
    <2> SUFFICES ASSUME NEW i \in 1..Len(wire')
                 PROVE  Follows(shorter[i], wire'[i], shorter[i + 1])
      OBVIOUS
    <2>1. i + 1 \in 1..Len(wire) /\ i \in 1..Len(shorter) /\ i + 1 \in 1..Len(shorter)
      BY <1>2, <1>4, <1>5
    <2>2. Follows(views[i + 1], wire[i + 1], views[(i + 1) + 1])
      BY <1>1, <2>1 DEF Forecast
    <2>3. QED
      BY <1>4, <1>5, <2>1, <2>2
  <1>7. Paced(shorter)
    <2> SUFFICES ASSUME NEW i \in 1..Len(shorter), NEW j \in 1..Len(shorter), i < j
                 PROVE  /\ shorter[i].response <= shorter[j].response
                        /\ shorter[j].response <= shorter[i].response + (j - i)
      BY DEF Paced
    <2>1. /\ i + 1 \in 1..Len(views) /\ j + 1 \in 1..Len(views) /\ i + 1 < j + 1
          /\ (j + 1) - (i + 1) = j - i
      BY <1>2, <1>4
    <2>2. QED
      BY <1>1, <1>4, <2>1 DEF Forecast, Paced
  <1>8. Shows(shorter[1])'
    <2>1. 1 \in 1..Len(views) /\ 2 \in 1..Len(views) /\ 1 \in 1..Len(wire) /\ 1 \in 1..Len(shorter)
      BY <1>2, <1>4
    <2>2. Follows(views[1], wire[1], views[1 + 1])
      BY <1>1, <2>1 DEF Forecast
    <2>3. /\ views[1] \in Views /\ views[2] \in Views /\ Shows(views[1])
          /\ Follows(views[1], Head(wire), views[2])
      BY <1>1, <1>5, <2>1, <2>2 DEF Forecast
    <2>4. shorter[1] = views[2]
      BY <1>4, <2>1
    <2>5. QED
      BY <2>3, <2>4
  <1>9. client' = "up" => Sent(shorter[Len(shorter)])'
    <2>1. shorter[Len(shorter)] = views[Len(views)]
      BY <1>2, <1>4
    <2>2. QED
      BY <1>1, <2>1 DEF Forecast, Sent, Gone, Gap
  <1>10. Forecast(shorter)'
    <2>1. Len(shorter) = Len(wire') + 1
      BY <1>2, <1>4, <1>5
    <2>2. QED
      BY <1>6, <1>7, <1>8, <1>9, <2>1 DEF Forecast, Paced, Follows, Gap
  <1>11. QED
    BY <1>4, <1>10 DEF Wire

(***************************************************************************)
(* The steps, one lemma for each part of the connection.                   *)
(***************************************************************************)
LEMMA InitIInv == Init => IInv
  <1> SUFFICES ASSUME Init PROVE IInv
    OBVIOUS
  <1>1. /\ QueueCapacity \in Nat /\ WireCapacity \in Nat /\ EventCapacity \in Nat \ {0}
        /\ MaxResponses \in Nat /\ MaxEvents \in Nat /\ MaxTicks \in Nat
        /\ Len(queue) = 0 /\ Len(wire) = 0 /\ Len(waiters) = 0 /\ Len(heard) = 0
    BY ConnectionAssumption, EmptySeq DEF Init
  <1>2. TypeOK
    <2>1. inbox \in Seq(Messages)
      BY ConnectionAssumption DEF Init, Messages
    <2>2. waiters \in Seq(Users) /\ Len(waiters) <= Cardinality(Users)
      <3>1. waiters \in Seq(Users) /\ \A i, j \in 1..Len(waiters) : waiters[i] = waiters[j] => i = j
        BY <1>1, EmptySeq DEF Init
      <3>2. QED
        BY <3>1, Bounded
    <2>3. queue \in Seq(1..MaxResponses) /\ wire \in Seq(Items) /\ heard \in Seq(1..MaxEvents)
      BY EmptySeq DEF Init
    <2>4. /\ task \in [Tasks -> {"waiting", "sending", "ended"}] /\ hand \in [Users -> Items]
      BY DEF Init, Items
    <2>5. /\ accepted \in 0..MaxResponses /\ discarded \in 0..MaxResponses
          /\ broadcasts \in 0..MaxEvents /\ nextEvent \in 1..(MaxEvents + 1)
          /\ ticks \in 0..MaxTicks /\ delivered \in 0..MaxResponses /\ handled \in Nat
          /\ Len(queue) <= QueueCapacity /\ Len(wire) <= WireCapacity
      BY <1>1 DEF Init
    <2>6. QED
      BY <2>1, <2>2, <2>3, <2>4, <2>5 DEF Init, TypeOK
  <1>3. Wire
    <2> DEFINE v == [response |-> 0, event |-> 0]
    <2>1. v \in Views
      BY DEF Views
    <2>2. <<v>> \in Seq(Views) /\ Len(<<v>>) = 1 /\ <<v>>[1] = v
      BY <2>1
    <2>3. Shows(v)
      BY DEF Init, Shows, LastHeard
    <2>4. Sent(v)
      <3>1. /\ accepted = 0 /\ nextEvent = 1
            /\ task["response"] = "waiting" /\ task["event"] = "waiting"
        BY DEF Init, Tasks
      <3>2. Gone = 0 /\ Gap(0, nextEvent)
        BY <1>1, <3>1 DEF Gone, Gap
      <3>3. QED
        BY <3>1, <3>2 DEF Sent
    <2>5. Forecast(<<v>>)
      BY <1>1, <2>2, <2>3, <2>4 DEF Forecast, Paced
    <2>6. QED
      BY <2>2, <2>5 DEF Wire
  <1>4. Queue
    BY <1>1 DEF Init, Queue, Gone, Tasks
  <1>5. Mutex
    BY <1>1 DEF Init, Mutex, Kinds, Nothing, Item, Users, Tasks
  <1>6. Closing /\ Ring
    BY <1>1 DEF Init, Closing, Ring
  <1>7. QED
    BY <1>2, <1>3, <1>4, <1>5, <1>6 DEF IInv

(* A task that waits is not in the queue of the mutex. *)
LEMMA Waiting ==
  ASSUME Mutex, NEW t \in Tasks, task[t] = "waiting"
  PROVE  \A i \in 1..Len(waiters) : waiters[i] # t
  BY DEF Mutex, Tasks

(* The response task takes the oldest response from the queue.             *)
LEMMA TakeResponseKeeps == IInv /\ TakeResponse => IInv'
  <1> SUFFICES ASSUME IInv, TakeResponse PROVE IInv'
    OBVIOUS
  <1> USE DEF readerVars, taskVars, queueVars, sourceVars, clientVars
  <1>1. TypeOK /\ Wire /\ Queue /\ Mutex /\ Closing /\ Ring
    BY DEF IInv
  <1>2. /\ queue # <<>> /\ queue' \in Seq(1..MaxResponses) /\ Len(queue') = Len(queue) - 1
        /\ Len(queue) \in Nat \ {0} /\ Head(queue) = queue[1] /\ Head(queue) \in 1..MaxResponses
        /\ \A i \in 1..Len(queue') : queue'[i] = queue[i + 1]
    <2>1. queue \in Seq(1..MaxResponses) /\ queue # <<>> /\ queue' = Tail(queue)
      BY <1>1 DEF TakeResponse, TypeOK
    <2> DEFINE S == 1..MaxResponses
    <2>2. queue \in Seq(S)
      BY <2>1
    <2> HIDE DEF S
    <2>3. /\ queue' \in Seq(S) /\ Len(queue') = Len(queue) - 1
          /\ Head(queue) = queue[1] /\ Head(queue) \in S
          /\ \A i \in 1..Len(queue') : queue'[i] = queue[i + 1]
      BY <2>1, <2>2, HeadTailProperties
    <2>4. Len(queue) \in Nat \ {0}
      BY <2>1, <2>2, EmptySeq
    <2>5. QED
      BY <2>1, <2>3, <2>4 DEF S
  <1>3. Head(queue) = accepted - Len(queue) + 1
    BY <1>1, <1>2 DEF Queue
  <1>4. Item("response", Head(queue)) \in Items
    BY <1>2 DEF Items
  <1>5. /\ task["response"] = "waiting" /\ task'["response"] = "sending"
        /\ \A t \in Tasks \ {"response"} : task'[t] = task[t]
        /\ task' \in [Tasks -> {"waiting", "sending", "ended"}]
    BY <1>1 DEF TakeResponse, TypeOK, Tasks
  <1>6. /\ Mutex' /\ waiters' \in Seq(Users) /\ Len(waiters') <= Cardinality(Users)
        /\ hand' \in [Users -> Items]
        /\ hand'["response"] = Item("response", Head(queue)) /\ hand'["event"] = hand["event"]
    <2>1. "response" \in Users /\ "event" \in Users \ {"response"} /\ "response" \in Tasks
      BY DEF Users, Tasks
    <2>2. Item("response", Head(queue)).kind \in Kinds("response")
      BY DEF Item, Kinds
    <2>3. \A i \in 1..Len(waiters) : waiters[i] # "response"
      BY <1>1, <1>5, <2>1, Waiting
    <2>4. Lock("response", Item("response", Head(queue))) /\ handler' = handler
      BY DEF TakeResponse
    <2>5. QED
      BY <1>1, <1>4, <1>5, <2>1, <2>2, <2>3, <2>4, Locked
  <1>7. TypeOK'
    <2>1. Len(queue') <= QueueCapacity
      BY <1>1, <1>2, ConnectionAssumption DEF TypeOK
    <2>2. QED
      BY <1>1, <1>2, <1>5, <1>6, <2>1 DEF TakeResponse, TypeOK
  <1>8. accepted \in Nat /\ Gone' = Gone
    BY <1>1, <1>2, <1>5, Numbers DEF Gone, TakeResponse
  <1>9. Wire'
    <2>1. "event" \in Tasks \ {"response"}
      BY DEF Tasks
    <2>2. \A v \in Views : Sent(v) => Sent(v)'
      BY <1>5, <1>6, <1>8, <2>1 DEF Sent, Gap, TakeResponse
    <2>3. QED
      BY <1>1, <2>2, WireUntouched DEF TakeResponse, Gap
  <1>10. Queue'
    <2>1. \A i \in 1..Len(queue') : queue'[i] = accepted - Len(queue') + i
      <3> SUFFICES ASSUME NEW i \in 1..Len(queue') PROVE queue'[i] = accepted - Len(queue') + i
        OBVIOUS
      <3>1. i + 1 \in 1..Len(queue)
        BY <1>2
      <3>2. queue[i + 1] = accepted - Len(queue) + (i + 1)
        BY <1>1, <3>1 DEF Queue
      <3>3. QED
        BY <1>2, <1>8, <3>2
    <2>2. Len(queue') < accepted /\ accepted - Len(queue') = accepted - Len(queue) + 1
      BY <1>1, <1>2, <1>8 DEF Queue
    <2>3. QED
      BY <1>1, <1>3, <1>5, <1>6, <1>8, <2>1, <2>2 DEF Queue, TakeResponse
  <1>11. Closing' /\ Ring'
    BY <1>1 DEF Closing, Ring, Gap, TakeResponse
  <1>12. QED
    BY <1>6, <1>7, <1>9, <1>10, <1>11 DEF IInv

(* The event task takes the event it is due, if the ring still has it.     *)
LEMMA TakeEventKeeps == IInv /\ TakeEvent => IInv'
  <1> SUFFICES ASSUME IInv, TakeEvent PROVE IInv'
    OBVIOUS
  <1> USE DEF readerVars, taskVars, queueVars, sourceVars, clientVars
  <1>1. TypeOK /\ Wire /\ Queue /\ Mutex /\ Closing /\ Ring
    BY DEF IInv
  <1>2. /\ nextEvent \in 1..MaxEvents /\ nextEvent <= broadcasts /\ nextEvent' = nextEvent + 1
        /\ broadcasts \in Nat /\ nextEvent \in Nat /\ EventCapacity \in Nat \ {0}
        /\ MaxEvents \in Nat
    <2>1. /\ nextEvent \in Nat \ {0} /\ EventCapacity \in Nat \ {0} /\ MaxEvents \in Nat
          /\ broadcasts \in 0..MaxEvents
      BY <1>1, Numbers DEF TypeOK
    <2>2. nextEvent \in Oldest..broadcasts /\ nextEvent' = nextEvent + 1
      BY DEF TakeEvent
    <2>3. QED
      BY <2>1, <2>2 DEF Oldest
  <1>3. Item("event", nextEvent) \in Items
    BY <1>2 DEF Items
  <1>4. /\ task["event"] = "waiting" /\ task'["event"] = "sending"
        /\ \A t \in Tasks \ {"event"} : task'[t] = task[t]
        /\ task' \in [Tasks -> {"waiting", "sending", "ended"}]
    BY <1>1 DEF TakeEvent, TypeOK, Tasks
  <1>5. /\ Mutex' /\ waiters' \in Seq(Users) /\ Len(waiters') <= Cardinality(Users)
        /\ hand' \in [Users -> Items]
        /\ hand'["event"] = Item("event", nextEvent) /\ hand'["response"] = hand["response"]
    <2>1. "event" \in Users /\ "response" \in Users \ {"event"} /\ "event" \in Tasks
      BY DEF Users, Tasks
    <2>2. Item("event", nextEvent).kind \in Kinds("event")
      BY DEF Item, Kinds
    <2>3. \A i \in 1..Len(waiters) : waiters[i] # "event"
      BY <1>1, <1>4, <2>1, Waiting
    <2>4. Lock("event", Item("event", nextEvent)) /\ handler' = handler
      BY DEF TakeEvent
    <2>5. QED
      BY <1>1, <1>3, <1>4, <2>1, <2>2, <2>3, <2>4, Locked
  <1>6. TypeOK'
    BY <1>1, <1>2, <1>4, <1>5 DEF TakeEvent, TypeOK
  <1>7. task'["response"] = task["response"] /\ Gone' = Gone
    <2>1. "response" \in Tasks \ {"event"}
      BY DEF Tasks
    <2>2. QED
      BY <1>4, <2>1 DEF Gone, TakeEvent
  <1>8. Wire'
    <2>1. \A v \in Views : Sent(v) => Sent(v)'
      <3> SUFFICES ASSUME NEW v \in Views, Sent(v) PROVE Sent(v)'
        OBVIOUS
      <3>1. hand'["event"].n = nextEvent
        BY <1>5 DEF Item
      <3>2. Gap(v.event, hand["event"].n)' /\ Gap(hand["event"].n, nextEvent)'
        <4>1. Gap(v.event, nextEvent) /\ broadcasts' = broadcasts
          BY <1>4 DEF Sent, TakeEvent
        <4>2. QED
          BY <1>2, <3>1, <4>1 DEF Gap
      <3>3. task'["event"] # "waiting" /\ accepted' = accepted
        BY <1>4 DEF TakeEvent
      <3>4. QED
        BY <1>2, <1>7, <3>1, <3>2, <3>3 DEF Sent
    <2>2. QED
      BY <1>1, <2>1, WireUntouched DEF TakeEvent, Gap
  <1>9. Queue'
    BY <1>1, <1>5, <1>7 DEF Queue, TakeEvent
  <1>10. Closing' /\ Ring'
    BY <1>1, <1>2 DEF Closing, Ring, Gap, TakeEvent
  <1>11. QED
    BY <1>5, <1>6, <1>8, <1>9, <1>10 DEF IInv

(* A receiver that lags skips what the ring has lost.                      *)
LEMMA LaggedKeeps == IInv /\ Lagged => IInv'
  <1> SUFFICES ASSUME IInv, Lagged PROVE IInv'
    OBVIOUS
  <1> USE DEF readerVars, taskVars, queueVars, sourceVars, clientVars
  <1>1. TypeOK /\ Wire /\ Queue /\ Mutex /\ Closing /\ Ring
    BY DEF IInv
  <1>2. /\ broadcasts \in Nat /\ nextEvent \in Nat /\ EventCapacity \in Nat \ {0}
        /\ MaxEvents \in Nat /\ broadcasts <= MaxEvents
        /\ nextEvent < nextEvent' /\ nextEvent' = broadcasts - EventCapacity + 1
        /\ nextEvent' \in 1..(MaxEvents + 1) /\ nextEvent' <= broadcasts + 1
        /\ broadcasts' = broadcasts
    <2>1. /\ broadcasts \in 0..MaxEvents /\ nextEvent \in Nat \ {0} /\ EventCapacity \in Nat \ {0}
          /\ MaxEvents \in Nat
      BY <1>1, Numbers DEF TypeOK
    <2>2. nextEvent < Oldest /\ nextEvent' = Oldest /\ broadcasts' = broadcasts
      BY DEF Lagged
    <2>3. Oldest = broadcasts - EventCapacity + 1
      BY <2>1, <2>2 DEF Oldest
    <2>4. QED
      BY <2>1, <2>2, <2>3
  <1>3. TypeOK'
    BY <1>1, <1>2 DEF Lagged, TypeOK
  <1>4. \A a \in Nat : Gap(a, nextEvent) => Gap(a, nextEvent)'
    BY <1>2 DEF Gap
  <1>5. Wire'
    <2>1. \A v \in Views : Sent(v) => Sent(v)'
      <3> SUFFICES ASSUME NEW v \in Views, Sent(v) PROVE Sent(v)'
        OBVIOUS
      <3>1. v.event \in Nat
        BY DEF Views
      <3>2. task' = task /\ hand' = hand /\ accepted' = accepted /\ Gone' = Gone
        BY DEF Lagged, Gone
      <3>3. task["event"] = "waiting"
        BY DEF Lagged
      <3>4. QED
        BY <1>4, <3>1, <3>2, <3>3 DEF Sent
    <2>2. QED
      BY <1>1, <2>1, WireUntouched DEF Lagged, Gap
  <1>6. Queue' /\ Mutex' /\ Closing' /\ Ring'
    BY <1>1, <1>2 DEF Queue, Gone, Mutex, Closing, Ring, Gap, Lagged
  <1>7. QED
    BY <1>3, <1>5, <1>6 DEF IInv

(* A heartbeat.                                                            *)
LEMMA TickKeeps == IInv /\ Tick => IInv'
  <1> SUFFICES ASSUME IInv, Tick PROVE IInv'
    OBVIOUS
  <1> USE DEF readerVars, taskVars, queueVars, sourceVars, clientVars
  <1>1. TypeOK /\ Wire /\ Queue /\ Mutex /\ Closing /\ Ring
    BY DEF IInv
  <1>2. /\ task["ping"] = "waiting" /\ task'["ping"] = "sending"
        /\ task'["response"] = task["response"] /\ task'["event"] = task["event"]
        /\ task' \in [Tasks -> {"waiting", "sending", "ended"}]
    BY <1>1 DEF Tick, TypeOK, Tasks
  <1>3. /\ Mutex' /\ waiters' \in Seq(Users) /\ Len(waiters') <= Cardinality(Users)
        /\ hand' \in [Users -> Items]
        /\ hand'["response"] = hand["response"] /\ hand'["event"] = hand["event"]
    <2>1. /\ "ping" \in Users /\ "response" \in Users \ {"ping"} /\ "event" \in Users \ {"ping"}
          /\ "ping" \in Tasks /\ Tasks = {"response", "event", "ping"}
      BY DEF Users, Tasks
    <2>2. Item("ping", 0).kind \in Kinds("ping") /\ Item("ping", 0) \in Items
      BY DEF Item, Kinds, Items
    <2>3. \A i \in 1..Len(waiters) : waiters[i] # "ping"
      BY <1>1, <1>2, <2>1, Waiting
    <2>4. Lock("ping", Item("ping", 0)) /\ handler' = handler
      BY DEF Tick
    <2>5. \A t \in Tasks : task[t] = "sending" \/ t = "ping" => task'[t] = "sending"
      BY <1>2, <2>1
    <2>6. QED
      BY <1>1, <2>1, <2>2, <2>3, <2>4, <2>5, Locked
  <1>4. ticks' \in 0..MaxTicks
    BY <1>1, ConnectionAssumption DEF Tick, TypeOK
  <1>5. TypeOK'
    BY <1>1, <1>2, <1>3, <1>4 DEF Tick, TypeOK
  <1>6. Wire'
    <2>1. \A v \in Views : Sent(v) => Sent(v)'
      BY <1>2, <1>3 DEF Sent, Gap, Gone, Tick
    <2>2. QED
      BY <1>1, <2>1, WireUntouched DEF Tick, Gap
  <1>7. Queue' /\ Closing' /\ Ring'
    BY <1>1, <1>2, <1>3 DEF Queue, Gone, Closing, Ring, Gap, Tick
  <1>8. QED
    BY <1>3, <1>5, <1>6, <1>7 DEF IInv

(* A task's message goes to the socket.                                    *)
LEMMA TaskSendsKeeps ==
  ASSUME IInv, NEW t \in Tasks, TaskSends(t)
  PROVE  IInv'
  <1> USE DEF readerVars, taskVars, queueVars, sourceVars, clientVars
  <1>1. TypeOK /\ Wire /\ Queue /\ Mutex /\ Closing /\ Ring
    BY DEF IInv
  <1>2. /\ task[t] = "sending" /\ task'[t] = "waiting"
        /\ \A u \in Tasks \ {t} : task'[u] = task[u]
        /\ task' \in [Tasks -> {"waiting", "sending", "ended"}]
    BY <1>1 DEF TaskSends, TypeOK
  <1>3. /\ client = "up" /\ Len(wire) < WireCapacity /\ wire' = Append(wire, hand[t])
        /\ Unlock(t)
        /\ UNCHANGED <<inbox, handled, commandRx, handler, closing, accepted, discarded, queue,
                       broadcasts, nextEvent, ticks, client, delivered, heard>>
    BY DEF TaskSends, SocketTakes
  <1>4. /\ Mutex' /\ waiters' \in Seq(Users) /\ Len(waiters') <= Cardinality(Users)
        /\ hand' \in [Users -> Items]
        /\ \A u \in Users \ {t} : hand'[u] = hand[u]
    <2>1. t \in Users
      BY DEF Users
    <2>2. QED
      BY <1>1, <1>2, <1>3, <2>1, Unlocked
  <1>5. hand[t] \in Items /\ hand[t].kind \in Kinds(t)
    BY <1>1 DEF TypeOK, Mutex, Users
  <1>6. wire' \in Seq(Items) /\ Len(wire') <= WireCapacity
    <2>1. wire' \in Seq(Items) /\ Len(wire') = Len(wire) + 1 /\ Len(wire) \in Nat
      BY <1>1, <1>3, <1>5, AppendProperties, LenProperties DEF TypeOK
    <2>2. QED
      BY <1>3, <2>1, ConnectionAssumption
  <1>7. TypeOK'
    BY <1>1, <1>2, <1>3, <1>4, <1>6 DEF TypeOK
  <1>8. "response" \in Tasks /\ "event" \in Tasks /\ Tasks \subseteq Users
        /\ Tasks = {"response", "event", "ping"}
    BY DEF Tasks, Users
  <1>9. /\ accepted \in Nat /\ Len(queue) \in Nat /\ nextEvent \in Nat /\ broadcasts \in Nat
        /\ EventCapacity \in Nat /\ hand[t].n \in Nat /\ (hand[t].kind = "none" => hand[t].n = 0)
        /\ delivered \in Nat /\ WireCapacity \in Nat
    BY <1>1, <1>5, Numbers
  <1>10. CASE t = "response"
    <2>1. /\ Len(queue) < accepted /\ hand[t] = Item("response", accepted - Len(queue))
      BY <1>1, <1>2, <1>10 DEF Queue
    <2>2. Gone = accepted - Len(queue) - 1 /\ Gone' = Gone + 1 /\ Gone \in Nat
      BY <1>2, <1>3, <1>9, <1>10, <2>1 DEF Gone
    <2>3. task'["event"] = task["event"] /\ hand'["event"] = hand["event"]
      BY <1>2, <1>4, <1>8, <1>10
    <2>4. ASSUME NEW v \in Views, Sent(v)
          PROVE  \E w \in Views : Follows(v, hand[t], w) /\ Sent(w)'
      <3>1. v.response = Gone /\ v.event \in Nat
        BY <1>2, <1>10, <2>4 DEF Sent, Views
      <3>2. PICK w \in Views : w = [response |-> Gone + 1, event |-> v.event]
        <4>1. Gone + 1 \in Nat
          BY <2>2
        <4>2. QED
          BY <3>1, <4>1 DEF Views
      <3>3. Follows(v, hand[t], w)
        BY <1>9, <2>1, <2>2, <3>1, <3>2 DEF Follows, Item
      <3>4. w.response <= accepted' /\ w.response = Gone'
        BY <1>3, <1>9, <2>2, <3>2
      <3>5. Sent(w)'
        BY <1>3, <2>3, <2>4, <3>2, <3>4 DEF Sent, Gap
      <3>6. QED
        BY <3>3, <3>5
    <2>5. Wire'
      BY <1>1, <1>3, <1>5, <2>4, WireSent
    <2>6. Gone' <= delivered' + WireCapacity
      <3>1. Gone < delivered + WireCapacity
        BY <1>1, <1>2, <1>3, <1>10, Room
      <3>2. QED
        BY <1>3, <1>9, <2>2, <3>1
    <2>7. Queue'
      BY <1>1, <1>2, <1>3, <1>10, <2>6 DEF Queue
    <2>8. Closing' /\ Ring'
      BY <1>1, <1>3 DEF Closing, Ring, Gap
    <2>9. QED
      BY <1>4, <1>7, <2>5, <2>7, <2>8 DEF IInv
  <1>11. CASE t # "response"
    <2>1. /\ task'["response"] = task["response"] /\ hand'["response"] = hand["response"]
      BY <1>2, <1>4, <1>8, <1>11
    <2>2. Gone' = Gone
      BY <1>3, <2>1 DEF Gone
    <2>3. ASSUME NEW v \in Views, Sent(v)
          PROVE  \E w \in Views : Follows(v, hand[t], w) /\ Sent(w)'
      <3>1. v.response \in Nat /\ v.event \in Nat /\ v.response <= accepted
            /\ (task["response"] # "ended" => v.response = Gone)
        BY <2>3 DEF Views, Sent
      <3>2. CASE t = "event"
        <4>1. Gap(v.event, hand[t].n) /\ Gap(hand[t].n, nextEvent)
          BY <1>2, <2>3, <3>2 DEF Sent
        <4>2. hand[t].kind = "event"
          <5>1. hand[t].n # 0
            BY <1>9, <3>1, <4>1 DEF Gap
          <5>2. QED
            BY <1>5, <1>9, <3>2, <5>1 DEF Kinds
        <4>3. PICK w \in Views : w = [response |-> v.response, event |-> hand[t].n]
          BY <1>9, <3>1 DEF Views
        <4>4. Follows(v, hand[t], w)
          BY <4>1, <4>2, <4>3 DEF Follows
        <4>5. Sent(w)'
          BY <1>2, <1>3, <2>1, <2>2, <3>1, <3>2, <4>1, <4>3 DEF Sent, Gap
        <4>6. QED
          BY <4>4, <4>5
      <3>3. CASE t = "ping"
        <4>1. hand[t].kind \in {"none", "ping"}
          BY <1>5, <3>3 DEF Kinds
        <4>2. Follows(v, hand[t], v)
          BY <4>1 DEF Follows
        <4>3. task'["event"] = task["event"] /\ hand'["event"] = hand["event"]
          BY <1>2, <1>4, <1>8, <3>3
        <4>4. Sent(v)'
          BY <1>3, <2>1, <2>2, <2>3, <4>3 DEF Sent, Gap
        <4>5. QED
          BY <4>2, <4>4
      <3>4. QED
        BY <1>8, <1>11, <3>2, <3>3
    <2>4. Wire'
      BY <1>1, <1>3, <1>5, <2>3, WireSent
    <2>5. Queue' /\ Closing' /\ Ring'
      BY <1>1, <1>3, <2>1, <2>2 DEF Queue, Closing, Ring, Gap
    <2>6. QED
      BY <1>4, <1>7, <2>4, <2>5 DEF IInv
  <1>12. QED
    BY <1>10, <1>11

(* A task that ends loses what it held and, the response task, the queue.  *)
LEMMA EndKeeps ==
  ASSUME IInv, NEW t \in Tasks, TaskEnds(t), UNCHANGED wire, Mutex',
         waiters' \in Seq(Users), Len(waiters') <= Cardinality(Users),
         hand' \in [Users -> Items], \A u \in Users \ {t} : hand'[u] = hand[u]
  PROVE  IInv'
  <1> USE DEF readerVars, taskVars, queueVars, sourceVars, clientVars
  <1>1. TypeOK /\ Wire /\ Queue /\ Mutex /\ Closing /\ Ring
    BY DEF IInv
  <1>2. /\ task'[t] = "ended" /\ \A u \in Tasks \ {t} : task'[u] = task[u]
        /\ task' \in [Tasks -> {"waiting", "sending", "ended"}]
    BY <1>1 DEF TaskEnds, TypeOK
  <1>3. /\ UNCHANGED <<inbox, handled, commandRx, handler, closing, accepted, discarded,
                       broadcasts, nextEvent, ticks, wire, client, delivered, heard>>
        /\ queue' = IF t = "response" THEN <<>> ELSE queue
    BY DEF TaskEnds
  <1>4. /\ queue' \in Seq(1..MaxResponses) /\ Len(queue') <= QueueCapacity
    <2>1. Len(<<>>) = 0 /\ <<>> \in Seq(1..MaxResponses) /\ QueueCapacity \in Nat
      BY EmptySeq, ConnectionAssumption
    <2>2. CASE t = "response"
      BY <1>3, <2>1, <2>2
    <2>3. CASE t # "response"
      BY <1>1, <1>3, <2>3 DEF TypeOK
    <2>4. QED
      BY <2>2, <2>3
  <1>5. TypeOK'
    BY <1>1, <1>2, <1>3, <1>4 DEF TypeOK
  <1>6. "response" \in Tasks /\ "event" \in Tasks /\ Tasks \subseteq Users
    BY DEF Tasks, Users
  <1>7. accepted \in Nat /\ Len(queue) \in Nat /\ Gone \in Int
    BY <1>1, Numbers, SMTT(20) DEF Gone
  <1>8. t # "response" => /\ Gone' = Gone /\ task'["response"] = task["response"]
                          /\ hand'["response"] = hand["response"]
    BY <1>2, <1>3, <1>6 DEF Gone
  <1>9. t # "event" => task'["event"] = task["event"] /\ hand'["event"] = hand["event"]
    BY <1>2, <1>6
  <1>10. Wire'
    <2>1. ASSUME NEW v \in Views, Sent(v) PROVE Sent(v)'
      <3>1. v.response <= accepted'
        BY <1>3, <2>1 DEF Sent
      <3>2. task'["response"] # "ended" => v.response = Gone'
        BY <1>2, <1>8, <2>1 DEF Sent
      <3>3. /\ task'["event"] = "waiting" => Gap(v.event, nextEvent)'
            /\ task'["event"] = "sending" =>
                 Gap(v.event, hand["event"].n)' /\ Gap(hand["event"].n, nextEvent)'
        BY <1>2, <1>3, <1>9, <2>1 DEF Sent, Gap
      <3>4. QED
        BY <3>1, <3>2, <3>3 DEF Sent
    <2>2. QED
      BY <1>1, <1>3, <2>1, WireUntouched DEF Gap
  <1>11. Queue'
    <2>1. CASE t = "response"
      <3>1. queue' = <<>> /\ Len(queue') = 0 /\ task'["response"] = "ended"
        BY <1>2, <1>3, <2>1, EmptySeq
      <3>2. 1..Len(queue') = {} /\ Len(queue') <= accepted'
        BY <1>3, <1>7, <3>1
      <3>3. /\ accepted' + discarded' <= MaxResponses
            /\ client' = "gone" => wire' = <<>>
        BY <1>1, <1>3 DEF Queue
      <3>4. QED
        BY <3>1, <3>2, <3>3 DEF Queue
    <2>2. CASE t # "response"
      BY <1>1, <1>3, <1>8, <2>2 DEF Queue
    <2>3. QED
      BY <2>1, <2>2
  <1>12. Closing' /\ Ring'
    BY <1>1, <1>3 DEF Closing, Ring, Gap
  <1>13. QED
    BY <1>5, <1>10, <1>11, <1>12 DEF IInv

(* A task ends: the response task drops its queue.                         *)
LEMMA TaskEndsKeeps ==
  ASSUME IInv, NEW t \in Tasks, TaskSendFails(t) \/ TaskSeesClose(t)
  PROVE  IInv'
  <1> USE DEF readerVars, taskVars, queueVars, sourceVars, clientVars
  <1>1. TypeOK /\ Mutex /\ t \in Users /\ Tasks \subseteq Users
    BY DEF IInv, Users
  <1>2. TaskEnds(t) /\ UNCHANGED <<wire, handler>>
    BY DEF TaskSendFails, TaskSeesClose, SocketFails, TaskEnds
  <1>3. \A u \in Tasks \ {t} : task'[u] = task[u]
    BY <1>1, <1>2 DEF TaskEnds, TypeOK
  <1>4. CASE TaskSendFails(t)
    <2>1. Unlock(t)
      BY <1>4 DEF TaskSendFails, SocketFails
    <2>2. QED
      BY <1>1, <1>2, <1>3, <2>1, Unlocked, EndKeeps
  <1>5. CASE TaskSeesClose(t)
    <2>1. task[t] = "waiting" /\ UNCHANGED <<hand, waiters>>
      BY <1>5 DEF TaskSeesClose
    <2>2. \A i \in 1..Len(waiters) : waiters[i] # t
      BY <1>1, <2>1, Waiting
    <2>3. Mutex'
      BY <1>1, <1>2, <1>3, <2>1, <2>2 DEF Mutex
    <2>4. QED
      BY <1>1, <1>2, <2>1, <2>3, EndKeeps DEF TypeOK
  <1>6. QED
    BY <1>4, <1>5

(* A step of the reader alone.                                             *)
LEMMA ReaderAlone ==
  ASSUME IInv, UNCHANGED <<taskVars, queueVars, sourceVars, clientVars>>,
         inbox' \in Seq(Messages), handled' \in Nat, commandRx' \in BOOLEAN,
         handler' \in {"reading", "answering", "closing", "ended"}, closing' \in BOOLEAN,
         handler = "answering" => handler' = "answering", Closing'
  PROVE  IInv'
  <1> USE DEF taskVars, queueVars, sourceVars, clientVars
  <1>1. TypeOK /\ Wire /\ Queue /\ Mutex /\ Closing /\ Ring
    BY DEF IInv
  <1>2. TypeOK'
    BY <1>1 DEF TypeOK
  <1>3. Wire'
    BY <1>1, WireUntouched DEF Sent, Gap, Gone
  <1>4. Mutex'
    BY <1>1 DEF Mutex
  <1>5. Queue' /\ Ring'
    BY <1>1 DEF Queue, Gone, Ring, Gap
  <1>6. QED
    BY <1>2, <1>3, <1>4, <1>5 DEF IInv

(* The reader passes a command on, drops a binary message, leaves or       *)
(* returns.                                                                *)
LEMMA ReaderKeeps ==
  ASSUME IInv, ReadCommand \/ ReadBinary \/ ReadEnd \/ Return \/ CommandHandlerStops
  PROVE  IInv'
  <1>1. /\ inbox \in Seq(Messages) /\ handled \in Nat /\ commandRx \in BOOLEAN
        /\ handler \in {"reading", "answering", "closing", "ended"} /\ closing \in BOOLEAN
        /\ Closing
    BY DEF IInv, TypeOK
  <1>2. /\ <<>> \in Seq(Messages)
        /\ inbox # <<>> => Tail(inbox) \in Seq(Messages)
    BY <1>1, EmptySeq, HeadTailProperties
  <1>3. CASE ReadCommand
    <2>1. /\ inbox' \in Seq(Messages) /\ handler = "reading"
          /\ UNCHANGED <<commandRx, taskVars, queueVars, sourceVars, clientVars>>
      BY <1>2, <1>3 DEF ReadCommand, Arrives
    <2>2. \/ handled' = handled + 1 /\ UNCHANGED <<handler, closing>>
          \/ handler' = "closing" /\ closing' = TRUE /\ UNCHANGED handled
      BY <1>3 DEF ReadCommand
    <2>3. /\ handled' \in Nat /\ closing' \in BOOLEAN
          /\ handler' \in {"reading", "answering", "closing", "ended"}
      <3>1. CASE handled' = handled + 1 /\ UNCHANGED <<handler, closing>>
        BY <1>1, <3>1
      <3>2. CASE handler' = "closing" /\ closing' = TRUE /\ UNCHANGED handled
        BY <1>1, <3>2
      <3>3. QED
        BY <2>2, <3>1, <3>2
    <2>4. Closing'
      BY <1>1, <2>1, <2>2 DEF Closing
    <2>5. QED
      BY <1>1, <2>1, <2>3, <2>4, ReaderAlone
  <1>4. CASE ReadBinary
    BY <1>1, <1>2, <1>4, ReaderAlone DEF ReadBinary, Arrives, Closing
  <1>5. CASE ReadEnd
    BY <1>1, <1>2, <1>5, ReaderAlone DEF ReadEnd, Arrives, Closing
  <1>6. CASE Return
    BY <1>1, <1>2, <1>6, ReaderAlone DEF Return, Closing
  <1>7. CASE CommandHandlerStops
    BY <1>1, <1>2, <1>7, ReaderAlone DEF CommandHandlerStops, Closing
  <1>8. QED
    BY <1>3, <1>4, <1>5, <1>6, <1>7

(* The reader queues up for the socket with an answer of its own.          *)
LEMMA ReadAnsweredKeeps ==
  ASSUME IInv, NEW message, NEW answer \in {"pong", "error"}, ReadAnswered(message, answer)
  PROVE  IInv'
  <1> USE DEF readerVars, taskVars, queueVars, sourceVars, clientVars
  <1>1. TypeOK /\ Wire /\ Queue /\ Mutex /\ Closing /\ Ring
    BY DEF IInv
  <1>2. /\ handler = "reading" /\ handler' = "answering" /\ Lock("reader", Item(answer, 0))
        /\ inbox' \in Seq(Messages)
        /\ UNCHANGED <<handled, commandRx, closing, task, accepted, discarded, queue, broadcasts,
                       nextEvent, ticks, wire, client, delivered, heard>>
    <2>1. inbox' \in Seq(Messages)
      BY <1>1, HeadTailProperties DEF ReadAnswered, Arrives, TypeOK
    <2>2. QED
      BY <2>1 DEF ReadAnswered, Arrives
  <1>3. /\ Mutex' /\ waiters' \in Seq(Users) /\ Len(waiters') <= Cardinality(Users)
        /\ hand' \in [Users -> Items]
        /\ hand'["response"] = hand["response"] /\ hand'["event"] = hand["event"]
    <2>1. /\ "reader" \in Users /\ "response" \in Users \ {"reader"}
          /\ "event" \in Users \ {"reader"} /\ "reader" \notin Tasks
      BY DEF Users, Tasks
    <2>2. Item(answer, 0).kind \in Kinds("reader") /\ Item(answer, 0) \in Items
      BY DEF Item, Kinds, Items
    <2>3. \A i \in 1..Len(waiters) : waiters[i] # "reader"
      BY <1>1, <1>2 DEF Mutex
    <2>4. \A t \in Tasks : task[t] = "sending" \/ t = "reader" => task'[t] = "sending"
      BY <1>2, <2>1
    <2>5. QED
      BY <1>1, <1>2, <2>1, <2>2, <2>3, <2>4, Locked
  <1>4. TypeOK'
    BY <1>1, <1>2, <1>3 DEF TypeOK
  <1>5. Wire'
    <2>1. \A v \in Views : Sent(v) => Sent(v)'
      BY <1>2, <1>3 DEF Sent, Gap, Gone
    <2>2. QED
      BY <1>1, <1>2, <2>1, WireUntouched DEF Gap
  <1>6. Queue' /\ Closing' /\ Ring'
    BY <1>1, <1>2, <1>3 DEF Queue, Gone, Closing, Ring, Gap
  <1>7. QED
    BY <1>3, <1>4, <1>5, <1>6 DEF IInv

(* The reader's answer reaches the socket, or the send fails.              *)
LEMMA ReaderAnswersKeeps == IInv /\ ReaderAnswers => IInv'
  <1> SUFFICES ASSUME IInv, ReaderAnswers PROVE IInv'
    OBVIOUS
  <1> USE DEF readerVars, taskVars, queueVars, sourceVars, clientVars
  <1>1. TypeOK /\ Wire /\ Queue /\ Mutex /\ Closing /\ Ring
    BY DEF IInv
  <1>2. /\ handler = "answering" /\ handler' = "reading" /\ Unlock("reader")
        /\ UNCHANGED <<inbox, handled, commandRx, closing, task, accepted, discarded, queue,
                       broadcasts, nextEvent, ticks, client, delivered, heard>>
        /\ SocketTakes("reader") \/ UNCHANGED wire
    BY DEF ReaderAnswers, SocketTakes, SocketFails
  <1>3. "reader" \in Users /\ Tasks \subseteq Users \ {"reader"}
        /\ "response" \in Tasks /\ "event" \in Tasks
    BY DEF Users, Tasks
  <1>4. /\ Mutex' /\ waiters' \in Seq(Users) /\ Len(waiters') <= Cardinality(Users)
        /\ hand' \in [Users -> Items]
        /\ hand'["response"] = hand["response"] /\ hand'["event"] = hand["event"]
    BY <1>1, <1>2, <1>3, Unlocked
  <1>5. \A v \in Views : Sent(v) => Sent(v)'
    BY <1>2, <1>4 DEF Sent, Gap, Gone
  <1>6. Queue' /\ Closing' /\ Ring'
    <2>1. client = "gone" => wire' = wire
      BY <1>2 DEF SocketTakes
    <2>2. QED
      BY <1>1, <1>2, <1>4, <2>1 DEF Queue, Gone, Closing, Ring, Gap
  <1>7. CASE SocketTakes("reader")
    <2>1. /\ client = "up" /\ Len(wire) < WireCapacity /\ wire' = Append(wire, hand["reader"])
      BY <1>7 DEF SocketTakes
    <2>2. hand["reader"] \in Items /\ hand["reader"].kind \in {"none", "pong", "error"}
      BY <1>1, <1>3 DEF TypeOK, Mutex, Kinds
    <2>3. wire' \in Seq(Items) /\ Len(wire') <= WireCapacity
      <3>1. wire' \in Seq(Items) /\ Len(wire') = Len(wire) + 1 /\ Len(wire) \in Nat
        BY <1>1, <2>1, <2>2, AppendProperties, LenProperties DEF TypeOK
      <3>2. QED
        BY <2>1, <3>1, ConnectionAssumption
    <2>4. TypeOK'
      BY <1>1, <1>2, <1>4, <2>3 DEF TypeOK
    <2>5. \A v \in Views : Follows(v, hand["reader"], v)
      BY <2>2 DEF Follows
    <2>6. Wire'
      BY <1>1, <1>2, <1>5, <2>1, <2>2, <2>5, WireSent
    <2>7. QED
      BY <1>4, <1>6, <2>4, <2>6 DEF IInv
  <1>8. CASE UNCHANGED wire
    <2>1. TypeOK'
      BY <1>1, <1>2, <1>4, <1>8 DEF TypeOK
    <2>2. Wire'
      BY <1>1, <1>2, <1>5, <1>8, WireUntouched DEF Gap
    <2>3. QED
      BY <1>4, <1>6, <2>1, <2>2 DEF IInv
  <1>9. QED
    BY <1>2, <1>7, <1>8

(* A response is queued behind the others, or discarded.                   *)
LEMMA SendKeeps == IInv /\ Send => IInv'
  <1> SUFFICES ASSUME IInv, Send PROVE IInv'
    OBVIOUS
  <1> USE DEF readerVars, taskVars, queueVars, sourceVars, clientVars
  <1>1. TypeOK /\ Wire /\ Queue /\ Mutex /\ Closing /\ Ring
    BY DEF IInv
  <1>2. /\ accepted \in Nat /\ discarded \in Nat /\ Len(queue) \in Nat
        /\ accepted + discarded < MaxResponses /\ MaxResponses \in Nat /\ QueueCapacity \in Nat
        /\ queue \in Seq(1..MaxResponses)
    BY <1>1, Numbers DEF Send, CanSend, TypeOK
  <1>3. UNCHANGED <<inbox, handled, commandRx, handler, closing, task, hand, waiters,
                    broadcasts, nextEvent, ticks, wire, client, delivered, heard>>
    BY DEF Send
  <1>4. /\ queue' \in Seq(1..MaxResponses) /\ Len(queue') <= QueueCapacity
        /\ accepted' \in 0..MaxResponses /\ discarded' \in 0..MaxResponses
        /\ accepted' + discarded' <= MaxResponses
        /\ accepted <= accepted'
        /\ \/ UNCHANGED <<queue, accepted>> /\ task["response"] = "ended"
           \/ /\ task["response"] # "ended" /\ accepted' = accepted + 1
              /\ Len(queue') = Len(queue) + 1 /\ queue'[Len(queue) + 1] = accepted'
              /\ \A i \in 1..Len(queue) : queue'[i] = queue[i]
    <2>1. CASE task["response"] = "ended"
      BY <1>1, <1>2, <2>1 DEF Send, TypeOK
    <2>2. CASE task["response"] # "ended"
      <3>1. /\ Len(queue) < QueueCapacity /\ accepted' = accepted + 1 /\ discarded' = discarded
            /\ queue' = Append(queue, accepted') /\ accepted' \in 1..MaxResponses
        BY <1>2, <2>2 DEF Send
      <3> DEFINE S == 1..MaxResponses
      <3>2. queue \in Seq(S) /\ accepted' \in S
        BY <1>2, <3>1
      <3> HIDE DEF S
      <3>3. /\ queue' \in Seq(S) /\ Len(queue') = Len(queue) + 1
            /\ queue'[Len(queue) + 1] = accepted'
            /\ \A i \in 1..Len(queue) : queue'[i] = queue[i]
        BY <3>1, <3>2, AppendProperties
      <3>4. QED
        BY <1>2, <2>2, <3>1, <3>3 DEF S
    <2>3. QED
      BY <2>1, <2>2
  <1>5. TypeOK'
    BY <1>1, <1>3, <1>4 DEF TypeOK
  <1>6. task["response"] # "ended" => Gone' = Gone /\ accepted' - Len(queue') = accepted - Len(queue)
    BY <1>2, <1>3, <1>4, SMTT(20) DEF Gone
  <1>7. Wire'
    <2>1. ASSUME NEW v \in Views, Sent(v) PROVE Sent(v)'
      <3>1. v.response \in Nat /\ v.response <= accepted
        BY <2>1 DEF Views, Sent
      <3>2. v.response <= accepted' /\ accepted' \in Nat
        BY <1>2, <1>4, <3>1
      <3>3. QED
        BY <1>3, <1>6, <2>1, <3>2 DEF Sent, Gap
    <2>2. QED
      BY <1>1, <1>3, <2>1, WireUntouched DEF Gap
  <1>8. Queue'
    <2>1. CASE task["response"] = "ended"
      BY <1>1, <1>3, <1>4, <2>1 DEF Queue
    <2>2. CASE task["response"] # "ended"
      <3>1. \A i \in 1..Len(queue') : queue'[i] = accepted' - Len(queue') + i
        <4> SUFFICES ASSUME NEW i \in 1..Len(queue')
                     PROVE  queue'[i] = accepted' - Len(queue') + i
          OBVIOUS
        <4>1. CASE i \in 1..Len(queue)
          <5>1. queue[i] = accepted - Len(queue) + i
            BY <1>1, <4>1 DEF Queue
          <5>2. queue'[i] = queue[i]
            BY <1>4, <2>2, <4>1
          <5>3. accepted' - Len(queue') = accepted - Len(queue)
            BY <1>6, <2>2
          <5>4. QED
            BY <5>1, <5>2, <5>3
        <4>2. CASE i = Len(queue) + 1
          BY <1>2, <1>4, <2>2, <4>2
        <4>3. Len(queue') = Len(queue) + 1
          BY <1>4, <2>2
        <4>4. i \in 1..Len(queue) \/ i = Len(queue) + 1
          BY <1>2, <4>3
        <4>5. QED
          BY <4>1, <4>2, <4>4
      <3>2. /\ Len(queue') <= accepted'
            /\ Len(queue) < accepted => Len(queue') < accepted'
        BY <1>1, <1>2, <1>4, <2>2 DEF Queue
      <3>3. QED
        BY <1>1, <1>3, <1>4, <1>6, <2>2, <3>1, <3>2 DEF Queue
    <2>3. QED
      BY <2>1, <2>2
  <1>9. Mutex' /\ Closing' /\ Ring'
    BY <1>1, <1>3 DEF Mutex, Closing, Ring, Gap
  <1>10. QED
    BY <1>5, <1>7, <1>8, <1>9 DEF IInv

(* The ring moves on.                                                      *)
LEMMA BroadcastKeeps == IInv /\ Broadcast => IInv'
  <1> SUFFICES ASSUME IInv, Broadcast PROVE IInv'
    OBVIOUS
  <1> USE DEF readerVars, taskVars, queueVars, sourceVars, clientVars
  <1>1. TypeOK /\ Wire /\ Queue /\ Mutex /\ Closing /\ Ring
    BY DEF IInv
  <1>2. /\ broadcasts \in Nat /\ broadcasts' = broadcasts + 1 /\ broadcasts' \in 0..MaxEvents
        /\ EventCapacity \in Nat /\ nextEvent \in Nat /\ MaxEvents \in Nat
    BY <1>1, Numbers DEF Broadcast
  <1>3. UNCHANGED <<inbox, handled, commandRx, handler, closing, task, hand, waiters, accepted,
                    discarded, queue, nextEvent, ticks, wire, client, delivered, heard>>
    BY DEF Broadcast
  <1>4. TypeOK'
    BY <1>1, <1>2, <1>3 DEF TypeOK
  <1>5. \A a, b \in Nat : Gap(a, b) => Gap(a, b)'
    BY <1>2 DEF Gap
  <1>6. Wire'
    <2>1. ASSUME NEW v \in Views, Sent(v) PROVE Sent(v)'
      <3>1. v.event \in Nat /\ hand["event"].n \in Nat /\ Gone' = Gone
        <4>1. "event" \in Users
          BY DEF Users, Tasks
        <4>2. QED
          BY <1>1, <1>3, <4>1, Numbers DEF Views, Gone
      <3>2. /\ Gap(v.event, nextEvent) => Gap(v.event, nextEvent)'
            /\ Gap(v.event, hand["event"].n) => Gap(v.event, hand["event"].n)'
            /\ Gap(hand["event"].n, nextEvent) => Gap(hand["event"].n, nextEvent)'
        BY <1>2, <1>3, <3>1 DEF Gap
      <3>3. QED
        BY <1>3, <2>1, <3>1, <3>2 DEF Sent
    <2>2. QED
      BY <1>1, <1>3, <1>5, <2>1, WireUntouched
  <1>7. Ring'
    <2>1. ASSUME NEW i \in 1..Len(heard)
          PROVE  Gap(IF i = 1 THEN 0 ELSE heard[i - 1], heard[i])'
      <3>1. Gap(IF i = 1 THEN 0 ELSE heard[i - 1], heard[i])
        BY <1>1, <2>1 DEF Ring
      <3>2. heard[i] \in Nat /\ (i # 1 => heard[i - 1] \in Nat)
        <4>1. Len(heard) \in Nat /\ \A j \in 1..Len(heard) : heard[j] \in 1..MaxEvents
          BY <1>1, Numbers, ElementOfSeq DEF TypeOK
        <4>2. i # 1 => i - 1 \in 1..Len(heard)
          BY <2>1, <4>1
        <4>3. QED
          BY <1>2, <2>1, <4>1, <4>2
      <3>3. QED
        BY <1>2, <1>3, <3>1, <3>2 DEF Gap
    <2>2. QED
      BY <1>1, <1>2, <1>3, <2>1 DEF Ring
  <1>8. Queue' /\ Mutex' /\ Closing'
    BY <1>1, <1>3 DEF Queue, Gone, Mutex, Closing
  <1>9. QED
    BY <1>4, <1>6, <1>7, <1>8 DEF IInv

(* The client reads what comes next.                                       *)
LEMMA ClientReadsKeeps == IInv /\ ClientReads => IInv'
  <1> SUFFICES ASSUME IInv, ClientReads PROVE IInv'
    OBVIOUS
  <1> USE DEF readerVars, taskVars, queueVars, sourceVars, clientVars
  <1>1. TypeOK /\ Wire /\ Queue /\ Mutex /\ Closing /\ Ring
    BY DEF IInv
  <1>2. /\ client = "up" /\ wire # <<>> /\ wire' = Tail(wire)
        /\ UNCHANGED <<inbox, handled, commandRx, handler, closing, task, hand, waiters, accepted,
                       discarded, queue, broadcasts, nextEvent, ticks, client>>
    BY DEF ClientReads
  <1> DEFINE item == Head(wire)
  <1>3. /\ item \in Items /\ wire' \in Seq(Items) /\ Len(wire') <= WireCapacity
    <2>1. item \in Items /\ wire' \in Seq(Items) /\ Len(wire') = Len(wire) - 1
      BY <1>1, <1>2, HeadTailProperties DEF TypeOK
    <2>2. QED
      BY <1>1, <2>1, Numbers, SMTT(20) DEF TypeOK
  <1>4. /\ delivered' = (IF item.kind = "response" THEN item.n ELSE delivered)
        /\ heard' = IF item.kind = "event" THEN Append(heard, item.n) ELSE heard
    BY DEF ClientReads
  <1> HIDE DEF item
  <1>5. /\ item.kind = "response" => item.n \in 1..MaxResponses
        /\ item.kind = "event" => item.n \in 1..MaxEvents
    BY <1>3 DEF Items, Item, Nothing
  <1>6. /\ Len(heard) \in Nat /\ delivered \in Nat /\ LastHeard \in Nat
        /\ WireCapacity \in Nat /\ MaxResponses \in Nat /\ heard \in Seq(1..MaxEvents)
    BY <1>1, Numbers DEF TypeOK
  <1>7. /\ heard' \in Seq(1..MaxEvents)
        /\ item.kind # "event" => heard' = heard
        /\ item.kind = "event" =>
             /\ Len(heard') = Len(heard) + 1 /\ heard'[Len(heard) + 1] = item.n
             /\ \A i \in 1..Len(heard) : heard'[i] = heard[i]
    <2>1. CASE item.kind = "event"
      <3>1. heard' = Append(heard, item.n) /\ item.n \in 1..MaxEvents
        BY <1>4, <1>5, <2>1
      <3> DEFINE S == 1..MaxEvents
      <3>2. heard \in Seq(S) /\ item.n \in S
        BY <1>6, <3>1
      <3> HIDE DEF S
      <3>3. /\ heard' \in Seq(S) /\ Len(heard') = Len(heard) + 1
            /\ heard'[Len(heard) + 1] = item.n
            /\ \A i \in 1..Len(heard) : heard'[i] = heard[i]
        BY <3>1, <3>2, AppendProperties
      <3>4. QED
        BY <2>1, <3>3 DEF S
    <2>2. CASE item.kind # "event"
      BY <1>4, <1>6, <2>2
    <2>3. QED
      BY <2>1, <2>2
  <1>8. delivered' \in 0..MaxResponses
    BY <1>1, <1>4, <1>5 DEF TypeOK
  <1>9. TypeOK'
    BY <1>1, <1>2, <1>3, <1>7, <1>8 DEF TypeOK
  <1>10. LastHeard' = IF item.kind = "event" THEN item.n ELSE LastHeard
    <2>1. CASE item.kind = "event"
      <3>1. Len(heard') = Len(heard) + 1 /\ heard' # <<>>
        BY <1>6, <1>7, <2>1, EmptySeq
      <3>2. QED
        BY <1>7, <2>1, <3>1 DEF LastHeard
    <2>2. CASE item.kind # "event"
      BY <1>7, <2>2 DEF LastHeard
    <2>3. QED
      BY <2>1, <2>2
  <1>11. Wire'
    <2>1. \A v, w \in Views : Shows(v) /\ Follows(v, item, w) => Shows(w)'
      BY <1>4, <1>10 DEF Shows, Follows
    <2>2. QED
      BY <1>1, <1>2, <2>1, WireRead DEF item
  <1>12. PICK v, w \in Views : Shows(v) /\ Follows(v, item, w)
    BY <1>1, <1>2, Front DEF item
  <1>13. delivered <= delivered'
    BY <1>4, <1>6, <1>12 DEF Shows, Follows
  <1>14. Queue'
    <2>1. Gone' = Gone /\ Gone \in Int
      BY <1>1, <1>2, Numbers DEF Gone
    <2>2. Gone <= delivered + WireCapacity => Gone' <= delivered' + WireCapacity
      <3>1. delivered' \in Nat
        BY <1>6, <1>8
      <3>2. \A g, a, b, c \in Int : a <= b /\ g <= a + c => g <= b + c
        OBVIOUS
      <3>3. delivered \in Int /\ delivered' \in Int /\ WireCapacity \in Int
        BY <1>6, <3>1
      <3>4. QED
        BY <1>13, <2>1, <3>2, <3>3
    <2>3. QED
      BY <1>1, <1>2, <2>2 DEF Queue
  <1>15. Ring'
    <2>1. CASE item.kind # "event"
      BY <1>1, <1>2, <1>7, <2>1 DEF Ring, Gap
    <2>2. CASE item.kind = "event"
      <3>1. Gap(LastHeard, item.n)
        BY <1>12, <2>2 DEF Shows, Follows
      <3>2. ASSUME NEW i \in 1..Len(heard')
            PROVE  Gap(IF i = 1 THEN 0 ELSE heard'[i - 1], heard'[i])
        <4>1. CASE i \in 1..Len(heard)
          <5>1. i # 1 => i - 1 \in 1..Len(heard)
            BY <1>6, <4>1
          <5>2. Gap(IF i = 1 THEN 0 ELSE heard[i - 1], heard[i])
            BY <1>1, <4>1 DEF Ring
          <5>3. QED
            BY <1>7, <2>2, <4>1, <5>1, <5>2
        <4>2. CASE i = Len(heard) + 1
          <5>1. LastHeard = IF i = 1 THEN 0 ELSE heard[i - 1]
            BY <1>6, <4>2, EmptySeq DEF LastHeard
          <5>2. (IF i = 1 THEN 0 ELSE heard'[i - 1]) = IF i = 1 THEN 0 ELSE heard[i - 1]
            BY <1>6, <1>7, <2>2, <4>2
          <5>3. QED
            BY <1>7, <2>2, <3>1, <4>2, <5>1, <5>2
        <4>3. QED
          BY <1>6, <1>7, <2>2, <3>2, <4>1, <4>2
      <3>3. QED
        BY <1>1, <1>2, <3>2 DEF Ring, Gap
    <2>3. QED
      BY <2>1, <2>2
  <1>16. Mutex' /\ Closing'
    BY <1>1, <1>2 DEF Mutex, Closing
  <1>17. QED
    BY <1>9, <1>11, <1>14, <1>15, <1>16 DEF IInv

(* The client vanishes with what the wire held.                            *)
LEMMA VanishKeeps == IInv /\ Vanish => IInv'
  <1> SUFFICES ASSUME IInv, Vanish PROVE IInv'
    OBVIOUS
  <1> USE DEF readerVars, taskVars, queueVars, sourceVars, clientVars
  <1>1. TypeOK /\ Wire /\ Queue /\ Mutex /\ Closing /\ Ring
    BY DEF IInv
  <1>2. /\ client' = "gone" /\ wire' = <<>>
        /\ UNCHANGED <<inbox, handled, commandRx, handler, closing, task, hand, waiters, accepted,
                       discarded, queue, broadcasts, nextEvent, ticks, delivered, heard>>
    BY DEF Vanish
  <1>3. /\ wire' \in Seq(Items) /\ Len(wire') = 0 /\ 0 <= WireCapacity
    BY <1>2, EmptySeq, ConnectionAssumption
  <1>4. TypeOK'
    BY <1>1, <1>2, <1>3 DEF TypeOK
  <1>5. Wire'
    <2>1. PICK v \in Views : v = [response |-> delivered, event |-> LastHeard]
      BY <1>1, Numbers DEF Views
    <2>2. <<v>> \in Seq(Views) /\ Len(<<v>>) = 1 /\ <<v>>[1] = v
      BY <2>1
    <2>3. Shows(v)'
      BY <1>2, <2>1 DEF Shows, LastHeard
    <2>4. Forecast(<<v>>)'
      BY <1>2, <1>3, <2>2, <2>3 DEF Forecast, Paced
    <2>5. QED
      BY <2>2, <2>4 DEF Wire
  <1>6. Queue' /\ Mutex' /\ Closing' /\ Ring'
    BY <1>1, <1>2 DEF Queue, Gone, Mutex, Closing, Ring, Gap
  <1>7. QED
    BY <1>4, <1>5, <1>6 DEF IInv

(* One step per action of the reader, the tasks, the client and the agent. *)
LEMMA NextIInv == IInv /\ [Next]_vars => IInv'
  <1> SUFFICES ASSUME IInv, [Next]_vars PROVE IInv'
    OBVIOUS
  <1>1. CASE UNCHANGED vars
    <2> USE DEF vars, readerVars, taskVars, queueVars, sourceVars, clientVars
    <2>1. inbox \in Seq(Messages) /\ handled \in Nat /\ commandRx \in BOOLEAN /\ Closing
          /\ handler \in {"reading", "answering", "closing", "ended"} /\ closing \in BOOLEAN
      BY DEF IInv, TypeOK
    <2>2. Closing'
      BY <1>1, <2>1 DEF Closing
    <2>3. QED
      BY <1>1, <2>1, <2>2, ReaderAlone
  <1>2. ASSUME NEW t \in Tasks, TaskSends(t) \/ TaskSendFails(t) \/ TaskSeesClose(t)
        PROVE  IInv'
    BY <1>2, TaskSendsKeeps, TaskEndsKeeps
  <1>3. CASE TakeResponse \/ TakeEvent \/ Lagged \/ Tick
    BY <1>3, TakeResponseKeeps, TakeEventKeeps, LaggedKeeps, TickKeeps
  <1>4. CASE ReadCommand \/ ReadBinary \/ ReadEnd \/ Return \/ CommandHandlerStops
    BY <1>4, ReaderKeeps
  <1>5. CASE ReadAnswered("unreadable", "error") \/ ReadAnswered("ping", "pong")
    BY <1>5, ReadAnsweredKeeps
  <1>6. CASE ReaderAnswers \/ Send \/ Broadcast \/ ClientReads \/ Vanish
    BY <1>6, ReaderAnswersKeeps, SendKeeps, BroadcastKeeps, ClientReadsKeeps, VanishKeeps
  <1>7. TasksJoined \/ JoinTimesOut => Return
    BY DEF TasksJoined, JoinTimesOut
  <1>8. Over => UNCHANGED vars
    BY DEF Over
  <1>9. QED
    BY <1>1, <1>2, <1>3, <1>4, <1>5, <1>6, <1>7, <1>8 DEF Next

(* The inductive invariant, behind the theorems below.                     *)
LEMMA Invariance == Spec => []IInv
  BY InitIInv, NextIInv, PTL DEF Spec

(***************************************************************************)
(* The theorems.                                                           *)
(***************************************************************************)
(* Every variable keeps its type: the queue and the wire their bounds, and *)
(* no user of the socket waits for it twice.                               *)
THEOREM TypeCorrect == Spec => []TypeOK
  <1>1. IInv => TypeOK
    BY DEF IInv
  <1>2. QED
    BY Invariance, <1>1, PTL

(* Whatever the client does not read, and however far it falls behind, the *)
(* events it reads are in order, none twice, and none is missing that the  *)
(* ring still had.                                                         *)
THEOREM EventsInOrder == Spec => []EventsKept
  <1>1. IInv => EventsKept
    <2> SUFFICES ASSUME IInv, NEW i \in 1..Len(heard)
                 PROVE  LET all == <<0>> \o heard IN
                          \/ all[i + 1] = all[i] + 1
                          \/ /\ all[i + 1] > all[i] + 1
                             /\ broadcasts + 1 >= all[i + 1] + EventCapacity
      BY DEF EventsKept
    <2>1. TypeOK /\ Ring
      BY DEF IInv
    <2> DEFINE all == <<0>> \o heard
    <2>2. heard \in Seq(1..MaxEvents) /\ 1..MaxEvents \subseteq Nat /\ Len(heard) \in Nat
      BY <2>1, Numbers, SMTT(20) DEF TypeOK
    <2>3. heard \in Seq(Nat) /\ <<0>> \in Seq(Nat) /\ Len(<<0>>) = 1 /\ <<0>>[1] = 0
      <3> DEFINE S == 1..MaxEvents
      <3>1. heard \in Seq(S) /\ S \subseteq Nat
        BY <2>2
      <3> HIDE DEF S
      <3>2. heard \in Seq(Nat)
        BY <3>1, SeqMonotonic
      <3>3. QED
        BY <3>2
    <2>4. \A j \in 1..Len(<<0>>) + Len(heard) :
            all[j] = IF j <= Len(<<0>>) THEN <<0>>[j] ELSE heard[j - Len(<<0>>)]
      BY <2>3, ConcatProperties
    <2> HIDE DEF all
    <2>5. all[i + 1] = heard[i] /\ all[i] = IF i = 1 THEN 0 ELSE heard[i - 1]
      <3>1. i + 1 \in 1..1 + Len(heard) /\ i \in 1..1 + Len(heard) /\ ~(i + 1 <= 1)
            /\ (i + 1) - 1 = i /\ (i <= 1 <=> i = 1)
        BY <2>2
      <3>2. all[i + 1] = heard[(i + 1) - 1]
        BY <2>3, <2>4, <3>1
      <3>3. all[i] = IF i <= 1 THEN <<0>>[i] ELSE heard[i - 1]
        BY <2>3, <2>4, <3>1
      <3>4. QED
        BY <2>3, <3>1, <3>2, <3>3
    <2>6. Gap(all[i], all[i + 1])
      BY <2>1, <2>5 DEF Ring
    <2>7. QED
      BY <2>6 DEF Gap, all
  <1>2. QED
    BY Invariance, <1>1, PTL

(***************************************************************************)
(* The refinement.                                                         *)
(***************************************************************************)
(* The link of ResponseLink, and when it is open, as Link maps them. *)
Open == client = "up" /\ handler \in {"reading", "answering"}
Standing == IF task["response"] = "ended" THEN "closed" ELSE IF Open THEN "open" ELSE "ending"

(* A step that neither accepts, delivers nor discards may close the link,  *)
(* by way of "ending".                                                     *)
LEMMA Moves ==
  ASSUME UNCHANGED <<accepted, delivered, discarded>>,
         Open' => Open,
         task["response"] = "ended" => task'["response"] = "ended",
         task'["response"] = "ended" => task["response"] = "ended" \/ ~Open,
         task'["response"] # task["response"] /\ task'["response"] = "ended" => (Open' <=> Open)
  PROVE  [Link!Next]_(Link!lvars)
  <1>1. \/ Standing' = Standing
        \/ Standing = "open" /\ Standing' = "ending"
        \/ Standing = "ending" /\ Standing' = "closed"
    BY DEF Standing
  <1>2. CASE Standing' = Standing
    BY <1>2 DEF Standing, Open, Link!lvars
  <1>3. CASE Standing = "open" /\ Standing' = "ending"
    BY <1>3 DEF Standing, Open, Link!Next, Link!Leave
  <1>4. CASE Standing = "ending" /\ Standing' = "closed"
    BY <1>4 DEF Standing, Open, Link!Next, Link!Close
  <1>5. QED
    BY <1>1, <1>2, <1>3, <1>4

(* A response is accepted while there is room for it, and discarded only   *)
(* when the response task is gone.                                         *)
LEMMA SendMoves ==
  ASSUME IInv, Send
  PROVE  [Link!Next]_(Link!lvars)
  <1>1. TypeOK /\ Queue
    BY DEF IInv
  <1>2. UNCHANGED <<task, client, handler, delivered>>
    BY DEF Send, readerVars, taskVars, sourceVars, clientVars
  <1>3. CASE task["response"] = "ended"
    <2>1. discarded' = discarded + 1 /\ UNCHANGED accepted
      BY <1>3 DEF Send
    <2>2. QED
      BY <1>2, <1>3, <2>1 DEF Link!Next, Link!Discard
  <1>4. CASE task["response"] # "ended"
    <2>1. Len(queue) < QueueCapacity /\ accepted' = accepted + 1 /\ UNCHANGED discarded
      BY <1>4 DEF Send
    <2>2. accepted < delivered + (QueueCapacity + 1 + WireCapacity)
      <3>1. /\ accepted \in Nat /\ Len(queue) \in Nat /\ delivered \in Nat
            /\ QueueCapacity \in Nat /\ WireCapacity \in Nat
        BY <1>1, Numbers
      <3>2. accepted - Len(queue) - 1 <= delivered + WireCapacity
        BY <1>1, <1>4, <3>1 DEF Queue, Gone
      <3>3. QED
        BY <2>1, <3>1, <3>2
    <2>3. QED
      BY <1>2, <1>4, <2>1, <2>2 DEF Link!Next, Link!Accept
  <1>5. QED
    BY <1>3, <1>4

(* A response is delivered in its turn.                                    *)
LEMMA ReadMoves ==
  ASSUME IInv, ClientReads
  PROVE  [Link!Next]_(Link!lvars)
  <1>1. TypeOK /\ Wire /\ wire # <<>> /\ client = "up"
    BY DEF IInv, ClientReads
  <1>2. UNCHANGED <<accepted, discarded, task, client, handler>>
    BY DEF ClientReads, readerVars, taskVars, queueVars, sourceVars
  <1>3. PICK v, w \in Views :
          Shows(v) /\ Follows(v, Head(wire), w) /\ (client = "up" => w.response <= accepted)
    BY <1>1, Front
  <1>4. CASE Head(wire).kind = "response"
    <2>1. /\ Head(wire).n = delivered + 1 /\ w.response = Head(wire).n
      BY <1>3, <1>4 DEF Shows, Follows
    <2>2. delivered' = delivered + 1 /\ delivered + 1 <= accepted
      BY <1>1, <1>3, <1>4, <2>1 DEF ClientReads
    <2>3. delivered < accepted
      BY <1>1, <2>2, Numbers
    <2>4. QED
      BY <1>2, <2>2, <2>3 DEF Link!Next, Link!Deliver
  <1>5. CASE Head(wire).kind # "response"
    <2>1. delivered' = delivered
      BY <1>5 DEF ClientReads
    <2>2. QED
      BY <1>2, <2>1 DEF Link!lvars
  <1>6. QED
    BY <1>4, <1>5

(* A task ends only behind a client that is gone or a reader that has left.*)
LEMMA TaskMoves ==
  ASSUME IInv, NEW t \in Tasks, TaskSends(t) \/ TaskSendFails(t) \/ TaskSeesClose(t)
  PROVE  [Link!Next]_(Link!lvars)
  <1> USE DEF readerVars, taskVars, queueVars, sourceVars, clientVars
  <1>1. TypeOK /\ Closing /\ "response" \in Tasks
    BY DEF IInv, Tasks
  <1>2. UNCHANGED <<accepted, delivered, discarded, client, handler>>
    BY DEF TaskSends, TaskSendFails, TaskSeesClose, TaskEnds, SocketTakes, SocketFails
  <1>3. Open' <=> Open
    BY <1>2 DEF Open
  <1>4. CASE TaskSends(t)
    <2>1. task[t] = "sending" /\ task' = [task EXCEPT ![t] = "waiting"]
      BY <1>4 DEF TaskSends
    <2>2. task'["response"] = "ended" <=> task["response"] = "ended"
      BY <1>1, <2>1 DEF TypeOK
    <2>3. QED
      BY <1>2, <1>3, <2>2, Moves
  <1>5. CASE TaskSendFails(t) \/ TaskSeesClose(t)
    <2>1. task' = [task EXCEPT ![t] = "ended"]
      BY <1>5 DEF TaskSendFails, TaskSeesClose, TaskEnds
    <2>2. ~Open
      BY <1>1, <1>5 DEF TaskSendFails, TaskSeesClose, SocketFails, Closing, Open
    <2>3. task["response"] = "ended" => task'["response"] = "ended"
      BY <1>1, <2>1 DEF TypeOK
    <2>4. QED
      BY <1>2, <1>3, <2>2, <2>3, Moves
  <1>6. QED
    BY <1>4, <1>5

(* The rest leaves the response task where it is, or as alive as it was.   *)
LEMMA OthersMove ==
  ASSUME IInv,
         \/ TakeResponse \/ TakeEvent \/ Lagged \/ Tick
         \/ ReadCommand \/ ReadBinary \/ ReadEnd \/ Return \/ CommandHandlerStops
         \/ ReadAnswered("unreadable", "error") \/ ReadAnswered("ping", "pong")
         \/ ReaderAnswers \/ Broadcast \/ Vanish \/ UNCHANGED vars
  PROVE  [Link!Next]_(Link!lvars)
  <1> USE DEF vars, readerVars, taskVars, queueVars, sourceVars, clientVars
  <1>1. task \in [Tasks -> {"waiting", "sending", "ended"}] /\ "response" \in Tasks
    BY DEF IInv, TypeOK, Tasks
  <1>2. UNCHANGED <<accepted, delivered, discarded>>
    BY DEF TakeResponse, TakeEvent, Lagged, Tick, ReadCommand, ReadBinary, ReadEnd, Return,
           CommandHandlerStops, ReadAnswered, ReaderAnswers, Broadcast, Vanish
  <1>3. Open' => Open
    BY DEF TakeResponse, TakeEvent, Lagged, Tick, ReadCommand, ReadBinary, ReadEnd, Return,
           CommandHandlerStops, ReadAnswered, ReaderAnswers, Broadcast, Vanish, Open, Arrives
  <1>4. task'["response"] = "ended" <=> task["response"] = "ended"
    <2>1. CASE TakeResponse
      BY <1>1, <2>1 DEF TakeResponse
    <2>2. CASE TakeEvent
      BY <1>1, <2>2 DEF TakeEvent
    <2>3. CASE Tick
      BY <1>1, <2>3 DEF Tick
    <2>4. CASE ~(TakeResponse \/ TakeEvent \/ Tick)
      BY <2>4 DEF Lagged, ReadCommand, ReadBinary, ReadEnd, Return,
           CommandHandlerStops, ReadAnswered, ReaderAnswers, Broadcast, Vanish
    <2>5. QED
      BY <2>1, <2>2, <2>3, <2>4
  <1>5. QED
    BY <1>2, <1>3, <1>4, Moves

(* The connection is the link the rest of the agent takes it for.          *)
THEOREM ReliableLink == Spec => Reliable
  <1>1. Init => Link!Init
    BY DEF Init, Link!Init, Tasks
  <1>2. IInv /\ [Next]_vars => [Link!Next]_(Link!lvars)
    <2> SUFFICES ASSUME IInv, [Next]_vars PROVE [Link!Next]_(Link!lvars)
      OBVIOUS
    <2>1. ASSUME NEW t \in Tasks, TaskSends(t) \/ TaskSendFails(t) \/ TaskSeesClose(t)
          PROVE  [Link!Next]_(Link!lvars)
      BY <2>1, TaskMoves
    <2>2. CASE Send
      BY <2>2, SendMoves
    <2>3. CASE ClientReads
      BY <2>3, ReadMoves
    <2>4. CASE \/ TakeResponse \/ TakeEvent \/ Lagged \/ Tick
               \/ ReadCommand \/ ReadBinary \/ ReadEnd \/ Return \/ CommandHandlerStops
               \/ ReadAnswered("unreadable", "error") \/ ReadAnswered("ping", "pong")
               \/ ReaderAnswers \/ Broadcast \/ Vanish \/ UNCHANGED vars
      BY <2>4, OthersMove
    <2>5. TasksJoined \/ JoinTimesOut => Return
      BY DEF TasksJoined, JoinTimesOut
    <2>6. Over => UNCHANGED vars
      BY DEF Over
    <2>7. QED
      BY <2>1, <2>2, <2>3, <2>4, <2>5, <2>6 DEF Next
  <1>3. QED
    BY Invariance, <1>1, <1>2, PTL DEF Spec, Reliable, Link!Spec
=============================================================================
