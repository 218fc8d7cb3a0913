------------------------------ MODULE ResponseLink ------------------------------
(***************************************************************************)
(* What the rest of the agent relies on when it answers a client through   *)
(* the response queue of a connection: while the client stays, a message   *)
(* that was accepted is delivered in its turn and none is discarded; the   *)
(* backlog is bounded; once the client has gone the link may close, and    *)
(* then every message is discarded at once.  WsConnection implements it,   *)
(* and CommandHandler and ScanPipeline use it as their queue.              *)
(***************************************************************************)
EXTENDS Naturals

CONSTANT Backlog  \* messages accepted and not yet delivered, at most

VARIABLES
  accepted,   \* messages taken over from senders
  delivered,  \* messages the client has received: the first ones accepted
  discarded,  \* messages whose send returned without being taken
  link        \* "open", "ending" or "closed"

lvars == <<accepted, delivered, discarded, link>>

Init == accepted = 0 /\ delivered = 0 /\ discarded = 0 /\ link = "open"

Accept ==
  /\ link # "closed"
  /\ accepted < delivered + Backlog
  /\ accepted' = accepted + 1
  /\ UNCHANGED <<delivered, discarded, link>>

Deliver ==
  /\ delivered < accepted
  /\ delivered' = delivered + 1
  /\ UNCHANGED <<accepted, discarded, link>>

Leave ==
  /\ link = "open"
  /\ link' = "ending"
  /\ UNCHANGED <<accepted, delivered, discarded>>

Close ==
  /\ link = "ending"
  /\ link' = "closed"
  /\ UNCHANGED <<accepted, delivered, discarded>>

Discard ==
  /\ link = "closed"
  /\ discarded' = discarded + 1
  /\ UNCHANGED <<accepted, delivered, link>>

Next == Accept \/ Deliver \/ Leave \/ Close \/ Discard

Spec == Init /\ [][Next]_lvars
=============================================================================
