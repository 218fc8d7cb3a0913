---------------------------- MODULE ScanContract ----------------------------
(***************************************************************************)
(* What one scan promises the client that started it, seen from the        *)
(* client's end of the connection: pages arrive whole and in order, a PDF  *)
(* document arrives once and after its pages, and the scan ends in one     *)
(* scan_complete, naming the pages delivered, or in one error, after which *)
(* nothing more arrives.  ScanPipeline implements it.                      *)
(***************************************************************************)
EXTENDS Naturals

VARIABLES
  format,      \* "image" (png and jpeg output) or "pdf"
  delivered,   \* pages received whole
  document,    \* whether the finished document was received
  outcome,     \* "none", "complete" or "error"
  total        \* the page count a scan_complete named

cvars == <<format, delivered, document, outcome, total>>

Init ==
  /\ format \in {"image", "pdf"}
  /\ delivered = 0
  /\ document = FALSE
  /\ outcome = "none"
  /\ total = 0

DeliverPage ==
  /\ outcome = "none" /\ ~document
  /\ delivered' = delivered + 1
  /\ UNCHANGED <<format, document, outcome, total>>

DeliverDocument ==
  /\ outcome = "none" /\ ~document
  /\ format = "pdf" /\ delivered > 0
  /\ document' = TRUE
  /\ UNCHANGED <<format, delivered, outcome, total>>

Complete ==
  /\ outcome = "none"
  /\ document = (format = "pdf" /\ delivered > 0)
  /\ outcome' = "complete"
  /\ total' = delivered
  /\ UNCHANGED <<format, delivered, document>>

Fail ==
  /\ outcome = "none"
  /\ outcome' = "error"
  /\ UNCHANGED <<format, delivered, document, total>>

Next == DeliverPage \/ DeliverDocument \/ Complete \/ Fail

Spec == Init /\ [][Next]_cvars
=============================================================================
