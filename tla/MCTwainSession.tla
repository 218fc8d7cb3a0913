--------------------------- MODULE MCTwainSession ---------------------------
(***************************************************************************)
(* Drivers for model checking TwainSession.                                *)
(***************************************************************************)
EXTENDS TwainSession

(* Faults around the pages, which leave opening and closing alone. *)
PageFaults ==
  {"load", "window", "find", "strip", "compressed", "panic", "DAT_IMAGEINFO",
   "DAT_SETUPMEMXFER", "MSG_ENDXFER"}

(* The strictest, the most obedient, and the one whose closing calls work. *)
MCDrivers ==
  { [strict |-> TRUE,  mayFail |-> Faults],
    [strict |-> FALSE, mayFail |-> Faults],
    [strict |-> FALSE, mayFail |-> PageFaults] }

(* A driver that never fails and checks nothing. *)
MCObeying == { [strict |-> FALSE, mayFail |-> {}] }
=============================================================================
