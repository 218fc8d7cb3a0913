---------------------------- MODULE TwainSession ----------------------------
(***************************************************************************)
(* One native TWAIN session: the typestate wrapper of                      *)
(* src-tauri/src/scanner/twain.rs as its two users drive it, the scan      *)
(* thread of execute_native_scan and discover_native_scanners, against a   *)
(* data source manager and driver that keep the TWAIN states 2 to 7        *)
(* themselves.  What the wrapper holds and where the driver stands are     *)
(* separate variables: the properties are about the two agreeing.          *)
(*                                                                         *)
(* Handing a page over always returns here; ScanPipeline has the channel.  *)
(***************************************************************************)
EXTENDS Naturals, Sequences

CONSTANTS
  Jobs,       \* jobs explored: a subset of {"scan", "list"}
  Drivers,    \* drivers explored: strict or not, and what may fail with them
  MaxSheets   \* bound: sheets in the hopper

(* The driver states each operation is allowed in. *)
Allowed ==
  [ MSG_OPENDSM |-> {2}, MSG_OPENDS |-> {3}, MSG_ENABLEDS |-> {4},
    DAT_IMAGEINFO |-> {6, 7}, DAT_SETUPMEMXFER |-> 4..6, DAT_IMAGEMEMXFER |-> {6, 7},
    MSG_ENDXFER |-> {6, 7}, MSG_RESET |-> {6}, MSG_DISABLEDS |-> {5},
    MSG_CLOSEDS |-> {4}, MSG_CLOSEDSM |-> {3} ]
Operations == DOMAIN Allowed

(* The driver state an accepted operation leads to, where it changes it;   *)
(* ENDXFER depends on the hopper.                                          *)
Reaches ==
  [ MSG_OPENDSM |-> 3, MSG_OPENDS |-> 4, MSG_ENABLEDS |-> 5, DAT_IMAGEMEMXFER |-> 7,
    MSG_RESET |-> 5, MSG_DISABLEDS |-> 4, MSG_CLOSEDS |-> 3, MSG_CLOSEDSM |-> 2 ]

Faults == Operations \cup {"load", "window", "find", "strip", "compressed", "panic"}

ASSUME TwainAssumption ==
  /\ Jobs \subseteq {"scan", "list"}
  /\ Drivers \subseteq [strict : BOOLEAN, mayFail : SUBSET Faults]
  /\ MaxSheets \in Nat \ {0}

VARIABLES
  job,        \* what the session is for
  twain,      \* the driver it meets: whether it refuses calls out of sequence
              \* or obeys them, and the operations that may fail by themselves
  step,       \* the next step of its thread
  held,       \* the typestate value the thread holds, or "none"
  todo,       \* driver calls a Drop still has to make
  outcome,    \* what the closure will return
  flag,       \* the cancel flag of the scan
  pages,      \* pages handed over
  driver,     \* the TWAIN state the driver is really in
  loaded,     \* whether TWAINDSM.dll is loaded
  sheets      \* sheets left in the hopper

vars == <<job, twain, step, held, todo, outcome, flag, pages, driver, loaded, sheets>>

(* The TWAIN state each typestate value stands for. *)
StateOf ==
  [ none |-> 1, PreSession |-> 1, DsmLoaded |-> 2, DsmOpened |-> 3, SourceOpened |-> 4,
    SourceEnabled |-> 5, TransferReady |-> 6 ]

Steps == {"load", "window", "open_dsm", "find", "open_source", "enable", "wait",
          "between", "info", "setup", "strips", "end_transfer", "close", "close_dsm",
          "drop", "over"}
ClosingCalls == {"MSG_RESET", "MSG_DISABLEDS", "MSG_CLOSEDS", "MSG_CLOSEDSM"}

TypeOK ==
  /\ job \in {"scan", "list"}
  /\ twain \in Drivers
  /\ step \in Steps
  /\ held \in DOMAIN StateOf
  /\ todo \in Seq(ClosingCalls)
  /\ outcome \in {"none", "ok", "error", "cancelled", "panic"}
  /\ flag \in BOOLEAN
  /\ pages \in Nat /\ pages + sheets <= MaxSheets
  /\ driver \in 2..7
  /\ loaded \in BOOLEAN
  /\ sheets \in Nat

Init ==
  /\ job \in Jobs
  /\ twain \in Drivers
  /\ step = "load"
  /\ held = "PreSession"
  /\ todo = <<>>
  /\ outcome = "none"
  /\ flag = FALSE
  /\ pages = 0
  /\ driver = 2
  /\ loaded = FALSE
  /\ sheets \in 1..MaxSheets

(***************************************************************************)
(* The driver.  A strict one refuses what is out of sequence, another one  *)
(* obeys; either may refuse for reasons of its own, and stays put then.    *)
(***************************************************************************)
InSequence(op) == driver \in Allowed[op]
Accepts(op) ==
  /\ InSequence(op) \/ ~twain.strict
  /\ driver' = IF op \in DOMAIN Reaches THEN Reaches[op] ELSE driver
Refuses(op) ==
  /\ op \in twain.mayFail \/ (twain.strict /\ ~InSequence(op))
  /\ UNCHANGED driver

(* Mutant: TransferReady has no Drop of its own beyond the open source. *)
DropCallsShort(h) ==
  CASE h = "DsmOpened" -> <<"MSG_CLOSEDSM">>
    [] h \in {"SourceOpened", "SourceEnabled"} -> <<"MSG_CLOSEDS", "MSG_CLOSEDSM">>
    [] OTHER -> <<>>

(* The calls the Drop of each typestate value makes, results ignored. *)
DropCalls(h) ==
  CASE h = "DsmOpened"     -> <<"MSG_CLOSEDSM">>
    [] h = "SourceOpened"  -> <<"MSG_CLOSEDS", "MSG_CLOSEDSM">>
    [] h = "SourceEnabled" -> <<"MSG_DISABLEDS", "MSG_CLOSEDS", "MSG_CLOSEDSM">>
    [] h = "TransferReady" -> <<"MSG_RESET", "MSG_DISABLEDS", "MSG_CLOSEDS", "MSG_CLOSEDSM">>
    [] OTHER -> <<>>

(* `?` with the value still held: its Drop cleans up. *)
Unwind(result) ==
  /\ step' = "drop"
  /\ todo' = DropCalls(held)
  /\ held' = "none"
  /\ outcome' = result

(* `?` inside a consuming transition: the handle was taken out of the      *)
(* value first, so the Drop finds nothing and the library just unloads.    *)
Lose(result) ==
  /\ step' = "drop"
  /\ todo' = <<>>
  /\ held' = "none"
  /\ outcome' = result

(* Mutant: a transition builds the next state whatever the call returned. *)
ConsumeUnchecked(op, next, then) ==
  /\ Accepts(op) \/ Refuses(op)
  /\ held' = next /\ step' = then
  /\ UNCHANGED <<todo, outcome>>

(* A consuming transition: one driver call between two typestate values. *)
Consume(op, next, then) ==
  \/ /\ Accepts(op)
     /\ held' = next /\ step' = then
     /\ UNCHANGED <<todo, outcome>>
  \/ Refuses(op) /\ Lose("error")

(* A call made through a value that stays held. *)
Ask(op, then) ==
  \/ /\ Accepts(op)
     /\ step' = then
     /\ UNCHANGED <<held, todo, outcome>>
  \/ Refuses(op) /\ Unwind("error")

scanVars == <<job, twain, flag, pages, loaded, sheets>>

(***************************************************************************)
(* Opening.                                                                *)
(***************************************************************************)
LoadDsm ==
  /\ step = "load"
  /\ \/ loaded' = TRUE /\ held' = "DsmLoaded" /\ step' = "window"
        /\ UNCHANGED <<todo, outcome>>
     \/ "load" \in twain.mayFail /\ Unwind("error") /\ UNCHANGED loaded
  /\ UNCHANGED <<job, twain, flag, pages, driver, sheets>>

CreateWindow ==
  /\ step = "window"
  /\ \/ step' = "open_dsm" /\ UNCHANGED <<held, todo, outcome>>
     \/ "window" \in twain.mayFail /\ Unwind("error")
  /\ UNCHANGED <<driver, scanVars>>

OpenDsm ==
  /\ step = "open_dsm"
  /\ Consume("MSG_OPENDSM", "DsmOpened", "find")
  /\ UNCHANGED scanVars

(* list_sources: the discovery's result, or the look-up of open_source. *)
ListSources ==
  /\ step = "find"
  /\ \/ /\ step' = IF job = "list" THEN "close_dsm" ELSE "open_source"
        /\ outcome' = IF job = "list" THEN "ok" ELSE outcome
        /\ UNCHANGED <<held, todo>>
     \/ job = "scan" /\ "find" \in twain.mayFail /\ Unwind("error")
  /\ UNCHANGED <<driver, scanVars>>

OpenSource ==
  /\ step = "open_source"
  /\ Consume("MSG_OPENDS", "SourceOpened", "enable")
  /\ UNCHANGED scanVars

(* configure() comes first and cannot fail: refused capabilities are only  *)
(* logged.                                                                 *)
Enable ==
  /\ step = "enable"
  /\ Consume("MSG_ENABLEDS", "SourceEnabled", "wait")
  /\ UNCHANGED scanVars

(***************************************************************************)
(* wait_for_transfer: the flag, then one window message, and again.  The   *)
(* flag may go up between the two, so a signal can still win.              *)
(***************************************************************************)
(* Mutant: a cancellation is only looked for once a page is in. *)
WaitCancelledLater ==
  /\ step = "wait" /\ flag /\ pages > 0
  /\ Consume("MSG_DISABLEDS", "SourceOpened", "close")
  /\ UNCHANGED scanVars

WaitCancelled ==
  /\ step = "wait" /\ flag
  /\ Consume("MSG_DISABLEDS", "SourceOpened", "close")
  /\ UNCHANGED scanVars

(* The driver signals MSG_XFERREADY. *)
TransferIsReady ==
  /\ step = "wait"
  /\ driver' = 6
  /\ held' = "TransferReady"
  /\ step' = "between"
  /\ UNCHANGED <<todo, outcome, scanVars>>

(* The driver signals MSG_CLOSEDSREQ or MSG_CLOSEDSOK. *)
CloseRequested ==
  /\ step = "wait"
  /\ Consume("MSG_DISABLEDS", "SourceOpened", "close")
  /\ UNCHANGED scanVars

(***************************************************************************)
(* The page loop.                                                          *)
(***************************************************************************)
CheckFlag ==
  /\ step = "between"
  /\ IF flag
       THEN \/ /\ Accepts("MSG_RESET")
               /\ held' = "SourceOpened" /\ step' = "close" /\ outcome' = "cancelled"
               /\ UNCHANGED todo
            \/ Refuses("MSG_RESET") /\ Lose("error")
       ELSE step' = "info" /\ UNCHANGED <<held, todo, outcome, driver>>
  /\ UNCHANGED scanVars

GetImageInfo ==
  /\ step = "info"
  /\ Ask("DAT_IMAGEINFO", "setup")
  /\ UNCHANGED scanVars

SetupTransfer ==
  /\ step = "setup"
  /\ Ask("DAT_SETUPMEMXFER", "strips")
  /\ UNCHANGED scanVars

(* Strips until XFERDONE.  A refused strip only ends the loop; a           *)
(* compressed one, or one that overruns the buffer, leaves the function    *)
(* with the driver in the middle of the transfer.                          *)
TransferStrips ==
  /\ step = "strips"
  /\ \/ Accepts("DAT_IMAGEMEMXFER") /\ step' = "end_transfer" /\ UNCHANGED <<held, todo, outcome>>
     \/ "strip" \in twain.mayFail /\ driver' \in {6, 7} /\ step' = "end_transfer"
        /\ UNCHANGED <<held, todo, outcome>>
     \/ "compressed" \in twain.mayFail /\ Accepts("DAT_IMAGEMEMXFER") /\ Unwind("error")
     \/ "panic" \in twain.mayFail /\ Accepts("DAT_IMAGEMEMXFER") /\ Unwind("panic")
  /\ UNCHANGED scanVars

(* Mutant: the pending count is tested before it is brought up to date. *)
EndTransferOnceMore ==
  /\ step = "end_transfer"
  /\ \/ /\ InSequence("MSG_ENDXFER") \/ ~twain.strict
        /\ sheets' = sheets - 1
        /\ pages' = pages + 1
        /\ IF sheets = 0
             THEN held' = "SourceOpened" /\ step' = "close" /\ driver' = 5
             ELSE held' = "TransferReady" /\ step' = "between" /\ driver' = 6
        /\ UNCHANGED <<todo, outcome>>
     \/ Refuses("MSG_ENDXFER") /\ Unwind("error") /\ UNCHANGED <<sheets, pages>>
  /\ UNCHANGED <<job, twain, flag, loaded>>

(* The pending count decides what the next value is, and with Count = 0    *)
(* the driver is back in state 5 while the wrapper holds a SourceOpened.   *)
EndTransfer ==
  /\ step = "end_transfer"
  /\ \/ /\ InSequence("MSG_ENDXFER") \/ ~twain.strict
        /\ sheets' = sheets - 1
        /\ pages' = pages + 1
        /\ IF sheets' = 0
             THEN held' = "SourceOpened" /\ step' = "close" /\ driver' = 5
             ELSE held' = "TransferReady" /\ step' = "between" /\ driver' = 6
        /\ UNCHANGED <<todo, outcome>>
     \/ Refuses("MSG_ENDXFER") /\ Unwind("error") /\ UNCHANGED <<sheets, pages>>
  /\ UNCHANGED <<job, twain, flag, loaded>>

(***************************************************************************)
(* Closing.                                                                *)
(***************************************************************************)
(* Mutant: the result of closing the source is ignored. *)
CloseSourceIgnored ==
  /\ step = "close"
  /\ Accepts("MSG_CLOSEDS") \/ Refuses("MSG_CLOSEDS")
  /\ held' = "DsmOpened" /\ step' = "close_dsm"
  /\ outcome' = IF outcome = "none" THEN "ok" ELSE outcome
  /\ UNCHANGED <<todo, scanVars>>

CloseSource ==
  /\ step = "close"
  /\ \/ /\ Accepts("MSG_CLOSEDS")
        /\ held' = "DsmOpened" /\ step' = "close_dsm"
        /\ outcome' = IF outcome = "none" THEN "ok" ELSE outcome
        /\ UNCHANGED todo
     \/ Refuses("MSG_CLOSEDS") /\ Lose("error")
  /\ UNCHANGED scanVars

(* close_dsm, whose result both callers ignore. *)
CloseDsm ==
  /\ step = "close_dsm"
  /\ Accepts("MSG_CLOSEDSM") \/ Refuses("MSG_CLOSEDSM")
  /\ held' = "none" /\ step' = "drop"
  /\ UNCHANGED <<todo, outcome, scanVars>>

(* The next call of a Drop. *)
DropCall ==
  /\ step = "drop" /\ todo # <<>>
  /\ Accepts(Head(todo)) \/ Refuses(Head(todo))
  /\ todo' = Tail(todo)
  /\ UNCHANGED <<step, held, outcome, scanVars>>

(* The DsmHandle goes last, and the library with it. *)
UnloadLibrary ==
  /\ step = "drop" /\ todo = <<>>
  /\ loaded' = FALSE
  /\ step' = "over"
  /\ UNCHANGED <<job, twain, held, todo, outcome, flag, pages, driver, sheets>>

(* cancel_scan, from outside.  No client knows the id of a scan before its *)
(* first page, but the wrapper does not rely on that.                      *)
RaiseFlag ==
  /\ job = "scan" /\ ~flag /\ step # "over"
  /\ flag' = TRUE
  /\ UNCHANGED <<job, twain, step, held, todo, outcome, pages, driver, loaded, sheets>>

Over == step = "over" /\ UNCHANGED vars

(* Steps of the thread; the wait for the driver's own signals is apart. *)
Thread ==
  \/ LoadDsm \/ CreateWindow \/ OpenDsm \/ ListSources \/ OpenSource \/ Enable
  \/ WaitCancelled \/ CheckFlag \/ GetImageInfo \/ SetupTransfer \/ TransferStrips
  \/ EndTransfer \/ CloseSource \/ CloseDsm \/ DropCall \/ UnloadLibrary
Signals == TransferIsReady \/ CloseRequested

Next == Thread \/ Signals \/ RaiseFlag \/ Over

Spec == Init /\ [][Next]_vars
(* Driver calls return; the driver need not ever signal anything. *)
FairSpec == Spec /\ WF_vars(Thread)

(***************************************************************************)
(* Properties                                                              *)
(***************************************************************************)
(* The wrapper never believes the driver further on than it is: a          *)
(* transition builds the next value only once the driver has followed, so  *)
(* no operation meets a driver that has not got there yet.                 *)
NeverAhead == StateOf[held] <= driver

(* A scan thread that returns Ok, or Cancelled between pages, has closed   *)
(* its source, whatever failed on the way: a source left open is never     *)
(* passed off as a success.                                                *)
SuccessClosesSource == step = "over" /\ outcome \in {"ok", "cancelled"} => driver <= 3

(* A driver that obeys, and whose opening and closing operations succeed. *)
Gentle(d) ==
  ~d.strict /\ d.mayFail \cap (DOMAIN Reaches \ {"DAT_IMAGEMEMXFER"}) = {}

(* On a driver that obeys, failing to get at a page leaves nothing open:   *)
(* the Drop of the held value undoes every state before the library goes.  *)
NothingLeftOpen == ~loaded /\ Gentle(twain) => driver = 2

(* A session whose scan is cancelled ends, also when the driver never      *)
(* signals anything again.                                                 *)
CancelEndsSession == flag ~> step = "over"

(* The operation the thread sends next, where only one call can follow. *)
NextCall ==
  CASE step = "open_dsm" -> "MSG_OPENDSM"
    [] step = "open_source" -> "MSG_OPENDS"
    [] step = "enable" -> "MSG_ENABLEDS"
    [] step = "end_transfer" -> "MSG_ENDXFER"
    [] step = "close" -> "MSG_CLOSEDS"
    [] step = "close_dsm" -> "MSG_CLOSEDSM"
    [] step = "drop" /\ todo # <<>> -> Head(todo)
    [] OTHER -> "none"

(* twain.rs:3-4 says the typestate makes invalid transitions impossible:   *)
(* no operation is ever sent to a driver that is not in a state for it.    *)
TransitionsValid == NextCall # "none" => InSequence(NextCall)
=============================================================================
