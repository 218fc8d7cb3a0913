-------------------------- MODULE TwainSessionProofs --------------------------
(***************************************************************************)
(* What holds of a native TWAIN session for every driver, obeying or       *)
(* strict, every set of faults and every number of sheets.                 *)
(***************************************************************************)
EXTENDS TwainSession, SequenceTheorems, TLAPS

(***************************************************************************)
(* The inductive invariant: what the thread holds and where the driver     *)
(* stands at each step.  `strips` and `close` are the steps at which the   *)
(* driver may be in another state than the wrapper believes.               *)
(***************************************************************************)
Aligned ==
  /\ step = "load"         => held = "PreSession"    /\ driver = 2
  /\ step \in {"window", "open_dsm"} => held = "DsmLoaded" /\ driver = 2
  /\ step \in {"find", "open_source", "close_dsm"} => held = "DsmOpened" /\ driver = 3
  /\ step = "enable"       => held = "SourceOpened"  /\ driver = 4
  /\ step = "wait"         => held = "SourceEnabled" /\ driver = 5
  /\ step \in {"between", "info", "setup", "strips"} => held = "TransferReady" /\ driver = 6
  /\ step = "end_transfer" => held = "TransferReady" /\ driver \in {6, 7}
  /\ step = "close"        => held = "SourceOpened"  /\ driver \in {4, 5}
  /\ step \in {"drop", "over"} => held = "none"

Hopper == step \notin {"close", "close_dsm", "drop", "over"} => sheets > 0

(* An outcome other than an error is decided on the way through close. *)
Verdict ==
  /\ outcome = "ok" => step \in {"close_dsm", "drop", "over"}
  /\ outcome = "cancelled" => step \in {"close", "close_dsm", "drop", "over"}
  /\ step \in {"drop", "over"} /\ outcome \in {"ok", "cancelled"} => driver <= 3 /\ todo = <<>>
  /\ step \notin {"drop", "over"} => todo = <<>> 

IInv == TypeOK /\ Aligned /\ Hopper /\ Verdict

(* What a Drop calls is a sequence of closing calls, whatever the value.   *)
LEMMA DropCallsType ==
  ASSUME NEW h
  PROVE  DropCalls(h) \in Seq(ClosingCalls)
  <1>1. CASE h = "DsmOpened"
    BY <1>1 DEF DropCalls, ClosingCalls
  <1>2. CASE h = "SourceOpened"
    BY <1>2 DEF DropCalls, ClosingCalls
  <1>3. CASE h = "SourceEnabled"
    BY <1>3 DEF DropCalls, ClosingCalls
  <1>4. CASE h = "TransferReady"
    BY <1>4 DEF DropCalls, ClosingCalls
  <1>5. CASE h \notin {"DsmOpened", "SourceOpened", "SourceEnabled", "TransferReady"}
    <2>1. DropCalls(h) = <<>>
      BY <1>5 DEF DropCalls
    <2>2. QED
      BY <2>1
  <1>6. QED
    BY <1>1, <1>2, <1>3, <1>4, <1>5

(* A session begins with the library not loaded and the driver in state 2. *)
LEMMA InitIInv == Init => IInv
  <1> SUFFICES ASSUME Init PROVE IInv
    OBVIOUS
  <1>1. TypeOK
    <2>1. todo \in Seq(ClosingCalls)
      BY DEF Init
    <2>2. sheets \in Nat /\ pages \in Nat /\ pages + sheets <= MaxSheets
      BY TwainAssumption DEF Init
    <2>3. job \in {"scan", "list"} /\ twain \in Drivers
      BY TwainAssumption DEF Init
    <2>4. held \in DOMAIN StateOf
      BY DEF Init, StateOf
    <2>5. step \in Steps /\ outcome = "none" /\ flag = FALSE /\ driver = 2 /\ loaded = FALSE
      BY DEF Init, Steps
    <2>6. outcome \in {"none", "ok", "error", "cancelled", "panic"}
      BY <2>5
    <2>7. driver \in 2..7
      BY <2>5
    <2>8. flag \in BOOLEAN /\ loaded \in BOOLEAN
      BY <2>5
    <2>9. step \in Steps
      BY <2>5
    <2>10. QED
      BY <2>1, <2>2, <2>3, <2>4, <2>6, <2>7, <2>8, <2>9 DEF TypeOK
  <1>2. Aligned /\ Hopper /\ Verdict
    BY TwainAssumption DEF Init, Aligned, Hopper, Verdict
  <1>3. QED
    BY <1>1, <1>2 DEF IInv

(* A consuming transition that fails, or a failing call with the value     *)
(* still held, ends in a Drop that owes no success to anybody.             *)
LEMMA GivingUp ==
  ASSUME IInv, NEW result \in {"error", "panic"}, Unwind(result) \/ Lose(result),
         driver' \in 2..7, UNCHANGED <<job, twain, flag, pages, sheets>>, loaded' \in BOOLEAN
  PROVE  IInv'
  <1>1. todo' \in Seq(ClosingCalls)
    <2>1. <<>> \in Seq(ClosingCalls)
      OBVIOUS
    <2>2. QED
      BY <2>1, DropCallsType DEF Unwind, Lose
  <1>2. step' = "drop" /\ held' = "none" /\ outcome' = result
    BY DEF Unwind, Lose
  <1>3. TypeOK'
    BY <1>1, <1>2 DEF IInv, TypeOK, Steps, StateOf
  <1>4. Aligned' /\ Hopper' /\ Verdict'
    BY <1>2 DEF Aligned, Hopper, Verdict
  <1>5. QED
    BY <1>3, <1>4 DEF IInv

(* One step per action of the thread, and the flag raised from outside.    *)
LEMMA NextIInv ==
  ASSUME IInv, [Next]_vars
  PROVE  IInv'
  <1> USE DEF scanVars
  <1>g. \A result \in {"error", "panic"} :
          (Unwind(result) \/ Lose(result)) /\ driver' \in 2..7
            /\ UNCHANGED <<job, twain, flag, pages, sheets>> /\ loaded' \in BOOLEAN => IInv'
    BY GivingUp
  <1>a. ASSUME NEW op \in DOMAIN Reaches, Accepts(op) PROVE driver' = Reaches[op]
    BY <1>a DEF Accepts
  <1>r. ASSUME NEW op, Refuses(op) PROVE driver' = driver
    BY <1>r DEF Refuses
  <1>t. driver \in 2..7 /\ loaded \in BOOLEAN
    BY DEF IInv, TypeOK
  <1>c. ASSUME NEW op \in DOMAIN Reaches, NEW next, NEW then, Consume(op, next, then),
               UNCHANGED <<job, twain, flag, pages, loaded, sheets>>
        PROVE  \/ IInv'
               \/ /\ driver' = Reaches[op] /\ held' = next /\ step' = then
                  /\ UNCHANGED <<todo, outcome>>
    <2>1. CASE Refuses(op) /\ Lose("error")
      BY <2>1, <1>c, <1>g, <1>r, <1>t
    <2>2. CASE Accepts(op) /\ held' = next /\ step' = then /\ UNCHANGED <<todo, outcome>>
      BY <2>2, <1>a
    <2>3. QED
      BY <1>c, <2>1, <2>2 DEF Consume
  <1>1. CASE LoadDsm
    <2>1. CASE Unwind("error") /\ UNCHANGED loaded
      BY <1>1, <2>1, <1>g, <1>t DEF LoadDsm
    <2>2. CASE loaded' = TRUE /\ held' = "DsmLoaded" /\ step' = "window" /\ UNCHANGED <<todo, outcome>>
      BY <1>1, <2>2 DEF LoadDsm, IInv, TypeOK, Aligned, Hopper, Verdict, Steps, StateOf
    <2>3. QED
      BY <1>1, <2>1, <2>2 DEF LoadDsm
  <1>2. CASE CreateWindow
    <2>1. CASE Unwind("error")
      BY <1>2, <2>1, <1>g, <1>t DEF CreateWindow
    <2>2. CASE ~Unwind("error")
      BY <1>2, <2>2 DEF CreateWindow, IInv, TypeOK, Aligned, Hopper, Verdict, Steps
    <2>3. QED
      BY <2>1, <2>2
  <1>3. CASE OpenDsm
    <2>1. CASE /\ driver' = 3 /\ held' = "DsmOpened" /\ step' = "find"
               /\ UNCHANGED <<todo, outcome>>
      BY <1>3, <2>1 DEF OpenDsm, IInv, TypeOK, Aligned, Hopper, Verdict, Steps, StateOf
    <2>2. QED
      BY <1>3, <2>1, <1>c DEF OpenDsm, Reaches
  <1>4. CASE ListSources
    <2>1. CASE Unwind("error")
      BY <1>4, <2>1, <1>g, <1>t DEF ListSources
    <2>2. CASE ~Unwind("error")
      BY <1>4, <2>2 DEF ListSources, IInv, TypeOK, Aligned, Hopper, Verdict, Steps
    <2>3. QED
      BY <2>1, <2>2
  <1>5. CASE OpenSource
    <2>1. CASE /\ driver' = 4 /\ held' = "SourceOpened" /\ step' = "enable"
               /\ UNCHANGED <<todo, outcome>>
      BY <1>5, <2>1 DEF OpenSource, IInv, TypeOK, Aligned, Hopper, Verdict, Steps, StateOf
    <2>2. QED
      BY <1>5, <2>1, <1>c DEF OpenSource, Reaches
  <1>6. CASE Enable
    <2>1. CASE /\ driver' = 5 /\ held' = "SourceEnabled" /\ step' = "wait"
               /\ UNCHANGED <<todo, outcome>>
      BY <1>6, <2>1 DEF Enable, IInv, TypeOK, Aligned, Hopper, Verdict, Steps, StateOf
    <2>2. QED
      BY <1>6, <2>1, <1>c DEF Enable, Reaches
  <1>7. CASE WaitCancelled \/ CloseRequested
    <2>1. CASE /\ driver' = 4 /\ held' = "SourceOpened" /\ step' = "close"
               /\ UNCHANGED <<todo, outcome>>
      BY <1>7, <2>1 DEF WaitCancelled, CloseRequested, IInv, TypeOK, Aligned, Hopper, Verdict,
                        Steps, StateOf
    <2>2. QED
      BY <1>7, <2>1, <1>c DEF WaitCancelled, CloseRequested, Reaches
  <1>8. CASE TransferIsReady
    BY <1>8 DEF TransferIsReady, IInv, TypeOK, Aligned, Hopper, Verdict, Steps, StateOf
  <1>9. CASE CheckFlag
    <2>1. CASE Lose("error")
      <3>1. driver' \in 2..7
        BY <1>9, <2>1, <1>r, <1>t, <1>a DEF CheckFlag, Reaches
      <3>2. QED
        BY <1>9, <2>1, <3>1, <1>g, <1>t DEF CheckFlag
    <2>2. CASE /\ Accepts("MSG_RESET")
               /\ held' = "SourceOpened" /\ step' = "close" /\ outcome' = "cancelled"
               /\ UNCHANGED todo
      <3>1. driver' = 5
        BY <2>2, <1>a DEF Reaches
      <3>2. QED
        BY <1>9, <2>2, <3>1 DEF CheckFlag, IInv, TypeOK, Aligned, Hopper, Verdict, Steps, StateOf
    <2>3. CASE step' = "info" /\ UNCHANGED <<held, todo, outcome, driver>>
      BY <1>9, <2>3 DEF CheckFlag, IInv, TypeOK, Aligned, Hopper, Verdict, Steps
    <2>4. QED
      BY <1>9, <2>1, <2>2, <2>3 DEF CheckFlag
  <1>10. CASE GetImageInfo \/ SetupTransfer
    <2>1. driver' = driver
      BY <1>10 DEF GetImageInfo, SetupTransfer, Ask, Accepts, Refuses, Reaches
    <2>2. CASE Unwind("error")
      BY <1>10, <2>1, <2>2, <1>g, <1>t DEF GetImageInfo, SetupTransfer
    <2>3. CASE ~Unwind("error")
      BY <1>10, <2>1, <2>3 DEF GetImageInfo, SetupTransfer, Ask, IInv, TypeOK, Aligned, Hopper,
                          Verdict, Steps
    <2>4. QED
      BY <2>2, <2>3
  <1>11. CASE TransferStrips
    <2>1. driver' \in {6, 7}
      BY <1>11, <1>a DEF TransferStrips, Reaches
    <2>2. CASE Unwind("error") \/ Unwind("panic")
      BY <1>11, <2>1, <2>2, <1>g, <1>t DEF TransferStrips
    <2>3. CASE step' = "end_transfer" /\ UNCHANGED <<held, todo, outcome>>
      BY <1>11, <2>1, <2>3 DEF TransferStrips, IInv, TypeOK, Aligned, Hopper, Verdict, Steps
    <2>4. QED
      BY <1>11, <2>2, <2>3 DEF TransferStrips
  <1>12. CASE EndTransfer
    <2>1. CASE Refuses("MSG_ENDXFER") /\ Unwind("error") /\ UNCHANGED <<sheets, pages>>
      BY <1>12, <2>1, <1>g, <1>r, <1>t DEF EndTransfer
    <2>2. CASE /\ sheets' = sheets - 1 /\ pages' = pages + 1
               /\ IF sheets' = 0
                    THEN held' = "SourceOpened" /\ step' = "close" /\ driver' = 5
                    ELSE held' = "TransferReady" /\ step' = "between" /\ driver' = 6
               /\ UNCHANGED <<todo, outcome>>
      BY <1>12, <2>2 DEF EndTransfer, IInv, TypeOK, Aligned, Hopper, Verdict, Steps, StateOf
    <2>3. QED
      BY <1>12, <2>1, <2>2 DEF EndTransfer
  <1>13. CASE CloseSource
    <2>1. CASE Refuses("MSG_CLOSEDS") /\ Lose("error")
      BY <1>13, <2>1, <1>g, <1>r, <1>t DEF CloseSource
    <2>2. CASE /\ Accepts("MSG_CLOSEDS")
               /\ held' = "DsmOpened" /\ step' = "close_dsm"
               /\ outcome' = IF outcome = "none" THEN "ok" ELSE outcome
               /\ UNCHANGED todo
      <3>1. driver' = 3
        BY <2>2, <1>a DEF Reaches
      <3>2. QED
        BY <1>13, <2>2, <3>1 DEF CloseSource, IInv, TypeOK, Aligned, Hopper, Verdict, Steps, StateOf
    <2>3. QED
      BY <1>13, <2>1, <2>2 DEF CloseSource
  <1>14. CASE CloseDsm
    <2>1. driver' \in {2, 3}
      BY <1>14, <1>a, <1>r DEF CloseDsm, Reaches, IInv, Aligned
    <2>2. QED
      BY <1>14, <2>1 DEF CloseDsm, IInv, TypeOK, Aligned, Hopper, Verdict, Steps, StateOf
  <1>15. CASE DropCall
    <2>1. Head(todo) \in ClosingCalls /\ Tail(todo) \in Seq(ClosingCalls)
      BY <1>15 DEF DropCall, IInv, TypeOK
    <2>2. driver' \in 2..7
      BY <1>15, <2>1, <1>a, <1>r, <1>t DEF DropCall, ClosingCalls, Reaches
    <2>3. QED
      BY <1>15, <2>1, <2>2 DEF DropCall, IInv, TypeOK, Aligned, Hopper, Verdict
  <1>16. CASE UnloadLibrary
    BY <1>16 DEF UnloadLibrary, IInv, TypeOK, Aligned, Hopper, Verdict, Steps
  <1>17. CASE RaiseFlag
    BY <1>17 DEF RaiseFlag, IInv, TypeOK, Aligned, Hopper, Verdict
  <1>18. CASE UNCHANGED vars
    BY <1>18 DEF vars, IInv, TypeOK, Aligned, Hopper, Verdict
  <1>19. QED
    BY <1>1, <1>2, <1>3, <1>4, <1>5, <1>6, <1>7, <1>8, <1>9, <1>10, <1>11, <1>12, <1>13,
       <1>14, <1>15, <1>16, <1>17, <1>18 DEF Next, Thread, Signals, Over

(* The inductive invariant, behind the theorems on types, driver and       *)
(* outcome.                                                                *)
LEMMA Invariance == Spec => []IInv
  <1>1. IInv /\ [Next]_vars => IInv'
    BY NextIInv
  <1>2. QED
    BY InitIInv, <1>1, PTL DEF Spec

(* Every variable keeps its type, and no sheet is counted twice.           *)
THEOREM TypeCorrect == Spec => []TypeOK
  <1>1. IInv => TypeOK
    BY DEF IInv
  <1>2. QED
    BY Invariance, <1>1, PTL

(* The typestate never runs ahead of the driver: a value of a later state  *)
(* exists only once the driver has reached that state.                     *)
THEOREM DriverReached == Spec => []NeverAhead
  <1>1. IInv => NeverAhead
    <2> SUFFICES ASSUME IInv PROVE NeverAhead
      OBVIOUS
    <2>1. step \in Steps /\ driver \in 2..7
      BY DEF IInv, TypeOK
    <2>2. QED
      BY <2>1 DEF IInv, Aligned, NeverAhead, StateOf, Steps
  <1>2. QED
    BY Invariance, <1>1, PTL

(* Whatever fails, and however the driver takes calls out of sequence, a   *)
(* session that reports a success or a cancellation has closed the source. *)
THEOREM SuccessIsClosed == Spec => []SuccessClosesSource
  <1>1. IInv => SuccessClosesSource
    BY DEF IInv, Verdict, SuccessClosesSource
  <1>2. QED
    BY Invariance, <1>1, PTL

(***************************************************************************)
(* What a Drop still owes.  A library that is not loaded has nothing left  *)
(* to undo, and on a gentle driver the calls still to be made end with the *)
(* one that closes the data source manager.                                *)
(***************************************************************************)
Unloaded == ~loaded => step \in {"load", "drop", "over"} /\ todo = <<>>

Owed ==
  Gentle(twain) /\ step \in {"drop", "over"} =>
    IF todo = <<>> THEN driver = 2 ELSE todo[Len(todo)] = "MSG_CLOSEDSM"

(* The calls of a Drop end with the manager, if there are any: there are   *)
(* none for what comes before the manager is open.                         *)
LEMMA DropCallsEnd ==
  ASSUME NEW h \in DOMAIN StateOf
  PROVE  IF h \in {"none", "PreSession", "DsmLoaded"} THEN DropCalls(h) = <<>>
         ELSE DropCalls(h) # <<>> /\ DropCalls(h)[Len(DropCalls(h))] = "MSG_CLOSEDSM"
  <1>1. CASE h \in {"none", "PreSession", "DsmLoaded"}
    BY <1>1 DEF DropCalls
  <1>2. CASE h = "DsmOpened"
    BY <1>2 DEF DropCalls
  <1>3. CASE h = "SourceOpened"
    BY <1>3 DEF DropCalls
  <1>4. CASE h = "SourceEnabled"
    BY <1>4 DEF DropCalls
  <1>5. CASE h = "TransferReady"
    BY <1>5 DEF DropCalls
  <1>6. QED
    BY <1>1, <1>2, <1>3, <1>4, <1>5 DEF StateOf

(* A gentle driver refuses none of the calls that open or close.           *)
LEMMA GentleObeys ==
  ASSUME Gentle(twain), NEW op \in DOMAIN Reaches \ {"DAT_IMAGEMEMXFER"}
  PROVE  ~Refuses(op)
  BY DEF Gentle, Refuses

(* Giving up with a value held hands its calls to the Drop.                *)
LEMMA UnwindOwes ==
  ASSUME IInv, step \notin {"drop", "over"}, NEW result, Unwind(result), twain' = twain,
         UNCHANGED driver \/ step = "strips"
  PROVE  Owed'
  <1>1. held \in DOMAIN StateOf /\ step \in Steps
    BY DEF IInv, TypeOK
  <1>2. todo' = DropCalls(held)
    BY DEF Unwind
  <1>3. CASE held \in {"none", "PreSession", "DsmLoaded"}
    <2>1. todo' = <<>>
      BY <1>1, <1>2, <1>3, DropCallsEnd
    <2>2. driver' = 2
      BY <1>1, <1>3 DEF IInv, Aligned, Steps
    <2>3. QED
      BY <2>1, <2>2 DEF Owed
  <1>4. CASE held \notin {"none", "PreSession", "DsmLoaded"}
    <2>1. todo' # <<>> /\ todo'[Len(todo')] = "MSG_CLOSEDSM"
      BY <1>1, <1>2, <1>4, DropCallsEnd
    <2>2. QED
      BY <2>1 DEF Owed
  <1>5. QED
    BY <1>3, <1>4

(* A step keeps what is owed to the driver until the manager is closed.    *)
LEMMA NextOwed ==
  ASSUME IInv, Unloaded, Owed, [Next]_vars
  PROVE  Unloaded' /\ Owed'
  <1> USE DEF scanVars
  <1>t. /\ step \in Steps /\ held \in DOMAIN StateOf /\ todo \in Seq(ClosingCalls)
        /\ step \notin {"drop", "over"} => todo = <<>>
    BY DEF IInv, TypeOK, Verdict
  <1>u. ASSUME NEW result, Unwind(result), step \notin {"load", "drop", "over"}, twain' = twain,
               loaded' = loaded, UNCHANGED driver \/ step = "strips"
        PROVE  Unloaded' /\ Owed'
    BY <1>u, UnwindOwes DEF Unloaded
  <1>c. ASSUME NEW op \in DOMAIN Reaches \ {"DAT_IMAGEMEMXFER"}, Refuses(op), Lose("error"),
               step \notin {"load", "drop", "over"}, twain' = twain, loaded' = loaded
        PROVE  Unloaded' /\ Owed'
    BY <1>c, GentleObeys DEF Unloaded, Owed, Lose
  <1>s. ASSUME step \notin {"load", "drop", "over"}, step' \notin {"load", "drop", "over"},
               loaded' = loaded
        PROVE  Unloaded' /\ Owed'
    BY <1>s DEF Unloaded, Owed
  <1>1. CASE LoadDsm
    <2>1. CASE Unwind("error") /\ UNCHANGED loaded
      <3>1. Owed'
        BY <1>1, <2>1, UnwindOwes DEF LoadDsm
      <3>2. todo' = <<>>
        BY <1>1, <1>t, <2>1, DropCallsEnd DEF LoadDsm, Unwind, IInv, Aligned
      <3>3. QED
        BY <2>1, <3>1, <3>2 DEF Unloaded, Unwind
    <2>2. CASE loaded' = TRUE /\ step' = "window"
      BY <2>2 DEF Unloaded, Owed
    <2>3. QED
      BY <1>1, <2>1, <2>2 DEF LoadDsm
  <1>2. CASE CreateWindow
    <2>1. CASE Unwind("error")
      BY <1>2, <2>1, <1>u DEF CreateWindow
    <2>2. QED
      BY <1>2, <2>1, <1>s DEF CreateWindow
  <1>3. CASE OpenDsm \/ OpenSource \/ Enable \/ WaitCancelled \/ CloseRequested
    <2>1. PICK op \in {"MSG_OPENDSM", "MSG_OPENDS", "MSG_ENABLEDS", "MSG_DISABLEDS"},
               next \in DOMAIN StateOf, then \in {"find", "enable", "wait", "close"} :
                 Consume(op, next, then)
      BY <1>3 DEF OpenDsm, OpenSource, Enable, WaitCancelled, CloseRequested, StateOf
    <2>2. op \in DOMAIN Reaches \ {"DAT_IMAGEMEMXFER"}
      BY DEF Reaches
    <2>3. twain' = twain /\ loaded' = loaded /\ step \notin {"load", "drop", "over"}
      BY <1>3 DEF OpenDsm, OpenSource, Enable, WaitCancelled, CloseRequested
    <2>4. CASE Refuses(op) /\ Lose("error")
      BY <2>2, <2>3, <2>4, <1>c
    <2>5. CASE step' = then
      BY <2>3, <2>5, <1>s
    <2>6. QED
      BY <2>1, <2>4, <2>5 DEF Consume
  <1>4. CASE ListSources
    <2>1. CASE Unwind("error")
      BY <1>4, <2>1, <1>u DEF ListSources
    <2>2. QED
      BY <1>4, <2>1, <1>s DEF ListSources
  <1>5. CASE TransferIsReady
    BY <1>5, <1>s DEF TransferIsReady
  <1>6. CASE CheckFlag
    <2>1. CASE Refuses("MSG_RESET") /\ Lose("error")
      BY <1>6, <2>1, <1>c DEF CheckFlag, Reaches
    <2>2. QED
      BY <1>6, <2>1, <1>s DEF CheckFlag
  <1>7. CASE GetImageInfo \/ SetupTransfer
    <2>1. twain' = twain /\ loaded' = loaded /\ step \in {"info", "setup"} /\ driver' = driver
      BY <1>7 DEF GetImageInfo, SetupTransfer, Ask, Accepts, Refuses, Reaches
    <2>2. CASE Unwind("error")
      BY <2>1, <2>2, <1>u
    <2>3. QED
      BY <1>7, <2>1, <2>2, <1>s DEF GetImageInfo, SetupTransfer, Ask
  <1>8. CASE TransferStrips
    <2>1. CASE Unwind("error") \/ Unwind("panic")
      BY <1>8, <2>1, <1>u DEF TransferStrips
    <2>2. QED
      BY <1>8, <2>1, <1>s DEF TransferStrips
  <1>9. CASE EndTransfer
    <2>1. CASE Refuses("MSG_ENDXFER") /\ Unwind("error")
      BY <1>9, <2>1, <1>u DEF EndTransfer, Refuses
    <2>2. QED
      BY <1>9, <2>1, <1>s DEF EndTransfer
  <1>10. CASE CloseSource
    <2>1. CASE Refuses("MSG_CLOSEDS") /\ Lose("error")
      BY <1>10, <2>1, <1>c DEF CloseSource, Reaches
    <2>2. QED
      BY <1>10, <2>1, <1>s DEF CloseSource
  <1>11. CASE CloseDsm
    <2>1. Gentle(twain) => driver' = 2
      BY <1>11, GentleObeys DEF CloseDsm, Accepts, Reaches
    <2>2. todo' = <<>> /\ step' = "drop" /\ twain' = twain
      BY <1>11, <1>t DEF CloseDsm
    <2>3. QED
      BY <2>1, <2>2 DEF Unloaded, Owed
  <1>12. CASE DropCall
    <2>1. step' = "drop" /\ twain' = twain /\ loaded' = loaded /\ todo' = Tail(todo) /\ todo # <<>>
      BY <1>12 DEF DropCall
    <2>2. loaded
      BY <2>1 DEF Unloaded
    <2>3. Unloaded'
      BY <2>1, <2>2 DEF Unloaded
    <2>4. CASE ~Gentle(twain)
      BY <2>1, <2>3, <2>4 DEF Owed
    <2>5. CASE Gentle(twain) /\ Len(todo) = 1
      <3>1. Head(todo) = "MSG_CLOSEDSM" /\ todo' = <<>>
        BY <1>12, <1>t, <2>1, <2>5 DEF Owed, DropCall
      <3>2. driver' = 2
        BY <1>12, <2>5, <3>1, GentleObeys DEF DropCall, Accepts, Reaches
      <3>3. QED
        BY <2>3, <3>1, <3>2 DEF Owed
    <2>6. CASE Gentle(twain) /\ Len(todo) # 1
      <3>1. todo[Len(todo)] = "MSG_CLOSEDSM"
        BY <1>12, <2>1, <2>6 DEF Owed, DropCall
      <3>2. Len(todo) \in Nat /\ Len(todo) > 1
        <4>1. Len(todo) \in Nat \ {0}
          BY <1>t, <2>1, EmptySeq
        <4>2. QED
          BY <1>t, <2>6, <4>1, SMTT(20)
      <3>3. Len(todo') = Len(todo) - 1 /\ todo'[Len(todo')] = todo[Len(todo)]
        <4>1. /\ Len(todo') = Len(todo) - 1
              /\ \A i \in 1..Len(todo') : todo'[i] = todo[i + 1]
          BY <1>t, <2>1, HeadTailProperties
        <4>2. QED
          BY <3>2, <4>1
      <3>4. todo' # <<>>
        BY <3>2, <3>3
      <3>5. QED
        BY <2>3, <3>1, <3>3, <3>4 DEF Owed
    <2>7. QED
      BY <2>4, <2>5, <2>6
  <1>13. CASE UnloadLibrary
    BY <1>13 DEF UnloadLibrary, Unloaded, Owed
  <1>14. CASE RaiseFlag
    BY <1>14 DEF RaiseFlag, Unloaded, Owed
  <1>15. CASE UNCHANGED vars
    BY <1>15 DEF vars, Unloaded, Owed
  <1>16. QED
    BY <1>1, <1>2, <1>3, <1>4, <1>5, <1>6, <1>7, <1>8, <1>9, <1>10, <1>11, <1>12, <1>13,
       <1>14, <1>15 DEF Next, Thread, Signals, Over

(* On a driver that obeys and whose opening and closing calls succeed, a   *)
(* session that fails in any other way leaves the manager and the source   *)
(* closed by the time the library is unloaded.                             *)
THEOREM EverythingClosed == Spec => []NothingLeftOpen
  <1>1. Init => Unloaded /\ Owed
    BY DEF Init, Unloaded, Owed
  <1>2. IInv /\ (Unloaded /\ Owed) /\ [Next]_vars => (Unloaded /\ Owed)'
    BY NextOwed
  <1>3. IInv /\ Unloaded /\ Owed => NothingLeftOpen
    BY DEF IInv, Aligned, Unloaded, Owed, NothingLeftOpen
  <1>4. QED
    BY Invariance, <1>1, <1>2, <1>3, PTL DEF Spec
=============================================================================
