------------------------------- MODULE LogFiles -------------------------------
(***************************************************************************)
(* The log files of the agent and of the sidecar, which share a directory  *)
(* (src-tauri/src/logging.rs and the sidecar's copy): a program opens the  *)
(* file of the day when it starts, prunes its old ones, and rolls to a new *)
(* file with its first line of another day.                                *)
(***************************************************************************)
EXTENDS Naturals, FiniteSets

CONSTANTS
  Programs,  \* LOG_PREFIX of each program
  Keep,      \* KEEP_DAYS
  MaxDay     \* bound: the last day

ASSUME LogAssumption == Keep \in Nat \ {0} /\ MaxDay \in Nat \ {0}

VARIABLES
  today,    \* the date
  setBack,  \* whether the clock was set back
  dir,      \* the names in the directory
  open,     \* per program, the day of the file it writes to, 0 for none
  running,  \* the programs that run
  written   \* per program, the days on which it has opened a file

logVars == <<today, setBack, dir, open, running, written>>

(* A file name: its prefix, the date that follows, 0 for none, and the     *)
(* rest.                                                                   *)
Name(p, date, rest) == [prefix |-> p, date |-> date, rest |-> rest]
Log(p, day) == Name(p, day, "")

(* What else is in the directory: a program's notes, an archived log.      *)
Others == {Name(p, 0, ".txt") : p \in Programs} \cup {Name(p, 1, ".gz") : p \in Programs}

LogsInit ==
  /\ today = 1
  /\ setBack = FALSE
  /\ dir = Others
  /\ open = [p \in Programs |-> 0]
  /\ running = {}
  /\ written = [p \in Programs |-> {}]

(* Mutant: any name with the prefix matches.                               *)
MatchingPrefix(names, p) == {f \in names : f.prefix = p}

(* The names that pruning looks at: the prefix, a date and nothing more.   *)
Matching(names, p) == {f \in names : f.prefix = p /\ f.date # 0 /\ f.rest = ""}

(* The last n of a set of days, in the order of their names.               *)
Latest(days, n) == {d \in days : Cardinality({e \in days : e > d}) < n}

(* prune_old_logs, given the names that cannot be removed: one that fails  *)
(* does not keep it from trying the rest.                                  *)
Pruned(names, p, stuck) ==
  LET matching == Matching(names, p)
      kept == Latest({f.date : f \in matching}, Keep)
  IN names \ {f \in matching \ stuck : f.date \notin kept}

(* init_logging: the file of the day is created or continued before the    *)
(* old ones are pruned.                                                    *)
Start(p, stuck) ==
  /\ p \notin running
  /\ running' = running \cup {p}
  /\ open' = [open EXCEPT ![p] = today]
  /\ written' = [written EXCEPT ![p] = @ \cup {today}]
  /\ dir' = Pruned(dir \cup {Log(p, today)}, p, stuck)
  /\ UNCHANGED <<today, setBack>>

(* The appender cannot be set up: the file layer is left out.              *)
StartWithoutFile(p) ==
  /\ p \notin running
  /\ running' = running \cup {p}
  /\ dir' = Pruned(dir, p, {})
  /\ UNCHANGED <<today, setBack, open, written>>

(* A line of a later day than the file's: the appender rolls over.         *)
Roll(p) ==
  /\ p \in running
  /\ open[p] # 0 /\ open[p] < today
  /\ open' = [open EXCEPT ![p] = today]
  /\ dir' = dir \cup {Log(p, today)}
  /\ written' = [written EXCEPT ![p] = @ \cup {today}]
  /\ UNCHANGED <<today, setBack, running>>

Stop(p) ==
  /\ p \in running
  /\ running' = running \ {p}
  /\ open' = [open EXCEPT ![p] = 0]
  /\ UNCHANGED <<today, setBack, dir, written>>

NewDay ==
  /\ today < MaxDay
  /\ today' = today + 1
  /\ UNCHANGED <<setBack, dir, open, running, written>>

ClockSetBack ==
  /\ ~setBack  \* bound: once
  /\ today' \in 1..(today - 1)
  /\ setBack' = TRUE
  /\ UNCHANGED <<dir, open, running, written>>

LogsNext ==
  \/ \E p \in Programs : StartWithoutFile(p) \/ Roll(p) \/ Stop(p)
  \/ \E p \in Programs : \E stuck \in SUBSET Matching(dir, p) : Start(p, stuck)
  \/ NewDay \/ ClockSetBack

LogsSpec == LogsInit /\ [][LogsNext]_logVars

(***************************************************************************)
(* Properties.                                                             *)
(***************************************************************************)

(* The logs of the last Keep days on which a program wrote are there, its  *)
(* open file among them, however often it and the other program start and  *)
(* prune, unless the clock has been set back; and what is not a dated log  *)
(* is never removed.                                                       *)
LogsKept ==
  /\ Others \subseteq dir
  /\ ~setBack => \A p \in Programs :
       \A d \in Latest(written[p], Keep) \cup ({open[p]} \ {0}) : Log(p, d) \in dir
=============================================================================
