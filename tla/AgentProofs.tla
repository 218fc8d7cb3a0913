------------------------------ MODULE AgentProofs ------------------------------
(***************************************************************************)
(* Three parts of the agent that run alone: the log files it shares a      *)
(* directory with; its start, from the files and variables a user may have *)
(* set up to the handshake of a client; and the choice of the source that  *)
(* a scan opens. They are proved for every set of origins, tokens and      *)
(* names of scanners, for tokens and lists of any length, and for every    *)
(* number of programs, of days and of logs kept.                           *)
(***************************************************************************)
EXTENDS ScannerChoice, Startup, LogFiles, FiniteSetTheorems, SequenceTheorems, TLAPS

(***************************************************************************)
(* Induction. What a loop or a recursion of the code computes for data of  *)
(* any length is proved by it.                                             *)
(***************************************************************************)

(* A set of natural numbers that is not empty has a smallest member.       *)
LEMMA Smallest ==
  ASSUME NEW K \in SUBSET Nat, NEW n \in K
  PROVE  \E m \in K : \A k \in K : m <= k
  <1> DEFINE Top == 0..n
             R == StrictSubsetOrdering(Top)
             T == {0..k : k \in {j \in K : j <= n}}
  <1>1. IsFiniteSet(Top)
    BY FS_Interval
  <1>2. IsWellFoundedOn(R, FiniteSubsetsOf(Top))
    BY FS_StrictSubsetOrderingWellFounded
  <1>3. T \subseteq FiniteSubsetsOf(Top) /\ T # {}
    <2>1. \A k \in {j \in K : j <= n} : 0..k \subseteq Top
      OBVIOUS
    <2>2. FiniteSubsetsOf(Top) = SUBSET Top
      BY <1>1, FS_FiniteSubsetsOfFinite
    <2>3. T \subseteq SUBSET Top
      BY <2>1
    <2>4. 0..n \in T
      OBVIOUS
    <2>5. QED
      BY <2>2, <2>3, <2>4
  <1> HIDE DEF R, T
  <1>4. PICK x \in T : \A y \in T : ~ (<<y, x>> \in R)
    BY <1>2, <1>3, WFMin
  <1>5. PICK m \in K : m <= n /\ x = 0..m
    BY DEF T
  <1>6. ASSUME NEW k \in K, k < m PROVE FALSE
    <2>1. 0..k \in T /\ 0..k \subseteq 0..m /\ 0..k # 0..m
      <3>1. k <= n
        BY <1>5, <1>6
      <3>2. m \in 0..m /\ m \notin 0..k
        BY <1>6
      <3>3. 0..k \subseteq 0..m
        BY <1>6
      <3>4. QED
        BY <3>1, <3>2, <3>3 DEF T
    <2>2. 0..k \in SUBSET Top /\ 0..m \in SUBSET Top
      BY <1>5, <1>6
    <2>3. <<0..k, 0..m>> \in R
      BY <2>1, <2>2 DEF R, StrictSubsetOrdering
    <2>4. QED
      BY <1>4, <1>5, <2>1, <2>3
  <1>7. \A k \in K : m <= k
    BY <1>6
  <1>8. QED
    BY <1>7

(* Induction, as a fact about sets of natural numbers.                     *)
LEMMA Induction ==
  ASSUME NEW S, 0 \in S, \A n \in Nat : n \in S => n + 1 \in S
  PROVE  \A n \in Nat : n \in S
  <1> SUFFICES ASSUME NEW n \in Nat \ S PROVE FALSE
    OBVIOUS
  <1>1. PICK m \in Nat \ S : \A k \in Nat \ S : m <= k
    BY Smallest
  <1>2. m # 0
    OBVIOUS
  <1>3. m - 1 \in Nat /\ (m - 1) + 1 = m /\ ~(m <= m - 1)
    BY <1>2
  <1>4. m - 1 \in S
    BY <1>1, <1>3
  <1>5. QED
    BY <1>3, <1>4

(***************************************************************************)
(* The log files.                                                          *)
(***************************************************************************)

(* The names a file in the directory may have.  *)
FileNames == [prefix : Programs, date : 0..MaxDay, rest : {"", ".txt", ".gz"}]

(* Every name in the directory, and every day, is one a program gave. *)
LogTypes ==
  /\ today \in 1..MaxDay
  /\ setBack \in BOOLEAN
  /\ running \subseteq Programs
  /\ open \in [Programs -> 0..MaxDay]
  /\ written \in [Programs -> SUBSET (1..MaxDay)]
  /\ dir \subseteq FileNames

(* What a dated name is worth: a program opened that file on that day. And *)
(* unless the clock has been set back, no file is of a day to come.        *)
Dated ==
  /\ \A f \in dir : f.rest = "" => f.date \in written[f.prefix]
  /\ \A p \in Programs : open[p] # 0 => p \in running
  /\ ~setBack => \A p \in Programs : written[p] \subseteq 1..today

LogInv == LogTypes /\ Dated /\ LogsKept

(* A day is among the last n of fewer days if it was among those of more.  *)
LEMMA LatestOfFewer ==
  ASSUME NEW W, NEW D \in SUBSET W, IsFiniteSet(W), W \subseteq Nat,
         NEW n \in Nat, NEW d \in D, d \in Latest(W, n)
  PROVE  d \in Latest(D, n)
  <1> DEFINE Later(S) == {e \in S : e > d}
  <1>1. IsFiniteSet(Later(W)) /\ Later(D) \subseteq Later(W)
    BY FS_Subset
  <1>2. IsFiniteSet(Later(D)) /\ Cardinality(Later(D)) <= Cardinality(Later(W))
    BY <1>1, FS_Subset
  <1>3. Cardinality(Later(D)) \in Nat /\ Cardinality(Later(W)) \in Nat
    BY <1>1, <1>2, FS_CardinalityType
  <1>4. Cardinality(Later(W)) < n
    BY DEF Latest
  <1>5. Cardinality(Later(D)) < n
    BY <1>2, <1>3, <1>4
  <1>6. QED
    BY <1>5 DEF Latest

(* Nothing is later than the last day.  *)
LEMMA LastIsLatest ==
  ASSUME NEW d \in Nat, NEW W \in SUBSET (0..d), NEW n \in Nat \ {0}, d \in W
  PROVE  d \in Latest(W, n)
  <1>1. ASSUME NEW e \in W PROVE ~(e > d)
    <2>1. e \in 0..d
      OBVIOUS
    <2>2. QED
      BY <2>1
  <1>2. Cardinality({e \in W : e > d}) = 0
    BY <1>1, FS_EmptySet
  <1>3. QED
    BY <1>2 DEF Latest

(* The days of the logs that pruning looks at.  *)
Days(names, p) == {f.date : f \in Matching(names, p)}

(* Pruning keeps what has another prefix, what is no log, and what is among *)
(* the last logs of a set of days with every day it looks at.              *)
LEMMA PrunedKeeps ==
  ASSUME NEW names, NEW p, NEW stuck, NEW f \in names, Keep \in Nat,
         NEW W, IsFiniteSet(W), W \subseteq Nat, Days(names, p) \subseteq W,
         f.prefix # p \/ f.rest # "" \/ f.date = 0 \/ f.date \in Latest(W, Keep)
  PROVE  f \in Pruned(names, p, stuck)
  <1>1. CASE f \notin Matching(names, p)
    BY <1>1 DEF Pruned
  <1>2. CASE f \in Matching(names, p)
    <2>1. f.date \in Days(names, p)
      BY <1>2 DEF Days
    <2>2. f.date \in Latest(W, Keep)
      BY <1>2 DEF Matching
    <2>3. f.date \in Latest(Days(names, p), Keep)
      BY <2>1, <2>2, LatestOfFewer
    <2>4. QED
      BY <2>3 DEF Pruned, Days
  <1>3. QED
    BY <1>1, <1>2

(* What stands for another file is neither a log nor dated like one.  *)
LEMMA NoLogAmongOthers ==
  ASSUME NEW f \in Others
  PROVE  f \in FileNames /\ f.rest # ""
  <1>1. PICK p \in Programs : f = Name(p, 0, ".txt") \/ f = Name(p, 1, ".gz")
    BY DEF Others
  <1>2. 0 \in 0..MaxDay /\ 1 \in 0..MaxDay
    BY LogAssumption
  <1>3. CASE f = Name(p, 0, ".txt")
    BY <1>2, <1>3 DEF Name, FileNames
  <1>4. CASE f = Name(p, 1, ".gz")
    BY <1>2, <1>4 DEF Name, FileNames
  <1>5. QED
    BY <1>1, <1>3, <1>4

(* The initial state.  *)
LEMMA LogInitInv == LogsInit => LogInv
  <1> SUFFICES ASSUME LogsInit PROVE LogInv
    OBVIOUS
  <1>1. LogTypes
    <2>1. dir \subseteq FileNames
      BY NoLogAmongOthers DEF LogsInit
    <2>2. 1 \in 1..MaxDay /\ 0 \in 0..MaxDay
      BY LogAssumption
    <2>3. QED
      BY <2>1, <2>2 DEF LogsInit, LogTypes
  <1>2. Dated
    BY NoLogAmongOthers DEF LogsInit, Dated
  <1>3. LogsKept
    BY DEF LogsInit, LogsKept, Latest
  <1>4. QED
    BY <1>1, <1>2, <1>3 DEF LogInv

(* A finite set of days, as every set of days written is.  *)
LEMMA DaysFinite ==
  ASSUME LogTypes, NEW p \in Programs
  PROVE  IsFiniteSet(written[p]) /\ written[p] \subseteq Nat /\ Days(dir, p) \subseteq Nat
  <1>1. IsFiniteSet(1..MaxDay)
    BY LogAssumption, FS_Interval
  <1>2. written[p] \in SUBSET (1..MaxDay)
    BY DEF LogTypes
  <1>3. IsFiniteSet(written[p]) /\ written[p] \subseteq Nat
    BY <1>1, <1>2, FS_Subset, LogAssumption
  <1>4. \A f \in dir : f.date \in Nat
    <2>1. \A f \in dir : f.date \in 0..MaxDay
      BY DEF LogTypes, FileNames
    <2>2. 0..MaxDay \subseteq Nat
      BY LogAssumption
    <2>3. QED
      BY <2>1, <2>2
  <1>5. QED
    BY <1>3, <1>4 DEF Days, Matching

(* A program that starts with its file of the day.  *)
LEMMA StartKeeps ==
  ASSUME LogInv, NEW p \in Programs, NEW stuck, Start(p, stuck)
  PROVE  LogInv'
  <1> USE DEF LogInv
  <1>0. /\ today \in 1..MaxDay /\ today \in 0..MaxDay /\ today \in Nat
        /\ MaxDay \in Nat /\ 0 \in 0..MaxDay
    BY LogAssumption DEF LogTypes
  <1> DEFINE names == dir \cup {Log(p, today)}
  <1>1. /\ written' = [written EXCEPT ![p] = @ \cup {today}] /\ dir' = Pruned(names, p, stuck)
        /\ open' = [open EXCEPT ![p] = today] /\ running' = running \cup {p}
        /\ UNCHANGED <<today, setBack>> /\ today \in 1..MaxDay /\ p \notin running
    BY DEF Start, LogTypes
  <1>2. dir' \subseteq names
    BY <1>1 DEF Pruned
  <1>3. LogTypes'
    <2>1. Log(p, today) \in FileNames
      BY <1>1, <1>0 DEF Log, Name, FileNames
    <2>2. dir' \subseteq FileNames
      BY <1>2, <2>1 DEF LogTypes
    <2>3. written' \in [Programs -> SUBSET (1..MaxDay)]
      BY <1>1 DEF LogTypes
    <2>4. QED
      BY <1>0, <1>1, <2>2, <2>3 DEF LogTypes
  <1>4. written'[p] = written[p] \cup {today} /\ \A q \in Programs \ {p} : written'[q] = written[q]
    BY <1>1 DEF LogTypes
  <1>5. \A f \in names : f.rest = "" => f.date \in written'[f.prefix]
    <2>1. Log(p, today).prefix = p /\ Log(p, today).date = today
      BY DEF Log, Name
    <2>2. \A f \in dir : f.prefix \in Programs
      BY DEF LogTypes, FileNames
    <2>3. QED
      BY <1>4, <2>1, <2>2 DEF Dated
  <1>6. Dated'
    <2>1. \A f \in dir' : f.rest = "" => f.date \in written'[f.prefix]
      BY <1>2, <1>5
    <2>2. \A q \in Programs : open'[q] # 0 => q \in running'
      BY <1>1 DEF Dated, LogTypes
    <2>3. ASSUME ~setBack', NEW q \in Programs PROVE written'[q] \subseteq 1..(today')
      <3>1. written[q] \subseteq 1..today /\ today' = today
        BY <1>1, <2>3 DEF Dated
      <3>2. today \in 1..today
        BY <1>0
      <3>3. QED
        BY <1>4, <3>1, <3>2
    <2>4. QED
      BY <2>1, <2>2, <2>3 DEF Dated
  <1> DEFINE W == written[p] \cup {today}
  <1>7. IsFiniteSet(W) /\ W \subseteq Nat /\ Days(names, p) \subseteq W
    <2>1. IsFiniteSet(W)
      BY DaysFinite, FS_AddElement
    <2>2. W \subseteq Nat
      BY DaysFinite, <1>1
    <2>3. Days(names, p) \subseteq W
      BY <1>4, <1>5 DEF Days, Matching
    <2>4. QED
      BY <2>1, <2>2, <2>3
  <1> HIDE DEF names, W
  <1>8. LogsKept'
    <2>1. Others \subseteq dir'
      <3>1. \A f \in Others : f.rest # ""
        BY NoLogAmongOthers
      <3>2. Others \subseteq names
        BY DEF LogsKept, names
      <3>3. QED
        BY <1>1, <1>7, <3>1, <3>2, LogAssumption, PrunedKeeps
    <2>2. ASSUME ~setBack, NEW q \in Programs,
                 NEW d \in Latest(written'[q], Keep) \cup ({open'[q]} \ {0})
          PROVE  Log(q, d) \in dir'
      <3>1. Log(q, d).prefix = q /\ Log(q, d).date = d /\ Log(q, d).rest = ""
        BY DEF Log, Name
      <3>2. CASE q # p
        <4>1. written'[q] = written[q] /\ open'[q] = open[q]
          BY <1>1, <1>4, <3>2 DEF LogTypes
        <4>2. Log(q, d) \in names
          BY <2>2, <4>1 DEF LogsKept, names
        <4>3. QED
          BY <1>1, <1>7, <3>1, <3>2, <4>2, LogAssumption, PrunedKeeps
      <3>3. CASE q = p
        <4>1. today \in Latest(W, Keep)
          <5>1. W \in SUBSET (0..today) /\ today \in W
            <6>1. written[p] \subseteq 1..today
              BY <2>2 DEF Dated
            <6>2. 1..today \subseteq 0..today /\ today \in 0..today
              BY <1>0
            <6>3. QED
              BY <6>1, <6>2 DEF W
          <5>2. QED
            BY <1>1, <5>1, LastIsLatest, LogAssumption
        <4>2. open'[p] = today /\ written'[p] = W
          BY <1>1, <1>4 DEF LogTypes, W
        <4>3. d \in Latest(W, Keep)
          BY <2>2, <3>3, <4>1, <4>2
        <4>4. d \in W
          BY <4>3 DEF Latest
        <4>5. Log(p, d) \in names
          <5>1. CASE d = today
            BY <5>1 DEF names
          <5>2. CASE d # today
            <6>1. d \in written[p]
              BY <4>4, <5>2 DEF W
            <6>2. d \in Latest(written[p], Keep)
              BY <1>7, <4>3, <6>1, LatestOfFewer, LogAssumption DEF W
            <6>3. QED
              BY <2>2, <6>2 DEF LogsKept, names
          <5>3. QED
            BY <5>1, <5>2
        <4>6. QED
          BY <1>1, <1>7, <3>1, <3>3, <4>3, <4>5, LogAssumption, PrunedKeeps
      <3>4. QED
        BY <3>2, <3>3
    <2>3. QED
      BY <1>1, <2>1, <2>2 DEF LogsKept
  <1>9. QED
    BY <1>3, <1>6, <1>8

(* A program that starts and cannot have its file: it prunes all the same. *)
LEMMA StartWithoutFileKeeps ==
  ASSUME LogInv, NEW p \in Programs, StartWithoutFile(p)
  PROVE  LogInv'
  <1> USE DEF LogInv
  <1>1. /\ dir' = Pruned(dir, p, {}) /\ running' = running \cup {p} /\ p \notin running
        /\ UNCHANGED <<today, setBack, open, written>>
    BY DEF StartWithoutFile
  <1>2. dir' \subseteq dir
    BY <1>1 DEF Pruned
  <1>3. LogTypes' /\ Dated'
    BY <1>1, <1>2 DEF LogTypes, Dated
  <1>4. IsFiniteSet(written[p]) /\ written[p] \subseteq Nat /\ Days(dir, p) \subseteq written[p]
    BY DaysFinite DEF Dated, Days, Matching
  <1>5. Others \subseteq dir'
    <2>1. \A f \in Others : f.rest # ""
      BY NoLogAmongOthers
    <2>2. QED
      BY <1>1, <1>4, <2>1, LogAssumption, PrunedKeeps DEF LogsKept
  <1>6. ASSUME ~setBack, NEW q \in Programs,
               NEW d \in Latest(written[q], Keep) \cup ({open[q]} \ {0})
        PROVE  Log(q, d) \in dir'
    <2>1. Log(q, d).prefix = q /\ Log(q, d).date = d /\ Log(q, d).rest = ""
      BY DEF Log, Name
    <2>2. Log(q, d) \in dir
      BY <1>6 DEF LogsKept
    <2>3. q # p \/ d \in Latest(written[p], Keep)
      BY <1>1, <1>6 DEF Dated
    <2>4. QED
      BY <1>1, <1>4, <2>1, <2>2, <2>3, LogAssumption, PrunedKeeps
  <1>7. QED
    BY <1>1, <1>3, <1>5, <1>6 DEF LogsKept

(* A first line of another day. *)
LEMMA RollKeeps ==
  ASSUME LogInv, NEW p \in Programs, Roll(p)
  PROVE  LogInv'
  <1> USE DEF LogInv
  <1>0. /\ today \in 1..MaxDay /\ today \in 0..MaxDay /\ today \in Nat
        /\ MaxDay \in Nat /\ 0 \in 0..MaxDay
    BY LogAssumption DEF LogTypes
  <1>1. /\ written' = [written EXCEPT ![p] = @ \cup {today}] /\ dir' = dir \cup {Log(p, today)}
        /\ open' = [open EXCEPT ![p] = today] /\ p \in running
        /\ UNCHANGED <<today, setBack, running>> /\ today \in 1..MaxDay
    BY DEF Roll, LogTypes
  <1>2. LogTypes'
    <2>1. Log(p, today) \in FileNames
      BY <1>1, <1>0 DEF Log, Name, FileNames
    <2>2. written' \in [Programs -> SUBSET (1..MaxDay)]
      BY <1>1 DEF LogTypes
    <2>3. QED
      <3>1. open' \in [Programs -> 0..MaxDay]
        BY <1>0, <1>1 DEF LogTypes
      <3>2. dir' \subseteq FileNames
        BY <1>1, <2>1 DEF LogTypes
      <3>3. QED
        BY <1>1, <2>2, <3>1, <3>2 DEF LogTypes
  <1>3. written'[p] = written[p] \cup {today} /\ \A q \in Programs \ {p} : written'[q] = written[q]
    BY <1>1 DEF LogTypes
  <1>4. Dated'
    <2>1. Log(p, today).prefix = p /\ Log(p, today).date = today
      BY DEF Log, Name
    <2>2. \A f \in dir : f.prefix \in Programs
      BY DEF LogTypes, FileNames
    <2>3. \A f \in dir' : f.rest = "" => f.date \in written'[f.prefix]
      BY <1>1, <1>3, <2>1, <2>2 DEF Dated
    <2>4. \A q \in Programs : open'[q] # 0 => q \in running'
      BY <1>1 DEF Dated, LogTypes
    <2>5. ASSUME ~setBack', NEW q \in Programs PROVE written'[q] \subseteq 1..(today')
      <3>1. written[q] \subseteq 1..today /\ today' = today
        BY <1>1, <2>5 DEF Dated
      <3>2. today \in 1..today
        BY <1>0
      <3>3. QED
        BY <1>3, <3>1, <3>2
    <2>6. QED
      BY <2>3, <2>4, <2>5 DEF Dated
  <1>5. ASSUME ~setBack, NEW q \in Programs,
               NEW d \in Latest(written'[q], Keep) \cup ({open'[q]} \ {0})
        PROVE  Log(q, d) \in dir'
    <2>1. CASE q # p
      <3>1. written'[q] = written[q] /\ open'[q] = open[q]
        BY <1>1, <1>3, <2>1 DEF LogTypes
      <3>2. QED
        BY <1>1, <1>5, <3>1 DEF LogsKept
    <2>2. CASE q = p /\ d = today
      BY <1>1, <2>2
    <2>3. CASE q = p /\ d # today
      <3>1. open'[p] = today
        BY <1>1 DEF LogTypes
      <3>2. d \in Latest(written'[p], Keep)
        BY <1>5, <2>3, <3>1
      <3>3. d \in written[p]
        BY <1>3, <2>3, <3>2 DEF Latest
      <3>4. IsFiniteSet(written'[p]) /\ written'[p] \subseteq Nat
        <4>1. IsFiniteSet(written[p]) /\ written[p] \subseteq Nat
          BY DaysFinite
        <4>2. IsFiniteSet(written[p] \cup {today})
          BY <4>1, FS_AddElement
        <4>3. QED
          BY <1>0, <1>3, <4>1, <4>2
      <3>5. d \in Latest(written[p], Keep)
        BY <1>3, <3>2, <3>3, <3>4, LatestOfFewer, LogAssumption
      <3>6. QED
        BY <1>1, <1>5, <2>3, <3>5 DEF LogsKept
    <2>4. QED
      BY <2>1, <2>2, <2>3
  <1>6. QED
    BY <1>1, <1>2, <1>4, <1>5 DEF LogsKept

(* The logs of the last Keep days on which a program wrote are there, for   *)
(* any number of programs that start, prune and roll in any order.          *)
THEOREM LogsStay == LogsSpec => []LogsKept
  <1>1. LogInv /\ [LogsNext]_logVars => LogInv'
    <2> SUFFICES ASSUME LogInv, [LogsNext]_logVars PROVE LogInv'
      OBVIOUS
    <2>1. ASSUME NEW p \in Programs, NEW stuck \in SUBSET Matching(dir, p), Start(p, stuck)
          PROVE  LogInv'
      BY <2>1, StartKeeps
    <2>2. ASSUME NEW p \in Programs, StartWithoutFile(p) PROVE LogInv'
      BY <2>2, StartWithoutFileKeeps
    <2>3. ASSUME NEW p \in Programs, Roll(p) PROVE LogInv'
      BY <2>3, RollKeeps
    <2>4. ASSUME NEW p \in Programs, Stop(p) PROVE LogInv'
      <3>1. /\ open' = [open EXCEPT ![p] = 0] /\ running' = running \ {p}
            /\ UNCHANGED <<today, setBack, dir, written>>
        BY <2>4 DEF Stop
      <3>2. /\ open'[p] = 0 /\ \A q \in Programs \ {p} : open'[q] = open[q]
            /\ open' \in [Programs -> 0..MaxDay]
        <4>1. 0 \in 0..MaxDay
          BY LogAssumption
        <4>2. QED
          BY <3>1, <4>1 DEF LogInv, LogTypes
      <3>3. LogTypes' /\ Dated'
        BY <3>1, <3>2 DEF LogInv, LogTypes, Dated
      <3>4. LogsKept'
        BY <3>1, <3>2 DEF LogInv, LogsKept
      <3>5. QED
        BY <3>3, <3>4 DEF LogInv
    <2>5. CASE NewDay
      <3>1. /\ today' = today + 1 /\ today' \in 1..MaxDay /\ today \in Nat
            /\ UNCHANGED <<setBack, dir, open, running, written>>
        <4>1. today \in 1..MaxDay /\ MaxDay \in Nat
          BY LogAssumption DEF LogInv, LogTypes
        <4>2. QED
          BY <2>5, <4>1 DEF NewDay
      <3>2. LogTypes' /\ LogsKept'
        BY <3>1 DEF LogInv, LogTypes, LogsKept
      <3>3. 1..today \subseteq 1..(today')
        BY <3>1
      <3>4. Dated'
        BY <3>1, <3>3 DEF LogInv, Dated
      <3>5. QED
        BY <3>2, <3>4 DEF LogInv
    <2>6. CASE ClockSetBack
      <3>1. /\ setBack' = TRUE /\ today' \in 1..MaxDay
            /\ UNCHANGED <<dir, open, running, written>>
        <4>1. today \in 1..MaxDay /\ MaxDay \in Nat
          BY LogAssumption DEF LogInv, LogTypes
        <4>2. today' \in 1..(today - 1)
          BY <2>6 DEF ClockSetBack
        <4>3. today' \in 1..MaxDay
          BY <4>1, <4>2
        <4>4. QED
          BY <2>6, <4>3 DEF ClockSetBack
      <3>2. QED
        BY <3>1 DEF LogInv, LogTypes, Dated, LogsKept
    <2>7. CASE UNCHANGED logVars
      BY <2>7 DEF logVars, LogInv, LogTypes, Dated, LogsKept
    <2>8. QED
      BY <2>1, <2>2, <2>3, <2>4, <2>5, <2>6, <2>7 DEF LogsNext
  <1>2. LogInv => LogsKept
    BY DEF LogInv
  <1>3. QED
    BY LogInitInv, <1>1, <1>2, PTL DEF LogsSpec

(***************************************************************************)
(* The start of the agent.                                                 *)
(***************************************************************************)

(* What the file says, the defaults where it says nothing.  *)
Says == IF configFile.state = "parsed" THEN configFile.says ELSE Defaults

(* The values of file and environment. *)
StartTypes ==
  /\ build \in {"debug", "release"}
  /\ policy \in {"AllowAll", "Restricted"}
  /\ configFile.state \in {"missing", "unreadable", "malformed", "parsed"}
  /\ Says.port \in {NoPort, DefaultPort}
  /\ Says.allowLocalhost \in BOOLEAN
  /\ Says.extra \subseteq Origins
  /\ Says.token \in Tokens \cup {Blank, NoToken}
  /\ env.port \in {NoPort, OtherPort}
  /\ env.origins \subseteq Origins
  /\ env.token \in Tokens \cup {Blank, NoToken}

(* What the environment leaves of a configuration. *)
InForce(s) ==
  [port |-> IF env.port = NoPort THEN s.port ELSE env.port,
   allowLocalhost |-> s.allowLocalhost /\ env.origins = {},
   extra |-> IF env.origins = {} THEN s.extra ELSE env.origins,
   token |-> IF env.token \in {NoToken, Blank} THEN s.token ELSE env.token]

(* Only a debug build allows every origin, and a release build gets past   *)
(* each stage with nothing but what a sound file says and, past the last,  *)
(* with what the environment leaves of it.                                 *)
Stages ==
  /\ agent \in {"launch", "load", "override", "start", "serving", "deaf", "exited"}
  /\ agent \in {"load", "override"} => build = "release"
  /\ build = "release" =>
       /\ policy = "Restricted"
       /\ agent \in {"override", "start", "serving", "deaf"} =>
            configFile.state # "malformed" /\ Valid(Says)
       /\ agent = "override" => config = Says
       /\ agent \in {"start", "serving", "deaf"} => config = InForce(Says)

StartInv == StartTypes /\ Stages

(* The initial state.  *)
LEMMA StartInitInv == StartInit => StartInv
  <1> SUFFICES ASSUME StartInit PROVE StartInv
    OBVIOUS
  <1>1. /\ Defaults.port \in {NoPort, DefaultPort} /\ Defaults.allowLocalhost \in BOOLEAN
        /\ Defaults.extra \subseteq Origins /\ Defaults.token \in Tokens \cup {Blank, NoToken}
    BY DEF Defaults
  <1>2. CASE configFile \in [state : {"missing", "unreadable", "malformed"}, says : {Defaults}]
    <2>1. configFile.state \in {"missing", "unreadable", "malformed"} /\ Says = Defaults
      BY <1>2 DEF Says
    <2>2. QED
      BY <1>1, <2>1, StartupAssumption DEF StartInit, StartInv, StartTypes, Stages
  <1>3. CASE configFile \in [state : {"parsed"}, says : Settings]
    <2>1. configFile.state = "parsed" /\ Says \in Settings
      BY <1>3 DEF Says
    <2>2. /\ Says.port \in {NoPort, DefaultPort} /\ Says.allowLocalhost \in BOOLEAN
          /\ Says.extra \in Extras /\ Says.token \in Tokens \cup {Blank, NoToken}
      BY <2>1, StartupAssumption DEF Settings
    <2>3. QED
      BY <2>1, <2>2, StartupAssumption DEF StartInit, StartInv, StartTypes, Stages
  <1>4. QED
    BY <1>2, <1>3 DEF StartInit

(* A step of the set-up. *)
LEMMA StartStep == StartInv /\ [StartNext]_startVars => StartInv'
  <1> SUFFICES ASSUME StartInv, [StartNext]_startVars PROVE StartInv'
    OBVIOUS
  <1>1. ASSUME UNCHANGED <<build, env>>, UNCHANGED Says,
               policy' \in {"AllowAll", "Restricted"},
               configFile'.state \in {"missing", "unreadable", "malformed", "parsed"}
        PROVE  StartTypes'
    BY <1>1 DEF StartInv, StartTypes
  <1>2. ASSUME UNCHANGED configFile PROVE UNCHANGED Says
    BY <1>2 DEF Says
  <1>3. CASE LaunchDebug
    BY <1>1, <1>2, <1>3 DEF LaunchDebug, StartInv, StartTypes, Stages
  <1>4. CASE LaunchRelease
    <2>1. UNCHANGED Says
      <3>1. CASE configFile' = configFile
        BY <1>2, <3>1
      <3>2. CASE configFile.state = "missing" /\ configFile' = [state |-> "parsed", says |-> Defaults]
        BY <3>2 DEF Says
      <3>3. QED
        BY <1>4, <3>1, <3>2 DEF LaunchRelease
    <2>2. configFile'.state \in {"missing", "unreadable", "malformed", "parsed"}
      BY <1>4 DEF LaunchRelease, StartInv, StartTypes
    <2>3. QED
      BY <1>1, <1>4, <2>1, <2>2 DEF LaunchRelease, StartInv, StartTypes, Stages
  <1>5. CASE Load
    <2>1. /\ UNCHANGED <<build, configFile, env, policy>> /\ agent = "load" /\ UNCHANGED Says
          /\ build = "release" /\ policy = "Restricted"
      BY <1>2, <1>5 DEF Load, StartInv, Stages
    <2>2. StartTypes'
      BY <1>1, <2>1 DEF StartInv, StartTypes
    <2>3. CASE agent' = "exited"
      BY <2>1, <2>2, <2>3 DEF StartInv, Stages
    <2>4. CASE agent' = "override"
      <3>1. configFile.state # "malformed" /\ Valid(Says) /\ config' = Says
        <4>1. Valid(Defaults)
          BY DEF Valid, Defaults, Blank, NoToken, NoPort, DefaultPort
        <4>2. QED
          BY <1>5, <2>4, <4>1 DEF Load, Says
      <3>2. Valid(Says)'
        BY <2>1, <3>1 DEF Valid
      <3>3. QED
        BY <2>1, <2>2, <2>4, <3>1, <3>2 DEF StartInv, Stages
    <2>5. QED
      BY <1>5, <2>3, <2>4 DEF Load
  <1>6. CASE Override
    <2>1. /\ UNCHANGED <<build, configFile, env, policy>> /\ agent = "override" /\ UNCHANGED Says
          /\ build = "release" /\ policy = "Restricted" /\ agent' = "start"
          /\ configFile.state # "malformed" /\ Valid(Says) /\ config = Says
      BY <1>2, <1>6 DEF Override, StartInv, Stages
    <2>2. StartTypes'
      BY <1>1, <2>1 DEF StartInv, StartTypes
    <2>3. config' = InForce(config)
      BY <1>6 DEF Override, InForce
    <2>4. config' = InForce(Says)' /\ Valid(Says)'
      <3>1. config' = InForce(Says)
        BY <2>1, <2>3
      <3>2. InForce(Says)' = InForce(Says)
        BY <2>1 DEF InForce
      <3>3. QED
        BY <2>1, <3>1, <3>2 DEF Valid
    <2>5. QED
      BY <2>1, <2>2, <2>4 DEF StartInv, Stages
  <1>7. CASE StartServer \/ UNCHANGED startVars
    <2>1. /\ UNCHANGED <<build, configFile, env, config, policy>> /\ UNCHANGED Says
          /\ (agent = "start" /\ agent' \in {"serving", "deaf"}) \/ agent' = agent
      BY <1>2, <1>7 DEF StartServer, startVars
    <2>2. StartTypes'
      BY <1>1, <2>1 DEF StartInv, StartTypes
    <2>3. InForce(Says)' = InForce(Says) /\ (Valid(Says)' <=> Valid(Says))
      BY <2>1 DEF InForce, Valid
    <2>4. QED
      BY <2>1, <2>2, <2>3 DEF StartInv, Stages
  <1>8. QED
    BY <1>3, <1>4, <1>5, <1>6, <1>7 DEF StartNext

(* A release build serves what a sound file and the environment ask for,    *)
(* whatever sites, origins and tokens there are.                           *)
THEOREM ServesAsConfigured == StartSpec => []AsConfigured
  <1>1. StartInv => AsConfigured
    <2> SUFFICES ASSUME StartInv, agent = "serving", build = "release" PROVE AsConfigured
      BY DEF AsConfigured
    <2> DEFINE origins == IF env.origins # {} THEN env.origins
                          ELSE Says.extra \cup {o \in {Local} : Says.allowLocalhost}
    <2>1. /\ configFile.state # "malformed" /\ Valid(Says) /\ policy = "Restricted"
          /\ config = InForce(Says)
      BY DEF StartInv, Stages
    <2>2. /\ config.port = IF env.port = NoPort THEN Says.port ELSE env.port
          /\ config.allowLocalhost <=> (Says.allowLocalhost /\ env.origins = {})
          /\ config.extra = IF env.origins = {} THEN Says.extra ELSE env.origins
          /\ config.token = IF env.token \in {NoToken, Blank} THEN Says.token ELSE env.token
      BY <2>1 DEF InForce
    <2>3. config.port \in {DefaultPort, OtherPort} /\ (config.port = OtherPort <=> env.port = OtherPort)
      BY <2>1, <2>2 DEF StartInv, StartTypes, Valid, DefaultPort, OtherPort, NoPort
    <2>4. config.token = IF env.token \in Tokens THEN env.token ELSE Says.token
      BY <2>2, StartupAssumption DEF StartInv, StartTypes
    <2>5. ASSUME NEW o \in Origins \cup {Missing}
          PROVE  Handshake(o, NoToken) # 403 <=> o \in origins \ {NotUrl}
      <3>1. Handshake(o, NoToken) # 403 <=> OriginAccepted(o)
        BY DEF Handshake
      <3>2. Missing \notin Origins /\ Local # NotUrl
        BY StartupAssumption DEF Missing, Origins, Local, NotUrl, OtherScheme
      <3>3. Missing \notin origins
        BY <3>2 DEF StartInv, StartTypes, Origins
      <3>4. OriginAccepted(o) <=>
              /\ o \notin {Missing, NotUrl}
              /\ (config.allowLocalhost /\ o = Local) \/ o \in config.extra
        BY <2>1 DEF OriginAccepted
      <3>5. ((config.allowLocalhost /\ o = Local) \/ o \in config.extra) <=> o \in origins
        BY <2>2
      <3>6. QED
        BY <3>1, <3>3, <3>4, <3>5
    <2>6. QED
      BY <2>1, <2>3, <2>4, <2>5 DEF AsConfigured, Says
  <1>2. QED
    BY StartInitInv, StartStep, <1>1, PTL DEF StartSpec

(***************************************************************************)
(* The token of the query.                                                 *)
(***************************************************************************)

(* What percent_decode does with the text from i on, where f says what it  *)
(* does with the text further on.                                          *)
DecodeAt(text, f, i) ==
  IF i > Len(text) THEN <<>>
  ELSE IF text[i] = "%" /\ i + 2 <= Len(text) /\ {text[i + 1], text[i + 2]} \subseteq HexDigits
       THEN <<Decoded(text[i + 1], text[i + 2])>> \o f[i + 3]
       ELSE <<text[i]>> \o f[i + 1]

(* The recursion of percent_decode goes to the end of any text.            *)
LEMMA Decoding ==
  ASSUME NEW text, Len(text) \in Nat
  PROVE  \E f : /\ PercentDecode(text) = f[1]
                /\ \A i \in 1..(Len(text) + 3) : f[i] = DecodeAt(text, f, i)
  <1> DEFINE n == Len(text)
             Rec(f) == f = [i \in 1..(n + 3) |-> DecodeAt(text, f, i)]
             Reach(k) == \E f : \A i \in 1..(n + 3) : i > n + 3 - k => f[i] = DecodeAt(text, f, i)
             S == {k \in Nat : Reach(k)}
  <1>0. PICK m \in Nat : m = n
    OBVIOUS
  <1>1. 0 \in S
    <2>1. \A i \in 1..(n + 3) : ~(i > n + 3 - 0)
      OBVIOUS
    <2>2. QED
      BY <2>1
  <1>2. ASSUME NEW k \in Nat, k \in S PROVE k + 1 \in S
    <2>1. PICK f : \A i \in 1..(n + 3) : i > n + 3 - k => f[i] = DecodeAt(text, f, i)
      BY <1>2
    <2> DEFINE h == [i \in 1..(n + 3) |-> IF i = n + 3 - k THEN DecodeAt(text, f, i) ELSE f[i]]
    <2>2. ASSUME NEW i \in 1..(n + 3), i > n + 3 - (k + 1)
          PROVE  h[i] = DecodeAt(text, h, i)
      <3>1. h[i] = DecodeAt(text, f, i)
        BY <2>1, <2>2
      <3>2. i <= n => h[i + 1] = f[i + 1] /\ h[i + 3] = f[i + 3]
        BY <2>2
      <3>3. DecodeAt(text, f, i) = DecodeAt(text, h, i)
        BY <3>2 DEF DecodeAt
      <3>4. QED
        BY <3>1, <3>3
    <2> HIDE DEF h
    <2>3. Reach(k + 1)
      BY <2>2
    <2>4. QED
      BY <2>3
  <1> HIDE DEF S
  <1>3. n + 3 \in S
    BY <1>1, <1>2, Induction
  <1>4. PICK f : \A i \in 1..(n + 3) : f[i] = DecodeAt(text, f, i)
    <2>1. Reach(n + 3)
      BY <1>3 DEF S
    <2>2. \A i \in 1..(n + 3) : i > n + 3 - (n + 3)
      OBVIOUS
    <2>3. QED
      BY <2>1, <2>2
  <1> DEFINE g == [i \in 1..(n + 3) |-> f[i]]
  <1>5. Rec(g)
    <2>1. ASSUME NEW i \in 1..(n + 3) PROVE f[i] = DecodeAt(text, g, i)
      <3>1. i <= n => g[i + 1] = f[i + 1] /\ g[i + 3] = f[i + 3]
        OBVIOUS
      <3>2. DecodeAt(text, f, i) = DecodeAt(text, g, i)
        BY <3>1 DEF DecodeAt
      <3>3. QED
        BY <1>4, <3>2
    <2>2. QED
      BY <2>1
  <1> DEFINE from == CHOOSE x : Rec(x)
  <1>6. Rec(from)
    <2> HIDE DEF Rec, g
    <2>1. QED
      BY <1>5
  <1>7. PercentDecode(text) = from[1]
    BY DEF PercentDecode, DecodeAt
  <1> HIDE DEF from
  <1>8. \A i \in 1..(n + 3) : from[i] = DecodeAt(text, from, i)
    BY <1>6
  <1>9. QED
    BY <1>7, <1>8

(* A text without escapes is kept, and one without "&" is a whole value.   *)
LEMMA Unescaped ==
  ASSUME NEW C, NEW text \in Seq(C), \A i \in 1..Len(text) : text[i] \notin {"%", "&"}
  PROVE  PercentDecode(Value(text)) = text
  <1>1. Value(text) = text
    BY DEF Value
  <1>2. PICK f : /\ PercentDecode(text) = f[1]
                 /\ \A i \in 1..(Len(text) + 3) : f[i] = DecodeAt(text, f, i)
    BY Decoding
  <1> DEFINE n == Len(text)
             S == {k \in Nat : k <= n => f[n + 1 - k] = SubSeq(text, n + 1 - k, n)}
  <1>3. 0 \in S
    <2>1. n \in Nat /\ n + 1 \in 1..(n + 3) /\ n + 1 - 0 = n + 1
      OBVIOUS
    <2>2. f[n + 1] = <<>>
      <3>1. f[n + 1] = DecodeAt(text, f, n + 1)
        BY <1>2, <2>1
      <3>2. n + 1 > Len(text)
        BY <2>1
      <3>3. QED
        BY <3>1, <3>2 DEF DecodeAt
    <2>3. SubSeq(text, n + 1, n) = <<>>
      BY <2>1, SubSeqEmpty
    <2>4. QED
      BY <2>1, <2>2, <2>3
  <1>4. ASSUME NEW k \in Nat, k \in S PROVE k + 1 \in S
    <2> SUFFICES ASSUME k + 1 <= n PROVE f[n + 1 - (k + 1)] = SubSeq(text, n + 1 - (k + 1), n)
      OBVIOUS
    <2>1. PICK i \in 1..n : i = n - k /\ i = n + 1 - (k + 1) /\ i + 1 = n + 1 - k /\ n \in i..n
      <3>1. n \in Nat /\ n - k \in 1..n /\ n \in (n - k)..n
        OBVIOUS
      <3>2. n - k = n + 1 - (k + 1) /\ (n - k) + 1 = n + 1 - k
        BY <3>1
      <3>3. QED
        BY <3>1, <3>2
    <2>2. f[i] = <<text[i]>> \o f[i + 1]
      <3>1. text[i] # "%" /\ ~(i > Len(text)) /\ i \in 1..(Len(text) + 3)
        BY <2>1
      <3>2. QED
        BY <1>2, <3>1 DEF DecodeAt
    <2>3. f[i + 1] = SubSeq(text, i + 1, n)
      BY <1>4, <2>1
    <2>4. SubSeq(text, i, n) = <<text[i]>> \o SubSeq(text, i + 1, n)
      BY <2>1, SubSeqRecursiveFirst
    <2>5. QED
      BY <2>1, <2>2, <2>3, <2>4
  <1> HIDE DEF S
  <1>5. n \in S
    <2>1. n \in Nat
      OBVIOUS
    <2>2. QED
      BY <1>3, <1>4, <2>1, Induction
  <1>6. f[1] = SubSeq(text, 1, n)
    <2>1. n \in Nat /\ n + 1 - n = 1
      OBVIOUS
    <2>2. QED
      BY <1>5, <2>1 DEF S
  <1>7. QED
    BY <1>1, <1>2, <1>6, SubSeqFull

(* What encoding makes of a character. *)
Escaped(c) == IF c = "%" THEN <<"%", "2", "5">>
              ELSE IF c = "&" THEN <<"%", "2", "6">> ELSE <<c>>

(* The recursion of the encoding goes to the end of any token.             *)
LEMMA Encoding ==
  ASSUME NEW token, Len(token) \in Nat
  PROVE  \E f : /\ Encoded(token) = f[Len(token)]
                /\ f[0] = <<>>
                /\ \A i \in 1..Len(token) : f[i] = f[i - 1] \o Escaped(token[i])
  <1> DEFINE n == Len(token)
             At(f, i) == IF i = 0 THEN <<>> ELSE f[i - 1] \o Escaped(token[i])
             Rec(f) == f = [i \in 0..n |-> At(f, i)]
             Reach(k) == \E f : \A i \in 0..n : i < k => f[i] = At(f, i)
             S == {k \in Nat : Reach(k)}
  <1>1. 0 \in S
    <2>1. \A i \in 0..n : ~(i < 0)
      OBVIOUS
    <2>2. QED
      BY <2>1
  <1>2. ASSUME NEW k \in Nat, k \in S PROVE k + 1 \in S
    <2>1. PICK f : \A i \in 0..n : i < k => f[i] = At(f, i)
      BY <1>2
    <2> DEFINE h == [i \in 0..n |-> IF i = k THEN At(f, i) ELSE f[i]]
    <2>2. ASSUME NEW i \in 0..n, i < k + 1
          PROVE  h[i] = At(h, i)
      <3>1. h[i] = At(f, i)
        BY <2>1, <2>2
      <3>2. i # 0 => h[i - 1] = f[i - 1]
        BY <2>2
      <3>3. At(f, i) = At(h, i)
        BY <3>2
      <3>4. QED
        BY <3>1, <3>3
    <2> HIDE DEF h
    <2>3. Reach(k + 1)
      BY <2>2
    <2>4. QED
      BY <2>3
  <1> HIDE DEF S
  <1>3. n + 1 \in S
    BY <1>1, <1>2, Induction
  <1>4. PICK f : \A i \in 0..n : f[i] = At(f, i)
    <2>1. Reach(n + 1)
      BY <1>3 DEF S
    <2>2. \A i \in 0..n : i < n + 1
      OBVIOUS
    <2>3. QED
      BY <2>1, <2>2
  <1> DEFINE g == [i \in 0..n |-> f[i]]
  <1>5. Rec(g)
    <2>1. ASSUME NEW i \in 0..n PROVE f[i] = At(g, i)
      <3>1. i # 0 => g[i - 1] = f[i - 1]
        OBVIOUS
      <3>2. QED
        BY <1>4, <3>1
    <2>2. QED
      BY <2>1
  <1> DEFINE to == CHOOSE x : Rec(x)
  <1>6. Rec(to)
    <2> HIDE DEF Rec, g
    <2>1. QED
      BY <1>5
  <1>7. Encoded(token) = to[n]
    BY DEF Encoded, Escaped
  <1> HIDE DEF to
  <1>8. \A i \in 0..n : to[i] = At(to, i)
    BY <1>6
  <1>9. to[0] = <<>>
    BY <1>8
  <1>10. ASSUME NEW i \in 1..n PROVE to[i] = to[i - 1] \o Escaped(token[i])
    <2>1. i \in 0..n /\ i # 0
      OBVIOUS
    <2>2. to[i] = At(to, i)
      BY <1>8, <2>1
    <2>3. QED
      BY <2>1, <2>2
  <1>11. QED
    BY <1>7, <1>9, <1>10

(* The characters of a token and of its encoding.                          *)
Characters(C) == C \cup {"%", "&", "2", "5", "6"}

(* The text of one character: an escape, or the character itself.          *)
LEMMA EscapedProperties ==
  ASSUME NEW C, NEW c \in C
  PROVE  /\ Escaped(c) \in Seq(Characters(C))
         /\ Len(Escaped(c)) \in Nat /\ Len(Escaped(c)) = (IF c \in {"%", "&"} THEN 3 ELSE 1)
         /\ \A i \in 1..Len(Escaped(c)) : Escaped(c)[i] # "&"
         /\ c = "%" => Escaped(c)[1] = "%" /\ Escaped(c)[2] = "2" /\ Escaped(c)[3] = "5"
         /\ c = "&" => Escaped(c)[1] = "%" /\ Escaped(c)[2] = "2" /\ Escaped(c)[3] = "6"
         /\ c \notin {"%", "&"} => Escaped(c)[1] = c
  <1>1. CASE c = "%"
    BY <1>1 DEF Escaped, Characters
  <1>2. CASE c = "&"
    BY <1>2 DEF Escaped, Characters
  <1>3. CASE c \notin {"%", "&"}
    <2>1. Escaped(c) = <<c>> /\ c \in Characters(C)
      BY <1>3 DEF Escaped, Characters
    <2>2. Escaped(c) \in Seq(Characters(C)) /\ Len(Escaped(c)) = 1 /\ Escaped(c)[1] = c
      BY <2>1
    <2>3. QED
      BY <1>3, <2>2
  <1>4. QED
    BY <1>1, <1>2, <1>3

(* Decoding undoes encoding, for every token.  The proof goes from the end *)
(* of the text to its beginning, one character of the token at a time.     *)
LEMMA RoundTrip ==
  ASSUME NEW C, NEW t \in Seq(C)
  PROVE  PercentDecode(Value(Encoded(t))) = t
  <1> DEFINE n == Len(t)
             e == Encoded(t)
             Chars == Characters(C)
  <1>1. PICK to : e = to[n] /\ to[0] = <<>> /\ \A i \in 1..n : to[i] = to[i - 1] \o Escaped(t[i])
    <2>1. Len(t) \in Nat
      OBVIOUS
    <2>2. QED
      BY <2>1, Encoding
  <1> HIDE DEF e, Chars
  <1>2. \A j \in 1..n : t[j] \in C
    OBVIOUS
  (* Each prefix of the token has a prefix of the text, without "&".       *)
  <1> DEFINE Pre(j) == /\ to[j] \in Seq(Chars)
                       /\ \A i \in 1..Len(to[j]) : to[j][i] # "&"
             P == {j \in Nat : j <= n => Pre(j)}
  <1>3. 0 \in P
    <2>1. to[0] \in Seq(Chars) /\ Len(to[0]) = 0
      BY <1>1
    <2>2. \A i \in 1..0 : FALSE
      OBVIOUS
    <2>3. QED
      BY <2>1, <2>2
  <1>4. ASSUME NEW j \in Nat, j \in P PROVE j + 1 \in P
    <2> SUFFICES ASSUME j + 1 <= n PROVE Pre(j + 1)
      OBVIOUS
    <2>1. j + 1 \in 1..n /\ (j + 1) - 1 = j
      OBVIOUS
    <2>2. to[j + 1] = to[j] \o Escaped(t[j + 1])
      BY <1>1, <2>1
    <2>3. Pre(j)
      BY <1>4, <2>1
    <2>4. /\ Escaped(t[j + 1]) \in Seq(Chars)
          /\ \A i \in 1..Len(Escaped(t[j + 1])) : Escaped(t[j + 1])[i] # "&"
      BY <1>2, <2>1, EscapedProperties DEF Chars
    <2>5. ASSUME NEW x \in Seq(Chars), NEW y \in Seq(Chars),
                 \A i \in 1..Len(x) : x[i] # "&", \A i \in 1..Len(y) : y[i] # "&"
          PROVE  x \o y \in Seq(Chars) /\ \A i \in 1..Len(x \o y) : (x \o y)[i] # "&"
      <3>1. /\ x \o y \in Seq(Chars) /\ Len(x \o y) = Len(x) + Len(y)
            /\ \A i \in 1..(Len(x) + Len(y)) : (x \o y)[i] = IF i <= Len(x) THEN x[i] ELSE y[i - Len(x)]
        BY ConcatProperties
      <3>2. ASSUME NEW i \in 1..(Len(x) + Len(y)) PROVE (x \o y)[i] # "&"
        <4>1. CASE i <= Len(x)
          BY <2>5, <3>1, <4>1
        <4>2. CASE ~(i <= Len(x))
          <5>1. i - Len(x) \in 1..Len(y)
            BY <4>2
          <5>2. QED
            BY <2>5, <3>1, <4>2, <5>1
        <4>3. QED
          BY <4>1, <4>2
      <3>3. QED
        BY <3>1, <3>2
    <2>6. QED
      BY <2>2, <2>3, <2>4, <2>5
  <1> HIDE DEF P
  <1>5. \A j \in 0..n : Pre(j)
    <2>1. \A j \in Nat : j \in P
      BY <1>3, <1>4, Induction
    <2>2. QED
      BY <2>1 DEF P
  <1>6. ASSUME NEW j \in 1..n
        PROVE  /\ Len(to[j - 1]) \in Nat
               /\ Len(to[j]) = Len(to[j - 1]) + Len(Escaped(t[j]))
               /\ \A i \in 1..Len(Escaped(t[j])) : to[j][Len(to[j - 1]) + i] = Escaped(t[j])[i]
               /\ \A i \in 1..Len(to[j - 1]) : to[j][i] = to[j - 1][i]
    <2>1. j - 1 \in 0..n /\ Pre(j - 1)
      BY <1>5
    <2>2. to[j] = to[j - 1] \o Escaped(t[j])
      BY <1>1
    <2>3. Escaped(t[j]) \in Seq(Chars) /\ to[j - 1] \in Seq(Chars)
      BY <1>2, <2>1, EscapedProperties DEF Chars
    <2>4. ASSUME NEW x \in Seq(Chars), NEW y \in Seq(Chars)
          PROVE  /\ Len(x) \in Nat /\ Len(x \o y) = Len(x) + Len(y)
                 /\ \A i \in 1..Len(y) : (x \o y)[Len(x) + i] = y[i]
                 /\ \A i \in 1..Len(x) : (x \o y)[i] = x[i]
      BY ConcatProperties
    <2>5. PICK x \in Seq(Chars), y \in Seq(Chars) : x = to[j - 1] /\ y = Escaped(t[j])
      BY <2>3
    <2>6. to[j] = x \o y
      BY <2>2, <2>5
    <2>7. /\ Len(x) \in Nat /\ Len(x \o y) = Len(x) + Len(y)
          /\ \A i \in 1..Len(y) : (x \o y)[Len(x) + i] = y[i]
          /\ \A i \in 1..Len(x) : (x \o y)[i] = x[i]
      BY <2>4
    <2>8. QED
      BY ONLY <2>5, <2>6, <2>7
  (* Each prefix of the text is one of the whole text.                     *)
  <1> DEFINE Whole(j) == /\ Len(to[j]) <= Len(e)
                         /\ \A i \in 1..Len(to[j]) : e[i] = to[j][i]
             Q == {k \in Nat : k <= n => Whole(n - k)}
  <1>7. 0 \in Q
    <2>1. n - 0 = n
      OBVIOUS
    <2>2. Pre(n)
      BY <1>5
    <2>3. QED
      BY <1>1, <2>1, <2>2
  <1>8. ASSUME NEW k \in Nat, k \in Q PROVE k + 1 \in Q
    <2> SUFFICES ASSUME k + 1 <= n PROVE Whole(n - (k + 1))
      OBVIOUS
    <2>1. PICK j \in 1..n : j = n - k /\ j - 1 = n - (k + 1)
      OBVIOUS
    <2>2. Whole(j)
      BY <1>8, <2>1
    <2>3. Len(Escaped(t[j])) \in Nat
      BY <1>2, EscapedProperties
    <2>4. Len(to[j - 1]) \in Nat /\ Len(to[j - 1]) <= Len(to[j]) /\ Len(e) \in Nat
      <3>1. e \in Seq(Chars)
        BY <1>1, <1>5
      <3>2. Len(e) \in Nat
        BY <3>1
      <3>3. PICK a \in Nat, b \in Nat : a = Len(to[j - 1]) /\ b = Len(Escaped(t[j]))
        BY <1>6, <2>3
      <3>4. Len(to[j]) = a + b
        BY <1>6, <3>3
      <3>5. a + b >= a
        OBVIOUS
      <3>6. QED
        BY ONLY <3>2, <3>3, <3>4, <3>5
    <2>5. Len(to[j - 1]) <= Len(e)
      <3>1. Len(to[j]) \in Nat
        BY <1>5
      <3>2. QED
        BY <2>2, <2>4, <3>1
    <2>6. ASSUME NEW i \in 1..Len(to[j - 1]) PROVE e[i] = to[j - 1][i]
      <3>1. i \in 1..Len(to[j])
        <4>1. Len(to[j]) \in Nat
          BY <1>5
        <4>2. QED
          BY <2>4, <4>1
      <3>2. QED
        BY <1>6, <2>2, <3>1
    <2>7. QED
      BY <2>1, <2>5, <2>6
  <1> HIDE DEF Q
  <1>9. \A j \in 0..n : Whole(j)
    <2>1. \A k \in Nat : k \in Q
      BY <1>7, <1>8, Induction
    <2>2. ASSUME NEW j \in 0..n PROVE Whole(j)
      <3>1. n - j \in Nat /\ n - j <= n /\ n - (n - j) = j
        OBVIOUS
      <3>2. QED
        BY <2>1, <3>1 DEF Q
    <2>3. QED
      BY <2>2
  <1>10. e \in Seq(Chars) /\ Len(e) \in Nat /\ Value(e) = e
    <2>1. e \in Seq(Chars) /\ \A i \in 1..Len(e) : e[i] # "&"
      BY <1>1, <1>5
    <2>2. QED
      BY <2>1 DEF Value
  <1>11. PICK f : /\ PercentDecode(e) = f[1]
                  /\ \A i \in 1..(Len(e) + 3) : f[i] = DecodeAt(e, f, i)
    BY <1>10, Decoding
  (* From where a character of the token is encoded, the rest is decoded.  *)
  <1> DEFINE Rest(j) == f[Len(to[j]) + 1] = SubSeq(t, j + 1, n)
             R == {k \in Nat : k <= n => Rest(n - k)}
  <1> HIDE DEF Pre, Whole
  <1>12. 0 \in R
    <2>1. n \in Nat /\ n - 0 = n
      OBVIOUS
    <2>2. f[Len(e) + 1] = <<>>
      <3>1. Len(e) + 1 \in 1..(Len(e) + 3) /\ Len(e) + 1 > Len(e)
        BY <1>10
      <3>2. f[Len(e) + 1] = DecodeAt(e, f, Len(e) + 1)
        BY <1>11, <3>1
      <3>3. QED
        BY <3>1, <3>2 DEF DecodeAt
    <2>3. SubSeq(t, n + 1, n) = <<>>
      BY <2>1, SubSeqEmpty
    <2>4. QED
      BY <1>1, <2>1, <2>2, <2>3
  <1>13. ASSUME NEW k \in Nat, k \in R PROVE k + 1 \in R
    <2> SUFFICES ASSUME k + 1 <= n PROVE Rest(n - (k + 1))
      OBVIOUS
    <2>1. PICK j \in 1..n : j = n - k /\ j - 1 = n - (k + 1)
      OBVIOUS
    <2>2. f[Len(to[j]) + 1] = SubSeq(t, j + 1, n)
      BY <1>13, <2>1
    <2>3. PICK p \in Nat : p = Len(to[j - 1])
      BY <1>6
    <2>4. PICK m \in Nat : m = Len(e)
      BY <1>10
    <2>5. /\ Len(Escaped(t[j])) \in {1, 3} /\ p + Len(Escaped(t[j])) <= m
          /\ Len(to[j]) = p + Len(Escaped(t[j]))
          /\ \A i \in 1..Len(Escaped(t[j])) : e[p + i] = Escaped(t[j])[i]
      <3>1. Whole(j)
        BY <1>9
      <3>2. Len(Escaped(t[j])) \in {1, 3}
        BY <1>2, EscapedProperties
      <3>3. /\ Len(to[j]) = p + Len(Escaped(t[j]))
            /\ \A i \in 1..Len(Escaped(t[j])) : to[j][p + i] = Escaped(t[j])[i]
        BY <1>6, <2>3
      <3>4. \A i \in 1..Len(Escaped(t[j])) : p + i \in 1..Len(to[j])
        BY <3>2, <3>3
      <3>5. QED
        BY <2>4, <3>1, <3>2, <3>3, <3>4 DEF Whole
    <2>6. p + 1 \in 1..(m + 3) /\ ~(p + 1 > m)
      <3>1. p + 1 <= m
        <4>1. PICK l \in {1, 3} : l = Len(Escaped(t[j]))
          BY <2>5
        <4>2. p + l <= m
          BY <2>5, <4>1
        <4>3. QED
          BY <4>2
      <3>2. QED
        BY <3>1
    <2> DEFINE c == t[j]
    <2>12. c \in C
      BY <1>2
    <2> HIDE DEF c
    <2>13. /\ Len(Escaped(c)) = (IF c \in {"%", "&"} THEN 3 ELSE 1)
           /\ c = "%" => Escaped(c)[1] = "%" /\ Escaped(c)[2] = "2" /\ Escaped(c)[3] = "5"
           /\ c = "&" => Escaped(c)[1] = "%" /\ Escaped(c)[2] = "2" /\ Escaped(c)[3] = "6"
           /\ c \notin {"%", "&"} => Escaped(c)[1] = c
      BY <2>12, EscapedProperties
    <2>14. /\ Len(to[j]) = p + Len(Escaped(c)) /\ p + Len(Escaped(c)) <= m
           /\ \A i \in 1..Len(Escaped(c)) : e[p + i] = Escaped(c)[i]
      BY <2>5 DEF c
    <2>7. f[p + 1] = DecodeAt(e, f, p + 1)
      BY <1>11, <2>4, <2>6
    <2>8. f[p + 1] = <<c>> \o f[Len(to[j]) + 1]
      <3>1. CASE c \in {"%", "&"}
        <4>1. Len(Escaped(c)) = 3 /\ 1 \in 1..3 /\ 2 \in 1..3 /\ 3 \in 1..3
          BY <2>13, <3>1
        <4>2. e[p + 1] = Escaped(c)[1] /\ e[p + 2] = Escaped(c)[2] /\ e[p + 3] = Escaped(c)[3]
          BY <2>14, <4>1
        <4>3. /\ e[p + 1] = "%" /\ e[p + 2] = "2" /\ e[p + 3] \in {"5", "6"}
              /\ e[p + 3] = IF c = "%" THEN "5" ELSE "6"
          BY <2>13, <3>1, <4>2
        <4>4. /\ (p + 1) + 2 <= m /\ (p + 1) + 1 = p + 2 /\ (p + 1) + 2 = p + 3
              /\ (p + 1) + 3 = Len(to[j]) + 1
          BY <2>14, <4>1
        <4>5. f[p + 1] = <<Decoded("2", e[p + 3])>> \o f[Len(to[j]) + 1]
          BY <2>4, <2>6, <2>7, <4>3, <4>4 DEF DecodeAt, HexDigits
        <4>6. Decoded("2", e[p + 3]) = c
          BY <3>1, <4>3 DEF Decoded
        <4>7. QED
          BY <4>5, <4>6
      <3>2. CASE c \notin {"%", "&"}
        <4>1. Len(Escaped(c)) = 1 /\ 1 \in 1..1 /\ Escaped(c)[1] = c
          BY <2>13, <3>2
        <4>2. e[p + 1] = c /\ (p + 1) + 1 = Len(to[j]) + 1
          BY <2>14, <4>1
        <4>3. QED
          BY <2>4, <2>6, <2>7, <3>2, <4>2 DEF DecodeAt
      <3>3. QED
        BY <3>1, <3>2
    <2>9. SubSeq(t, j, n) = <<t[j]>> \o SubSeq(t, j + 1, n)
      <3>1. n \in j..n
        OBVIOUS
      <3>2. QED
        BY <3>1, SubSeqRecursiveFirst
    <2>10. (j - 1) + 1 = j
      OBVIOUS
    <2>11. QED
      BY <2>1, <2>2, <2>3, <2>8, <2>9, <2>10 DEF c
  <1> HIDE DEF R
  <1>14. Rest(0)
    <2>1. n \in Nat /\ n <= n /\ n - n = 0
      OBVIOUS
    <2>2. n \in R
      BY <1>12, <1>13, <2>1, Induction
    <2>3. QED
      BY <2>1, <2>2 DEF R
  <1>15. f[1] = t
    <2>1. Len(to[0]) + 1 = 1
      BY <1>1
    <2>2. 0 + 1 = 1
      OBVIOUS
    <2>3. QED
      BY <1>14, <2>1, <2>2, SubSeqFull
  <1>16. QED
    BY <1>10, <1>11, <1>15 DEF e

(* A token that a page percent-encodes is accepted exactly when it is the  *)
(* one configured, and needs no encoding without "%" and "&", whatever     *)
(* characters tokens have.  The escapes in what a page sends are the two   *)
(* of Encoded, so the other hexadecimal digits play no part.               *)
THEOREM EncodedTokens == StartSpec => []TokenRoundTrip
  <1>1. TokenRoundTrip
    <2> SUFFICES ASSUME config.token # NoToken, NEW t \in Tokens
                 PROVE  /\ TokenAccepted(Encoded(t)) <=> t = config.token
                        /\ (t = config.token /\ \A i \in 1..Len(t) : t[i] \notin {"%", "&"})
                             => TokenAccepted(t)
      BY DEF TokenRoundTrip
    <2>1. t \in Seq(STRING) /\ t # NoToken
      BY StartupAssumption
    <2>2. PercentDecode(Value(Encoded(t))) = t
      BY <2>1, RoundTrip
    <2>3. Encoded(t) # NoToken
      <3>1. \A i \in 1..Len(NoToken) : NoToken[i] \notin {"%", "&"}
        BY DEF NoToken
      <3>2. NoToken \in Seq({"-"})
        BY DEF NoToken
      <3>3. PercentDecode(Value(NoToken)) = NoToken
        BY <3>1, <3>2, Unescaped
      <3>4. QED
        BY <2>1, <2>2, <3>3
    <2>4. TokenAccepted(Encoded(t)) <=> t = config.token
      BY <2>2, <2>3 DEF TokenAccepted
    <2>5. ASSUME t = config.token, \A i \in 1..Len(t) : t[i] \notin {"%", "&"}
          PROVE  TokenAccepted(t)
      <3>1. PercentDecode(Value(t)) = t
        BY <2>1, <2>5, Unescaped
      <3>2. QED
        BY <2>1, <2>5, <3>1 DEF TokenAccepted
    <2>6. QED
      BY <2>4, <2>5
  <1>2. QED
    BY <1>1, PTL

(***************************************************************************)
(* The choice of a scanner.                                                *)
(***************************************************************************)

(* The entries there may be. *)
Ids == {Numbers[i] : i \in 1..Len(Numbers)}
Entries == [id : Ids, name : Names, source : Backends]

(* A list in which a name is that of native scanners or of the sidecar's.  *)
Separate(list) ==
  /\ list \in Seq(Entries)
  /\ \A i, j \in DOMAIN list : list[i].name = list[j].name => list[i].source = list[j].source

(* The list of a backend. *)
LEMMA EnumerationEntries ==
  ASSUME NEW b \in Backends, installed \in [Backends -> Installations],
         NEW list \in Enumerations(b)
  PROVE  list \in Seq(Entries) /\ \A i \in DOMAIN list : list[i].source = b
  <1>1. PICK n \in 0..Len(installed[b]) : list = [i \in 1..n |-> Entry(b, i, installed[b][i])]
    BY DEF Enumerations
  <1>2. PICK m \in 0..Len(Numbers) : installed[b] \in [1..m -> Names]
    BY DEF Installations, BoundedSeq, SeqOf
  <1>3. Len(Numbers) \in Nat
    BY ChoiceAssumption
  <1>4. Len(installed[b]) = m
    BY <1>2, <1>3
  <1>5. ASSUME NEW i \in 1..n PROVE Entry(b, i, installed[b][i]) \in Entries
    <2>1. i \in 1..m /\ i \in 1..Len(Numbers)
      BY <1>3, <1>4
    <2>2. installed[b][i] \in Names /\ Numbers[i] \in Ids
      BY <1>2, <2>1 DEF Ids
    <2>3. QED
      BY <2>2 DEF Entry, Entries
  <1>6. n \in Nat
    BY <1>3, <1>4
  <1>7. list \in [1..n -> Entries]
    BY <1>1, <1>5
  <1>8. list \in Seq(Entries)
    BY <1>6, <1>7, SeqDef
  <1>9. \A i \in DOMAIN list : list[i].source = b
    BY <1>1 DEF Entry
  <1>10. QED
    BY <1>8, <1>9

(* What the merge makes of one more entry of the sidecar.                  *)
Extended(list, e) ==
  IF \E i \in DOMAIN list : list[i].name = e.name THEN list ELSE Append(list, e)

(* The loop of discover_scanners goes through the sidecar's list.          *)
LEMMA Merging ==
  ASSUME NEW native, NEW sidecar, Len(sidecar) \in Nat
  PROVE  \E f : /\ Merged(native, sidecar) = f[Len(sidecar)]
                /\ f[0] = native
                /\ \A i \in 1..Len(sidecar) : f[i] = Extended(f[i - 1], sidecar[i])
  <1> DEFINE n == Len(sidecar)
             At(f, i) == IF i = 0 THEN native ELSE Extended(f[i - 1], sidecar[i])
             Rec(f) == f = [i \in 0..n |-> At(f, i)]
             Reach(k) == \E f : \A i \in 0..n : i < k => f[i] = At(f, i)
             S == {k \in Nat : Reach(k)}
  <1>1. 0 \in S
    <2>1. \A i \in 0..n : ~(i < 0)
      OBVIOUS
    <2>2. QED
      BY <2>1
  <1>2. ASSUME NEW k \in Nat, k \in S PROVE k + 1 \in S
    <2>1. PICK f : \A i \in 0..n : i < k => f[i] = At(f, i)
      BY <1>2
    <2> DEFINE h == [i \in 0..n |-> IF i = k THEN At(f, i) ELSE f[i]]
    <2>2. ASSUME NEW i \in 0..n, i < k + 1
          PROVE  h[i] = At(h, i)
      <3>1. h[i] = At(f, i)
        BY <2>1, <2>2
      <3>2. i # 0 => h[i - 1] = f[i - 1]
        BY <2>2
      <3>3. At(f, i) = At(h, i)
        BY <3>2
      <3>4. QED
        BY <3>1, <3>3
    <2> HIDE DEF h
    <2>3. Reach(k + 1)
      BY <2>2
    <2>4. QED
      BY <2>3
  <1> HIDE DEF S
  <1>3. n + 1 \in S
    BY <1>1, <1>2, Induction
  <1>4. PICK f : \A i \in 0..n : f[i] = At(f, i)
    <2>1. Reach(n + 1)
      BY <1>3 DEF S
    <2>2. \A i \in 0..n : i < n + 1
      OBVIOUS
    <2>3. QED
      BY <2>1, <2>2
  <1> DEFINE g == [i \in 0..n |-> f[i]]
  <1>5. Rec(g)
    <2>1. ASSUME NEW i \in 0..n PROVE f[i] = At(g, i)
      <3>1. i # 0 => g[i - 1] = f[i - 1]
        OBVIOUS
      <3>2. QED
        BY <1>4, <3>1
    <2>2. QED
      BY <2>1
  <1> DEFINE upTo == CHOOSE x : Rec(x)
  <1>6. Rec(upTo)
    <2> HIDE DEF Rec, g
    <2>1. QED
      BY <1>5
  <1>7. Merged(native, sidecar) = upTo[n]
    BY DEF Merged, Extended
  <1> HIDE DEF upTo
  <1>8. \A i \in 0..n : upTo[i] = At(upTo, i)
    BY <1>6
  <1>9. upTo[0] = native
    BY <1>8
  <1>10. ASSUME NEW i \in 1..n PROVE upTo[i] = Extended(upTo[i - 1], sidecar[i])
    <2>1. i \in 0..n /\ i # 0
      OBVIOUS
    <2>2. upTo[i] = At(upTo, i)
      BY <1>8, <2>1
    <2>3. QED
      BY <2>1, <2>2
  <1>11. QED
    BY <1>7, <1>9, <1>10

(* No entry of the sidecar has the name of a native one.                   *)
LEMMA MergedSeparate ==
  ASSUME installed \in [Backends -> Installations],
         NEW native \in Enumerations("native"), NEW sidecar \in Enumerations("sidecar")
  PROVE  Separate(Merged(native, sidecar))
  <1>1. /\ native \in Seq(Entries) /\ \A i \in DOMAIN native : native[i].source = "native"
        /\ sidecar \in Seq(Entries) /\ \A i \in DOMAIN sidecar : sidecar[i].source = "sidecar"
    BY EnumerationEntries DEF Backends
  <1>2. PICK f : /\ Merged(native, sidecar) = f[Len(sidecar)]
                 /\ f[0] = native
                 /\ \A i \in 1..Len(sidecar) : f[i] = Extended(f[i - 1], sidecar[i])
    BY <1>1, Merging
  <1> DEFINE n == Len(sidecar)
             S == {k \in Nat : k <= n => Separate(f[k])}
  <1>3. 0 \in S
    BY <1>1, <1>2 DEF Separate
  <1>4. ASSUME NEW k \in Nat, k \in S PROVE k + 1 \in S
    <2> SUFFICES ASSUME k + 1 <= n PROVE Separate(f[k + 1])
      OBVIOUS
    <2>1. k + 1 \in 1..n /\ (k + 1) - 1 = k /\ k <= n
      BY <1>1
    <2>2. f[k + 1] = Extended(f[k], sidecar[k + 1])
      BY <1>2, <2>1
    <2>3. sidecar[k + 1] \in Entries /\ sidecar[k + 1].source = "sidecar"
      BY <1>1, <2>1
    <2>4. ASSUME NEW list, Separate(list), NEW e \in Entries PROVE Separate(Extended(list, e))
      <3>1. CASE \E i \in DOMAIN list : list[i].name = e.name
        BY <2>4, <3>1 DEF Extended
      <3>2. CASE \A i \in DOMAIN list : list[i].name # e.name
        <4>1. Extended(list, e) = Append(list, e)
          BY <3>2 DEF Extended
        <4>2. list \in Seq(Entries) /\ DOMAIN list = 1..Len(list) /\ Len(list) \in Nat
          BY <2>4 DEF Separate
        <4>3. /\ Append(list, e) \in Seq(Entries) /\ Len(Append(list, e)) = Len(list) + 1
              /\ \A i \in 1..Len(list) : Append(list, e)[i] = list[i]
              /\ Append(list, e)[Len(list) + 1] = e
          BY <4>2, AppendProperties
        <4>4. ASSUME NEW i \in 1..(Len(list) + 1), NEW j \in 1..(Len(list) + 1),
                     Append(list, e)[i].name = Append(list, e)[j].name
              PROVE  Append(list, e)[i].source = Append(list, e)[j].source
          <5>1. CASE i = Len(list) + 1 /\ j = Len(list) + 1
            BY <5>1
          <5>2. CASE i = Len(list) + 1 /\ j \in 1..Len(list)
            BY <3>2, <4>2, <4>3, <4>4, <5>2
          <5>3. CASE i \in 1..Len(list) /\ j = Len(list) + 1
            BY <3>2, <4>2, <4>3, <4>4, <5>3
          <5>4. CASE i \in 1..Len(list) /\ j \in 1..Len(list)
            BY <2>4, <4>2, <4>3, <4>4, <5>4 DEF Separate
          <5>5. QED
            BY <4>2, <5>1, <5>2, <5>3, <5>4
        <4>5. DOMAIN Append(list, e) = 1..(Len(list) + 1)
          BY <4>3
        <4>6. QED
          BY <4>1, <4>3, <4>4, <4>5 DEF Separate
      <3>3. QED
        BY <3>1, <3>2
    <2>5. QED
      BY <1>4, <2>1, <2>2, <2>3, <2>4
  <1> HIDE DEF S
  <1>5. n \in S
    <2>1. n \in Nat
      BY <1>1
    <2>2. QED
      BY <1>3, <1>4, <2>1, Induction
  <1>6. Separate(f[n])
    BY <1>1, <1>5 DEF S
  <1>7. QED
    BY <1>2, <1>6

(* An entry of a list is never the absence of one. *)
LEMMA EntryFound ==
  ASSUME NEW e \in Entries
  PROVE  e # NoEntry
  <1>1. e.source \in {"native", "sidecar"}
    BY DEF Entries, Backends
  <1>2. NoEntry.source = ""
    BY DEF NoEntry
  <1>3. QED
    BY <1>1, <1>2

(* No entry before the k-th has the text in one of the fields.             *)
NoneBefore(list, fields, text, k) ==
  \A j \in DOMAIN list : (\E f \in fields : list[j][f] = text) => k <= j

(* The first entry of a list with the text in one of the fields: it is one *)
(* of the list, and none before it has the text.                           *)
LEMMA FirstFound ==
  ASSUME NEW list \in Seq(Entries), NEW fields \in SUBSET {"id", "name"}, NEW text,
         First(list, fields, text) # NoEntry
  PROVE  \E k \in DOMAIN list :
           /\ First(list, fields, text) = list[k]
           /\ \E f \in fields : list[k][f] = text
           /\ NoneBefore(list, fields, text, k)
  <1> DEFINE at == {i \in DOMAIN list : \E f \in fields : list[i][f] = text}
  <1>1. at # {} /\ First(list, fields, text) = list[Min(at)]
    BY DEF First
  <1>2. at \subseteq Nat
    OBVIOUS
  <1>3. PICK m \in at : \A k \in at : m <= k
    BY <1>1, <1>2, Smallest
  <1> HIDE DEF at
  <1>4. Min(at) \in at /\ \A k \in at : Min(at) <= k
    BY <1>3 DEF Min
  <1>5. QED
    BY <1>1, <1>4 DEF at, NoneBefore

(* The lists are sound, and a scan that got so far has what it resolved.    *)
ChoiceInv ==
  /\ installed \in [Backends -> Installations]
  /\ Separate(scanners) /\ Separate(shown)
  /\ choice \in {"idle", "resolved", "opened", "failed"}
  /\ choice \in {"resolved", "opened"} =>
       /\ \/ meant.by = "nothing"
          \/ meant.by \in {"name", "id"} /\ meant.entry \in Entries
       /\ info = Resolved(meant.by, meant.entry) /\ info # NoEntry
  /\ choice = "opened" => opened.name = info.name /\ opened.source = info.source

(* The initial state: nobody has a list yet.                               *)
LEMMA ChoiceInitInv == ChoiceInit => ChoiceInv
  <1> SUFFICES ASSUME ChoiceInit PROVE ChoiceInv
    OBVIOUS
  <1>1. Separate(<<>>)
    BY DEF Separate
  <1>2. QED
    BY <1>1 DEF ChoiceInit, ChoiceInv

(* A discovery, a change of what is installed, a choice and the opening.   *)
LEMMA ChoiceStep == ChoiceInv /\ [ChoiceNext]_choiceVars => ChoiceInv'
  <1> SUFFICES ASSUME ChoiceInv, [ChoiceNext]_choiceVars PROVE ChoiceInv'
    OBVIOUS
  <1>1. CASE Discover
    <2>1. /\ UNCHANGED <<installed, changes, choice, meant, info, opened>> /\ choice = "idle"
          /\ shown' \in {shown, scanners'}
      BY <1>1 DEF Discover
    <2>2. PICK n \in Enumerations("native"), s \in Enumerations("sidecar") :
            scanners' = Merged(n, s)
      BY <1>1 DEF Discover
    <2>3. Separate(Merged(n, s))
      BY MergedSeparate DEF ChoiceInv
    <2>4. Separate(scanners)' /\ Separate(shown)'
      BY <2>1, <2>2, <2>3 DEF ChoiceInv, Separate
    <2>5. QED
      BY <2>1, <2>4 DEF ChoiceInv
  <1>2. CASE InstallationChanges
    <2>1. /\ UNCHANGED <<scanners, shown, choice, meant, info, opened>>
          /\ installed' \in [Backends -> Installations]
      BY <1>2 DEF InstallationChanges, ChoiceInv
    <2>2. Separate(scanners)' /\ Separate(shown)'
      BY <2>1 DEF ChoiceInv, Separate
    <2>3. choice \in {"resolved", "opened"} =>
            Resolved(meant.by, meant.entry)' = Resolved(meant.by, meant.entry)
      BY <2>1 DEF Resolved
    <2>4. QED
      BY <2>1, <2>2, <2>3 DEF ChoiceInv
  <1>3. ASSUME NEW by, NEW e, Resolve(by, e),
               by = "nothing" \/ (by \in {"name", "id"} /\ e \in Entries)
        PROVE  ChoiceInv'
    <2>1. /\ UNCHANGED <<installed, changes, scanners, shown, opened>>
          /\ meant'.by = by /\ meant'.entry = e /\ info' = Resolved(by, e)
          /\ choice' = IF info' = NoEntry THEN "failed" ELSE "resolved"
      BY <1>3 DEF Resolve
    <2>2. Separate(scanners)' /\ Separate(shown)'
      BY <2>1 DEF ChoiceInv, Separate
    <2>3. Resolved(meant.by, meant.entry)' = Resolved(by, e)
      BY <2>1 DEF Resolved
    <2>4. QED
      BY <1>3, <2>1, <2>2, <2>3 DEF ChoiceInv
  <1>4. CASE Open
    <2>1. /\ UNCHANGED <<installed, changes, scanners, shown, meant, info>> /\ choice = "resolved"
          /\ choice' = IF opened' = NoEntry THEN "failed" ELSE "opened"
      BY <1>4 DEF Open
    <2>2. PICK now \in Enumerations(info.source) : opened' = First(now, {"name"}, info.name)
      BY <1>4 DEF Open
    <2>3. Separate(scanners)' /\ Separate(shown)'
      BY <2>1 DEF ChoiceInv, Separate
    <2>4. Resolved(meant.by, meant.entry)' = Resolved(meant.by, meant.entry)
      BY <2>1 DEF Resolved
    <2>5. CASE opened' = NoEntry
      BY <2>1, <2>3, <2>5 DEF ChoiceInv
    <2>6. CASE opened' # NoEntry
      <3>1. info \in Entries
        <4>1. info # NoEntry /\ info = Resolved(meant.by, meant.entry) /\ scanners \in Seq(Entries)
          BY <2>1 DEF ChoiceInv, Separate
        <4>2. PICK fields \in SUBSET {"id", "name"} : fields = {"name", "id"}
          OBVIOUS
        <4>3. PICK text : info = First(scanners, fields, text)
          BY <4>1, <4>2 DEF Resolved
        <4>4. First(scanners, fields, text) # NoEntry
          BY <4>1, <4>3
        <4>5. \E k \in DOMAIN scanners : First(scanners, fields, text) = scanners[k]
          BY <4>1, <4>4, FirstFound
        <4>6. QED
          BY <4>1, <4>3, <4>5
      <3>2. info.source \in Backends
        BY <3>1 DEF Entries
      <3>3. now \in Seq(Entries) /\ \A i \in DOMAIN now : now[i].source = info.source
        BY <3>2, EnumerationEntries DEF ChoiceInv
      <3>4. PICK k \in DOMAIN now : opened' = now[k] /\ \E f \in {"name"} : now[k][f] = info.name
        <4>1. PICK fields \in SUBSET {"id", "name"} : fields = {"name"}
          OBVIOUS
        <4>2. opened' = First(now, fields, info.name)
          BY <2>2, <4>1
        <4>3. PICK k \in DOMAIN now : opened' = now[k] /\ \E f \in fields : now[k][f] = info.name
          <5> DEFINE name == info.name
                     found == opened'
          <5> HIDE DEF name, found
          <5>1. found = First(now, fields, name) /\ found # NoEntry
            BY <2>6, <4>2 DEF name, found
          <5>2. \E k \in DOMAIN now : found = now[k] /\ \E f \in fields : now[k][f] = name
            BY <3>3, <5>1, FirstFound
          <5>3. QED
            BY <5>2 DEF name, found
        <4>4. QED
          BY <4>1, <4>3
      <3>5. opened'.name = info.name /\ opened'.source = info.source
        BY <3>3, <3>4
      <3>6. QED
        BY <2>1, <2>3, <2>4, <2>6, <3>5 DEF ChoiceInv
    <2>7. QED
      BY <2>5, <2>6
  <1>5. CASE UNCHANGED choiceVars
    <2>1. UNCHANGED <<installed, scanners, shown, choice, meant, info, opened>>
      BY <1>5 DEF choiceVars
    <2>2. /\ Separate(scanners)' /\ Separate(shown)'
          /\ Resolved(meant.by, meant.entry)' = Resolved(meant.by, meant.entry)
      BY <2>1 DEF ChoiceInv, Separate, Resolved
    <2>3. QED
      BY <2>1, <2>2 DEF ChoiceInv
  <1>6. ASSUME NEW i \in DOMAIN shown, NEW by \in {"name", "id"}, Resolve(by, shown[i])
        PROVE  ChoiceInv'
    <2>1. shown[i] \in Entries
      BY DEF ChoiceInv, Separate
    <2>2. QED
      BY <1>3, <1>6, <2>1
  <1>7. QED
    BY <1>1, <1>2, <1>3, <1>4, <1>5, <1>6 DEF ChoiceNext

(* However old the client's list is, and whatever came or went, the source *)
(* that a scan opens is the one the client meant.                          *)
THEOREM OpensWhatWasMeant == ChoiceSpec => []SourceAsMeant
  <1>1. ChoiceInv => SourceAsMeant
    <2> SUFFICES ASSUME ChoiceInv, choice = "opened" PROVE SourceAsMeant
      BY DEF SourceAsMeant
    <2>1. /\ info = Resolved(meant.by, meant.entry) /\ info # NoEntry
          /\ opened.name = info.name /\ opened.source = info.source
          /\ scanners \in Seq(Entries)
          /\ \/ meant.by = "nothing"
             \/ meant.by \in {"name", "id"} /\ meant.entry \in Entries
      BY DEF ChoiceInv, Separate
    <2> DEFINE text == IF meant.by = "name" THEN meant.entry.name
                       ELSE IF meant.by = "id" THEN meant.entry.id
                       ELSE IF scanners = <<>> THEN "" ELSE scanners[1].name
    <2>2. PICK k \in DOMAIN scanners :
            /\ info = scanners[k]
            /\ \E f \in {"name", "id"} : scanners[k][f] = text
            /\ NoneBefore(scanners, {"name", "id"}, text, k)
      <3> HIDE DEF text
      <3>1. PICK fields \in SUBSET {"id", "name"} : fields = {"name", "id"}
        OBVIOUS
      <3>2. info = First(scanners, fields, text)
        BY <2>1, <3>1 DEF Resolved, text
      <3>3. First(scanners, fields, text) # NoEntry /\ scanners \in Seq(Entries)
        BY <2>1, <3>2
      <3>4. \E k \in DOMAIN scanners :
              /\ First(scanners, fields, text) = scanners[k]
              /\ \E f \in fields : scanners[k][f] = text
              /\ NoneBefore(scanners, fields, text, k)
        <4>1. PICK w : w = text
          OBVIOUS
        <4>2. First(scanners, fields, w) # NoEntry
          BY <3>3, <4>1
        <4>3. \E k \in DOMAIN scanners :
                /\ First(scanners, fields, w) = scanners[k]
                /\ \E f \in fields : scanners[k][f] = w
                /\ NoneBefore(scanners, fields, w, k)
          BY <3>3, <4>2, FirstFound
        <4>4. QED
          BY <4>1, <4>3
      <3>5. QED
        BY <3>1, <3>2, <3>4
    <2>3. info \in Entries /\ \A j \in DOMAIN scanners : scanners[j] \in Entries
      <3>1. \A j \in DOMAIN scanners : scanners[j] \in Entries
        BY <2>1
      <3>2. QED
        BY <2>2, <3>1
    <2>4. info.name = text \/ info.id = text
      BY <2>2
    <2>5. \A e \in Entries : e.name \in Names /\ e.id \in Ids /\ e.name \notin Ids /\ e.id \notin Names
      BY ChoiceAssumption DEF Entries, Ids
    <2>6. meant.by = "name" => opened.name = meant.entry.name
      <3>1. ASSUME meant.by = "name" PROVE text \in Names /\ text = meant.entry.name
        BY <2>1, <2>5, <3>1
      <3> HIDE DEF text
      <3>2. QED
        BY <2>1, <2>3, <2>4, <2>5, <3>1
    <2>7. ASSUME meant.by = "id", scanners = shown, First(shown, {"id"}, meant.entry.id) = meant.entry
          PROVE  opened.name = meant.entry.name
      <3>1. text = meant.entry.id /\ meant.entry \in Entries /\ text \in Ids
        BY <2>1, <2>5, <2>7
      <3> HIDE DEF text
      <3>2. First(scanners, {"id"}, text) # NoEntry
        BY <2>7, <3>1, EntryFound
      <3>3. PICK l \in DOMAIN scanners :
              /\ meant.entry = scanners[l]
              /\ \E f \in {"id"} : scanners[l][f] = text
              /\ NoneBefore(scanners, {"id"}, text, l)
        <4>1. PICK fields \in SUBSET {"id", "name"} : fields = {"id"}
          OBVIOUS
        <4>2. meant.entry = First(scanners, fields, text) /\ meant.entry # NoEntry
          BY <2>7, <3>1, <3>2, <4>1
        <4>3. \E l \in DOMAIN scanners :
                /\ First(scanners, fields, text) = scanners[l]
                /\ \E f \in fields : scanners[l][f] = text
                /\ NoneBefore(scanners, fields, text, l)
          BY <2>1, <4>2, FirstFound
        <4>4. QED
          BY <4>1, <4>2, <4>3
      <3>4. scanners[k].id = text /\ scanners[l].id = text
        BY <2>2, <2>3, <2>4, <2>5, <3>1, <3>3
      <3>5. k <= l /\ l <= k
        BY <2>2, <3>3, <3>4 DEF NoneBefore
      <3>6. k = l
        BY <2>1, <3>5
      <3>7. QED
        BY <2>1, <2>2, <3>3, <3>6
    <2>8. ASSUME meant.by = "nothing" PROVE opened.name = scanners[1].name
      <3>1. scanners # <<>> /\ 1 \in DOMAIN scanners
        <4>1. DOMAIN scanners = 1..Len(scanners) /\ Len(scanners) \in Nat
          BY <2>1
        <4>2. k \in 1..Len(scanners)
          BY <2>2, <4>1
        <4>3. Len(scanners) # 0 /\ 1 \in 1..Len(scanners)
          BY <4>1, <4>2
        <4>4. QED
          BY <4>1, <4>3
      <3>2. text = scanners[1].name
        BY <2>8, <3>1
      <3> HIDE DEF text
      <3>3. k <= 1
        BY <2>2, <3>1, <3>2 DEF NoneBefore
      <3>4. k = 1
        BY <2>1, <3>3
      <3>5. info = scanners[1]
        BY <2>2, <3>4
      <3>6. opened.name = info.name
        BY <2>1
      <3>7. QED
        BY <3>5, <3>6
    <2>9. ASSUME opened.source = "sidecar", NEW i \in DOMAIN scanners, scanners[i].name = opened.name
          PROVE  scanners[i].source = "sidecar"
      <3>1. scanners[i].name = scanners[k].name /\ scanners[k].source = "sidecar"
        BY <2>1, <2>2, <2>9
      <3>2. QED
        BY <3>1 DEF ChoiceInv, Separate
    <2>10. QED
      BY <2>6, <2>7, <2>8, <2>9 DEF SourceAsMeant
  <1>2. QED
    BY ChoiceInitInv, ChoiceStep, <1>1, PTL DEF ChoiceSpec
=============================================================================
