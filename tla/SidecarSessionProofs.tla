------------------------- MODULE SidecarSessionProofs -------------------------
(***************************************************************************)
(* One job of the sidecar, for both jobs, every number of attempts and     *)
(* sheets, every set of faults and every noise: a job that succeeds has    *)
(* closed the scanner and read every page, and no sidecar that was given   *)
(* a command is left behind.                                               *)
(***************************************************************************)
EXTENDS SidecarSession, FiniteSetTheorems, SequenceTheorems, FunctionTheorems, TLAPS

(***************************************************************************)
(* Type correctness, the closed scanner and the whole scan.                *)
(*                                                                         *)
(* The inductive invariant counts the pages still in the pipe, and says    *)
(* of each place of the child what has been announced, sent and read.      *)
(***************************************************************************)
Lines == {"ready", "error", "garbage", "binary", "scanner_list", "progress", "page", "complete",
          "shutdown"}
Commands == {"scan", "list", "cancel", "shutdown"}

Has(s, m) == \E i \in 1..Len(s) : s[i] = m
PagesIn(lines) == Cardinality({i \in 1..Len(lines) : lines[i] = "page"})
PagesFirst(lines) ==
  \A i, j \in 1..Len(lines) : i < j /\ lines[i] = "complete" => lines[j] # "page"
ScanFirst(commands) == \A i \in 2..Len(commands) : commands[i] # "scan"

(* Before the child takes the command to scan, and for a list always.      *)
Early == {"spawning", "awaiting_ready", "cleaning", "commanding"}
Fresh ==
  /\ pageNum = 0 /\ received = 0 /\ sheets > 0 /\ device = "closed"
  /\ child \in Gone \cup {"starting", "noisy", "idle"}
  /\ ~Has(stdout, "progress") /\ ~Has(stdout, "page") /\ ~Has(stdout, "complete")

Beginning ==
  /\ job = "list" \/ parent \in Early \/ Has(stdin, "scan") => Fresh
  /\ parent \in Early => stdin = <<>>
  /\ ScanFirst(stdin)
  /\ job = "list" => ~Has(stdin, "scan")
  /\ job = "scan" => ~Has(stdin, "list") /\ ~Has(stdout, "scanner_list")

(* No more pages are announced than there were sheets.                     *)
Sheets ==
  /\ child \in {"opening", "pump"} => pageNum = 0 /\ sheets > 0
  /\ child = "page" => pageNum + sheets <= MaxSheets /\ sheets > 0
  /\ child = "transfer" => pageNum + sheets <= MaxSheets + 1 /\ sheets > 0
  /\ child = "ending" => pageNum + sheets <= MaxSheets

Announced ==
  /\ received + PagesIn(stdout) <= pageNum
  /\ child = "transfer" => received + PagesIn(stdout) < pageNum

(* While the parent reads on, a page is read, in the pipe or being sent.   *)
Conserved ==
  parent \in {"loop", "reading"} /\ ~lost =>
    /\ child \in {"page", "ending", "cleanup"} \/ Has(stdout, "complete")
         => received + PagesIn(stdout) = pageNum
    /\ child = "transfer" => received + PagesIn(stdout) + 1 = pageNum

(* The child says that the scan is complete after its last page and with   *)
(* the source closed, and then rests, as it does after a list.             *)
Completed ==
  /\ Has(stdout, "complete") \/ Has(stdout, "scanner_list")
       => device = "closed" /\ child \in {"idle", "exited"}
  /\ PagesFirst(stdout)

Succeeded ==
  result = "ok" =>
    /\ parent \in {"stopping", "awaiting_exit", "done"}
    /\ device = "closed" /\ child \in {"idle", "exited"} /\ ~Has(stdin, "scan")
    /\ ~Has(stdout, "page")
    /\ job = "scan" /\ ~lost => received = pageNum

IInv == TypeOK /\ Beginning /\ Sheets /\ Announced /\ Conserved /\ Completed /\ Succeeded

(***************************************************************************)
(* The pipes.                                                              *)
(***************************************************************************)
LEMMA EmptyPipe ==
  /\ PagesIn(<<>>) = 0 /\ PagesFirst(<<>>) /\ ScanFirst(<<>>)
  /\ \A m : ~Has(<<>>, m)
  <1>1. Len(<<>>) = 0 /\ 1..0 = {} /\ 2..0 = {}
    OBVIOUS
  <1>2. {i \in 1..Len(<<>>) : <<>>[i] = "page"} = {}
    BY <1>1
  <1>3. QED
    BY <1>1, <1>2, FS_EmptySet DEF PagesIn, PagesFirst, ScanFirst, Has

(* A pipe has a number of pages in it, 0 when it has none.                 *)
LEMMA PagesInNat ==
  ASSUME NEW S, NEW s \in Seq(S)
  PROVE  PagesIn(s) \in Nat /\ (PagesIn(s) = 0 <=> ~Has(s, "page"))
  <1> DEFINE P == {i \in 1..Len(s) : s[i] = "page"}
  <1>1. IsFiniteSet(1..Len(s))
    BY FS_Interval, LenProperties
  <1>2. IsFiniteSet(P)
    BY <1>1, FS_Subset
  <1>3. PagesIn(s) \in Nat /\ (PagesIn(s) = 0 <=> P = {})
    BY <1>2, FS_CardinalityType, FS_EmptySet DEF PagesIn
  <1>4. P = {} <=> ~Has(s, "page")
    BY DEF Has
  <1>5. QED
    BY <1>3, <1>4

(* What a line added to the pipe adds to it.                               *)
LEMMA Appended ==
  ASSUME NEW S, NEW s \in Seq(S), NEW m \in S
  PROVE  /\ Append(s, m) \in Seq(S)
         /\ PagesIn(Append(s, m)) = PagesIn(s) + (IF m = "page" THEN 1 ELSE 0)
         /\ \A x : Has(Append(s, m), x) <=> Has(s, x) \/ x = m
         /\ PagesFirst(s) /\ (m = "page" => ~Has(s, "complete")) => PagesFirst(Append(s, m))
         /\ ScanFirst(s) /\ (m = "scan" => s = <<>>) => ScanFirst(Append(s, m))
  <1> DEFINE t == Append(s, m)
             n == Len(s) + 1
             P == {i \in 1..Len(s) : s[i] = "page"}
             Q == {i \in 1..Len(t) : t[i] = "page"}
  <1>1. /\ t \in Seq(S) /\ Len(s) \in Nat /\ Len(t) = n /\ t[n] = m
        /\ \A i \in 1..Len(s) : t[i] = s[i]
    BY AppendProperties, LenProperties
  <1> HIDE DEF t
  <1>2. IsFiniteSet(P) /\ n \notin P
    <2>1. IsFiniteSet(1..Len(s))
      BY <1>1, FS_Interval
    <2>2. QED
      BY <1>1, <2>1, FS_Subset
  <1>3. Q = IF m = "page" THEN P \cup {n} ELSE P
    BY <1>1
  <1>4. PagesIn(t) = PagesIn(s) + (IF m = "page" THEN 1 ELSE 0)
    <2>1. Cardinality(P \cup {n}) = Cardinality(P) + 1 /\ Cardinality(P) \in Nat
      BY <1>2, FS_AddElement, FS_CardinalityType
    <2>2. PagesIn(s) = Cardinality(P) /\ PagesIn(t) = Cardinality(Q)
      BY DEF PagesIn
    <2> HIDE DEF P, Q
    <2>3. CASE m = "page"
      BY <1>3, <2>1, <2>2, <2>3
    <2>4. CASE m # "page"
      BY <1>3, <2>1, <2>2, <2>4
    <2>5. QED
      BY <2>3, <2>4
  <1>5. \A x : Has(t, x) <=> Has(s, x) \/ x = m
    BY <1>1 DEF Has
  <1>6. PagesFirst(s) /\ (m = "page" => ~Has(s, "complete")) => PagesFirst(t)
    BY <1>1 DEF PagesFirst, Has
  <1>7. ScanFirst(s) /\ (m = "scan" => s = <<>>) => ScanFirst(t)
    <2>1. s = <<>> => Len(s) = 0
      BY EmptySeq
    <2>2. QED
      BY <1>1, <2>1 DEF ScanFirst
  <1>8. QED
    BY <1>1, <1>4, <1>5, <1>6, <1>7 DEF t

(* What a line taken from the pipe takes from it.                          *)
LEMMA Taken ==
  ASSUME NEW S, NEW s \in Seq(S), s # <<>>
  PROVE  /\ Head(s) \in S /\ Tail(s) \in Seq(S) /\ Has(s, Head(s))
         /\ PagesIn(s) = PagesIn(Tail(s)) + (IF Head(s) = "page" THEN 1 ELSE 0)
         /\ \A x : Has(s, x) <=> Has(Tail(s), x) \/ x = Head(s)
         /\ PagesFirst(s) => PagesFirst(Tail(s))
         /\ PagesFirst(s) /\ Head(s) = "complete" => ~Has(Tail(s), "page")
         /\ ScanFirst(s) => ScanFirst(Tail(s)) /\ ~Has(Tail(s), "scan")
  <1> DEFINE t == Tail(s)
             P == {i \in 1..Len(s) : s[i] = "page"}
             Q == {i \in 1..Len(t) : t[i] = "page"}
             R == {i \in 2..Len(s) : s[i] = "page"}
  <1>1. Len(s) \in Nat \ {0}
    BY EmptySeq
  <1>2. /\ t \in Seq(S) /\ Head(s) = s[1] /\ Head(s) \in S /\ Len(t) = Len(s) - 1
        /\ \A i \in 1..Len(t) : t[i] = s[i + 1]
    BY HeadTailProperties
  <1> HIDE DEF t
  <1>3. PagesIn(s) = PagesIn(t) + (IF Head(s) = "page" THEN 1 ELSE 0)
    <2>1. IsFiniteSet(1..Len(t)) /\ IsFiniteSet(1..Len(s))
      BY <1>1, <1>2, FS_Interval
    <2>2. IsFiniteSet(Q) /\ IsFiniteSet(R)
      <3>1. Q \subseteq 1..Len(t) /\ R \subseteq 1..Len(s)
        BY <1>1, <1>2
      <3>2. QED
        BY <2>1, <3>1, FS_Subset
    <2>3. ExistsBijection(Q, R)
      <3> DEFINE f == [i \in Q |-> i + 1]
      <3>1. f \in [Q -> R]
        BY <1>1, <1>2
      <3>2. \A i, j \in Q : f[i] = f[j] => i = j
        BY <1>1, <1>2
      <3>3. \A k \in R : \E i \in Q : f[i] = k
        <4> SUFFICES ASSUME NEW k \in R PROVE \E i \in Q : f[i] = k
          OBVIOUS
        <4>1. k \in Nat /\ k - 1 \in Q /\ f[k - 1] = k
          BY <1>1, <1>2
        <4>2. QED
          BY <4>1
      <3>4. f \in Bijection(Q, R)
        BY <3>1, <3>2, <3>3, Fun_IsBij
      <3>5. QED
        BY <3>4 DEF ExistsBijection
    <2>4. Cardinality(R) = Cardinality(Q) /\ Cardinality(R) \in Nat
      BY <2>2, <2>3, FS_Bijection, FS_CardinalityType
    <2>5. P = (IF Head(s) = "page" THEN R \cup {1} ELSE R) /\ 1 \notin R
      BY <1>1, <1>2
    <2>6. Cardinality(R \cup {1}) = Cardinality(R) + 1
      BY <2>2, <2>5, FS_AddElement
    <2>7. PagesIn(s) = Cardinality(P) /\ PagesIn(t) = Cardinality(Q)
      BY DEF PagesIn
    <2> HIDE DEF P, Q, R
    <2>8. CASE Head(s) = "page"
      BY <2>4, <2>5, <2>6, <2>7, <2>8
    <2>9. CASE Head(s) # "page"
      BY <2>4, <2>5, <2>7, <2>9
    <2>10. QED
      BY <2>8, <2>9
  <1>4. \A x : Has(s, x) <=> Has(t, x) \/ x = Head(s)
    <2> SUFFICES ASSUME NEW x PROVE Has(s, x) <=> Has(t, x) \/ x = Head(s)
      OBVIOUS
    <2>1. Has(t, x) => Has(s, x)
      BY <1>1, <1>2 DEF Has
    <2>2. x = Head(s) => Has(s, x)
      BY <1>1, <1>2 DEF Has
    <2>3. ASSUME Has(s, x), x # Head(s) PROVE Has(t, x)
      <3>1. PICK i \in 1..Len(s) : s[i] = x
        BY <2>3 DEF Has
      <3>2. i - 1 \in 1..Len(t) /\ t[i - 1] = x
        BY <1>1, <1>2, <2>3, <3>1
      <3>3. QED
        BY <3>2 DEF Has
    <2>4. QED
      BY <2>1, <2>2, <2>3
  <1>5. PagesFirst(s) => PagesFirst(t)
    <2> SUFFICES ASSUME PagesFirst(s), NEW i \in 1..Len(t), NEW j \in 1..Len(t), i < j,
                        t[i] = "complete"
                 PROVE  t[j] # "page"
      BY DEF PagesFirst
    <2>1. i + 1 \in 1..Len(s) /\ j + 1 \in 1..Len(s) /\ i + 1 < j + 1
      BY <1>1, <1>2
    <2>2. QED
      BY <1>2, <2>1 DEF PagesFirst
  <1>6. PagesFirst(s) /\ Head(s) = "complete" => ~Has(t, "page")
    <2> SUFFICES ASSUME PagesFirst(s), Head(s) = "complete", NEW j \in 1..Len(t)
                 PROVE  t[j] # "page"
      BY DEF Has
    <2>1. 1 \in 1..Len(s) /\ j + 1 \in 1..Len(s) /\ 1 < j + 1
      BY <1>1, <1>2
    <2>2. QED
      BY <1>2, <2>1 DEF PagesFirst
  <1>7. ScanFirst(s) => ScanFirst(t) /\ ~Has(t, "scan")
    <2> SUFFICES ASSUME ScanFirst(s), NEW i \in 1..Len(t)
                 PROVE  t[i] # "scan"
      BY <1>1, <1>2 DEF ScanFirst, Has
    <2>1. i + 1 \in 2..Len(s)
      BY <1>1, <1>2
    <2>2. QED
      BY <1>2, <2>1 DEF ScanFirst
  <1>8. QED
    BY <1>2, <1>3, <1>4, <1>5, <1>6, <1>7 DEF t

(***************************************************************************)
(* The invariant.                                                          *)
(***************************************************************************)
LEMMA InitIInv == Init => IInv
  <1> SUFFICES ASSUME Init PROVE IInv
    OBVIOUS
  <1>1. TypeOK
    <2>1. attempt \in 1..MaxAttempts /\ sheets \in 0..MaxSheets /\ received \in 0..MaxSheets
          /\ pageNum \in 0..MaxSheets
      BY SidecarAssumption DEF Init
    <2>2. QED
      BY <2>1, EmptySeq DEF Init, TypeOK, ParentStates, ChildStates, Gone
  <1>2. Beginning /\ Sheets /\ Announced /\ Conserved /\ Completed /\ Succeeded
    BY SidecarAssumption, EmptyPipe
    DEF Init, Beginning, Early, Fresh, Gone, Sheets, Announced, Conserved, Completed, Succeeded
  <1>3. QED
    BY <1>1, <1>2 DEF IInv

(* A failed attempt is tried again or given up, with nothing scanned.      *)
LEMMA Retried ==
  ASSUME IInv, parent \in Early, NEW transient \in BOOLEAN, RetryOrGiveUp(transient),
         UNCHANGED <<job, flag, received, device, sheets, pageNum, lost>>, retryable' \in BOOLEAN,
         child' \in {child, "exited", "starting"}, hung' \in BOOLEAN, stdin' = <<>>, stdinOpen' \in BOOLEAN,
         stdout' \in {stdout, <<>>}, stdout' = <<>> \/ child' \in {child, "exited"}
  PROVE  IInv'
  <1> USE DEF IInv, Beginning, Early
  <1>1. /\ parent' \in {"spawning", "done"} /\ attempt' \in 1..MaxAttempts
        /\ result' \in {"none", "ok", "error", "cancelled"} /\ result' # "ok"
    BY SidecarAssumption DEF RetryOrGiveUp, TypeOK, Succeeded
  <1>2. TypeOK'
    BY <1>1 DEF TypeOK, ParentStates, ChildStates, Gone
  <1>3. Fresh /\ Fresh'
    BY EmptyPipe DEF Fresh, Gone
  <1>4. Beginning'
    BY <1>3, EmptyPipe
  <1>5. Announced'
    BY <1>3, EmptyPipe DEF Announced, Fresh, Gone
  <1>6. Completed'
    <2>1. CASE stdout' = <<>>
      BY <2>1, EmptyPipe DEF Completed
    <2>2. CASE stdout' = stdout /\ child' \in {child, "exited"}
      BY <2>2 DEF Completed
    <2>3. QED
      BY <2>1, <2>2
  <1>7. Sheets' /\ Conserved' /\ Succeeded'
    BY <1>1, <1>3 DEF Sheets, Conserved, Succeeded, Fresh, Gone
  <1>8. QED
    BY <1>2, <1>4, <1>5, <1>6, <1>7

(* What the steps that touch a pipe leave in it.                           *)
LEMMA Saying ==
  ASSUME IInv, NEW m \in Lines, Say(m)
  PROVE  /\ stdout' \in Seq(Lines)
         /\ PagesIn(stdout') = PagesIn(stdout) + (IF m = "page" THEN 1 ELSE 0)
         /\ \A x : Has(stdout', x) <=> Has(stdout, x) \/ x = m
         /\ (m = "page" => ~Has(stdout, "complete")) => PagesFirst(stdout')
         /\ UNCHANGED <<stdin, stdinOpen>>
  BY Appended DEF IInv, TypeOK, Completed, Lines, Say

(* The parent takes a line of the child's output.                          *)
LEMMA Taking ==
  ASSUME IInv, stdout # <<>>, TakeLine
  PROVE  /\ Head(stdout) \in Lines /\ stdout' \in Seq(Lines) /\ PagesIn(stdout') \in Nat
         /\ PagesIn(stdout') = 0 <=> ~Has(stdout', "page")
         /\ PagesIn(stdout) = PagesIn(stdout') + (IF Head(stdout) = "page" THEN 1 ELSE 0)
         /\ \A x : Has(stdout, x) <=> Has(stdout', x) \/ x = Head(stdout)
         /\ PagesFirst(stdout')
         /\ Head(stdout) = "complete" => ~Has(stdout', "page")
         /\ UNCHANGED <<stdin, stdinOpen>>
  <1>1. stdout \in Seq(Lines)
    BY DEF IInv, TypeOK, Lines
  <1>2. stdout' = Tail(stdout) /\ stdout' \in Seq(Lines)
    BY <1>1, Taken DEF TakeLine
  <1>3. PagesIn(stdout') \in Nat /\ (PagesIn(stdout') = 0 <=> ~Has(stdout', "page"))
    BY <1>2, PagesInNat
  <1>4. QED
    BY <1>1, <1>2, <1>3, Taken DEF IInv, Completed, TakeLine

(* The parent writes a command, a scan only into an empty pipe.            *)
LEMMA Writing ==
  ASSUME IInv, NEW c \in Commands, Write(c), c = "scan" => stdin = <<>>
  PROVE  /\ stdin' \in Seq(Commands) /\ ScanFirst(stdin')
         /\ \A x : Has(stdin', x) => Has(stdin, x) \/ x = c
         /\ UNCHANGED <<stdinOpen, stdout>>
  BY Appended DEF IInv, TypeOK, Beginning, Commands, Write

(* The child reads a command.                                              *)
LEMMA Reading ==
  ASSUME IInv, stdin # <<>>, stdin' = Tail(stdin)
  PROVE  /\ Head(stdin) \in Commands /\ Has(stdin, Head(stdin))
         /\ stdin' \in Seq(Commands) /\ ScanFirst(stdin') /\ ~Has(stdin', "scan")
  BY Taken DEF IInv, TypeOK, Beginning, Commands

(* Killing the child empties both pipes and leaves the device as it is.    *)
LEMMA Killing ==
  ASSUME Kill
  PROVE  /\ stdin' = <<>> /\ stdinOpen' = FALSE /\ ScanFirst(stdin') /\ \A m : ~Has(stdin', m)
         /\ stdin' \in Seq(Commands) /\ stdout' \in Seq(Lines)
         /\ stdout' = <<>> /\ PagesFirst(stdout') /\ \A m : ~Has(stdout', m)
         /\ PagesIn(stdout') = 0
         /\ child' = "exited" /\ hung' = FALSE /\ UNCHANGED <<device, sheets, pageNum, lost>>
  BY EmptyPipe, EmptySeq DEF Kill

Counts ==
  /\ PagesIn(stdout) \in Nat /\ (PagesIn(stdout) = 0 <=> ~Has(stdout, "page"))

(* The pages in the pipe can be counted with.                              *)
LEMMA Counted ==
  ASSUME IInv
  PROVE  Counts
  BY PagesInNat DEF Counts, IInv, TypeOK, Lines

(* What is known of the numbers before a step.                             *)
LEMMA Numbers ==
  ASSUME IInv
  PROVE  /\ MaxSheets \in Nat \ {0} /\ PagesIn(stdout) \in Nat
         /\ received \in 0..MaxSheets /\ sheets \in 0..MaxSheets /\ pageNum \in 0..MaxSheets
         /\ received + PagesIn(stdout) <= pageNum
  BY Counted, SidecarAssumption DEF IInv, TypeOK, Announced, Counts

(* The steps that change the counts, or take a command.                    *)
LEMMA ReadPageKeeps ==
  ASSUME IInv, ReadPage
  PROVE  IInv'
  <1> USE DEF childVars, Busy, Gone, Early
  <1>1. /\ parent = "reading" /\ parent' = "loop" /\ received' = received + 1
        /\ Head(stdout) = "page" /\ stdout # <<>> /\ TakeLine
        /\ UNCHANGED <<job, attempt, retryable, result, flag, childVars>>
    BY DEF ReadPage, Line
  <1>2. /\ stdout' \in Seq(Lines) /\ PagesIn(stdout') \in Nat
        /\ PagesIn(stdout) = PagesIn(stdout') + 1
        /\ \A x : Has(stdout, x) <=> Has(stdout', x) \/ x = "page"
        /\ PagesFirst(stdout') /\ UNCHANGED <<stdin, stdinOpen>>
    BY <1>1, Taking
  <1>3. /\ received' \in 0..MaxSheets
        /\ received' + PagesIn(stdout') = received + PagesIn(stdout)
    BY <1>1, <1>2, Numbers, SMTT(20)
  <1>4. ~Fresh /\ result # "ok"
    BY <1>1, <1>2 DEF Fresh, IInv, Succeeded
  <1>5. TypeOK'
    BY <1>1, <1>2, <1>3 DEF IInv, TypeOK, Lines, ParentStates
  <1>6. Beginning' /\ Sheets'
    BY <1>1, <1>2, <1>4 DEF IInv, Beginning, Sheets
  <1>7. Announced' /\ Conserved'
    <2>1. Has(stdout', "complete") => Has(stdout, "complete")
      BY <1>2
    <2>2. received' + PagesIn(stdout') <= pageNum'
      BY <1>1, <1>3, Numbers
    <2>3. child = "transfer" => received' + PagesIn(stdout') + 1 = received + PagesIn(stdout) + 1
      BY <1>3
    <2>4. QED
      BY <1>1, <1>3, <2>1, <2>2, <2>3 DEF IInv, Announced, Conserved
  <1>8. Completed' /\ Succeeded'
    BY <1>1, <1>2, <1>4 DEF IInv, Completed, Succeeded
  <1>9. QED
    BY <1>5, <1>6, <1>7, <1>8 DEF IInv

(* The parent reads how the job ended.                                     *)
LEMMA ReadOutcomeKeeps ==
  ASSUME IInv, ReadOutcome
  PROVE  IInv'
  <1> USE DEF childVars, pipeVars, Busy, Gone, Early
  <1>1. /\ parent = "reading" /\ parent' = "stopping"
        /\ UNCHANGED <<job, attempt, retryable, flag, received, childVars>>
        /\ UNCHANGED <<stdin, stdinOpen>>
    BY DEF ReadOutcome, Finish, TakeLine
  <1>2. /\ stdout' \in Seq(Lines) /\ PagesFirst(stdout') /\ PagesIn(stdout') <= PagesIn(stdout)
        /\ PagesIn(stdout') \in Nat
        /\ \A x : Has(stdout', x) => Has(stdout, x)
    <2>1. CASE stdout # <<>> /\ TakeLine
      BY <2>1, Taking, Numbers
    <2>2. CASE UNCHANGED stdout
      BY <2>2, Numbers DEF IInv, TypeOK, Completed, Lines
    <2>3. QED
      BY <2>1, <2>2 DEF ReadOutcome, Line
  <1>3. \/ result' = "error"
        \/ /\ result' = "ok" /\ stdout # <<>> /\ TakeLine
           /\ Head(stdout) \in {"complete", "scanner_list"}
    BY DEF ReadOutcome, Finish, Line
  <1>4. TypeOK'
    BY <1>1, <1>2, <1>3 DEF IInv, TypeOK, Lines, ParentStates
  <1>5. Beginning' /\ Sheets'
    BY <1>1, <1>2 DEF IInv, Beginning, Sheets, Fresh
  <1>6. Announced' /\ Conserved'
    BY <1>1, <1>2, Numbers DEF IInv, Announced, Conserved
  <1>7. Completed'
    BY <1>1, <1>2 DEF IInv, Completed
  <1>8. Succeeded'
    <2>1. CASE result' = "error"
      BY <2>1 DEF Succeeded
    <2>2. CASE Head(stdout) = "complete" /\ stdout # <<>> /\ TakeLine
      <3>1. /\ Has(stdout, "complete") /\ ~Has(stdout', "page")
            /\ PagesIn(stdout) = PagesIn(stdout') /\ PagesIn(stdout') = 0
        BY <2>2, Taking
      <3>2. ~Has(stdin, "scan")
        BY <3>1 DEF IInv, Beginning, Fresh
      <3>3. ~lost => received = pageNum
        BY <1>1, <3>1, Numbers DEF IInv, Conserved
      <3>4. QED
        BY <1>1, <3>1, <3>2, <3>3 DEF IInv, Completed, Succeeded
    <2>3. CASE Head(stdout) = "scanner_list" /\ stdout # <<>> /\ TakeLine
      <3>1. Has(stdout, "scanner_list")
        BY <2>3, Taking
      <3>2. job = "list"
        BY <3>1, SidecarAssumption DEF IInv, TypeOK, Beginning
      <3>3. ~Has(stdin, "scan") /\ ~Has(stdout', "page")
        BY <1>2, <3>2 DEF IInv, Beginning, Fresh
      <3>4. QED
        BY <1>1, <3>1, <3>2, <3>3 DEF IInv, Completed, Succeeded
    <2>4. QED
      BY <1>3, <2>1, <2>2, <2>3
  <1>9. QED
    BY <1>4, <1>5, <1>6, <1>7, <1>8 DEF IInv

(* The child takes a command: it begins the job, or ends.                  *)
LEMMA TakeCommandKeeps ==
  ASSUME IInv, TakeCommand
  PROVE  IInv'
  <1> USE DEF parentVars, Busy, Gone, Early
  <1>1. /\ child = "idle" /\ stdin # <<>> /\ stdin' = Tail(stdin)
        /\ UNCHANGED <<parentVars, stdinOpen, hung, device, sheets, pageNum, lost>>
    BY DEF TakeCommand, Alive
  <1>2. /\ Has(stdin, Head(stdin)) /\ parent \notin Early
        /\ stdin' \in Seq(Commands) /\ ScanFirst(stdin') /\ ~Has(stdin', "scan")
        /\ \A x : Has(stdin', x) => Has(stdin, x)
    BY <1>1, Reading, Taken DEF IInv, Beginning, TypeOK, Commands
  <1>3. PagesIn(stdout) \in Nat /\ stdout \in Seq(Lines) /\ PagesFirst(stdout)
    BY Numbers DEF IInv, TypeOK, Lines, Completed
  (* The scan starts: nothing of it has been said yet. *)
  <1>4. CASE Head(stdin) = "scan"
    <2>1. Fresh /\ job # "list" /\ child' = "opening" /\ UNCHANGED stdout
      BY <1>2, <1>4 DEF TakeCommand, IInv, Beginning
    <2>2. ~Has(stdout, "scanner_list") /\ ~Has(stdout, "complete") /\ job = "scan" /\ sheets > 0
      BY <2>1, SidecarAssumption DEF IInv, TypeOK, Beginning, Fresh
    <2>3. result # "ok"
      BY <1>2, <1>4 DEF IInv, Succeeded
    <2>4. TypeOK'
      BY <1>1, <1>2, <2>1 DEF IInv, TypeOK, ChildStates, Commands
    <2>5. Beginning' /\ Sheets'
      BY <1>1, <1>2, <2>1, <2>2 DEF IInv, Beginning, Sheets, Fresh
    <2>6. Announced' /\ Conserved' /\ Completed' /\ Succeeded'
      BY <1>1, <2>1, <2>2, <2>3 DEF IInv, Announced, Conserved, Completed, Succeeded
    <2>7. QED
      BY <2>4, <2>5, <2>6 DEF IInv
  (* Any other command leaves the child idle or ends it. *)
  <1>5. CASE Head(stdin) # "scan"
    <2>1. \/ UNCHANGED <<child, stdout>>
          \/ \E m \in {"scanner_list", "error", "shutdown"} :
               /\ child' \in {"idle", "exited"} /\ stdout' = Append(stdout, m)
               /\ m = "scanner_list" => Head(stdin) = "list"
      BY <1>1, <1>5 DEF TakeCommand
    <2>2. CASE UNCHANGED <<child, stdout>>
      <3>1. TypeOK' /\ Sheets' /\ Announced' /\ Conserved' /\ Completed' /\ Succeeded'
        BY <1>1, <1>2, <2>2
        DEF IInv, TypeOK, Commands, Sheets, Announced, Conserved, Completed, Succeeded
      <3>2. Beginning'
        BY <1>1, <1>2, <2>2 DEF IInv, Beginning, Fresh
      <3>3. QED
        BY <3>1, <3>2 DEF IInv
    <2>3. CASE ~UNCHANGED <<child, stdout>>
      <3>1. PICK m \in {"scanner_list", "error", "shutdown"} :
               /\ child' \in {"idle", "exited"} /\ stdout' = Append(stdout, m)
               /\ m = "scanner_list" => Head(stdin) = "list"
        BY <2>1, <2>3
      <3>2. /\ stdout' \in Seq(Lines) /\ PagesIn(stdout') = PagesIn(stdout) /\ PagesFirst(stdout')
            /\ \A x : Has(stdout', x) <=> Has(stdout, x) \/ x = m
        BY <1>3, <3>1, Appended DEF Lines
      <3>3. m = "scanner_list" => job = "list" /\ device = "closed"
        BY <1>2, <3>1, SidecarAssumption DEF IInv, TypeOK, Beginning, Fresh
      <3>4. TypeOK'
        BY <1>1, <1>2, <3>1, <3>2 DEF IInv, TypeOK, ChildStates, Commands, Lines
      <3>5. Beginning'
        BY <1>1, <1>2, <3>1, <3>2, <3>3 DEF IInv, Beginning, Fresh
      <3>6. Sheets' /\ Announced'
        BY <1>1, <3>1, <3>2 DEF IInv, Sheets, Announced
      <3>7. Conserved'
        BY <1>1, <3>1, <3>2 DEF IInv, Conserved
      <3>8. Completed' /\ Succeeded'
        BY <1>1, <1>2, <3>1, <3>2, <3>3 DEF IInv, Completed, Succeeded
      <3>9. QED
        BY <3>4, <3>5, <3>6, <3>7, <3>8 DEF IInv
    <2>4. QED
      BY <2>2, <2>3
  <1>6. QED
    BY <1>4, <1>5

(* The child announces the progress of a page it is about to transfer.     *)
LEMMA StartPageKeeps ==
  ASSUME IInv, StartPage
  PROVE  IInv'
  <1> USE DEF parentVars, Busy, Gone, Early
  <1>1. /\ child = "page" /\ child' = "transfer" /\ pageNum' = pageNum + 1 /\ Say("progress")
        /\ UNCHANGED <<parentVars, hung, device, sheets, lost>>
    BY DEF StartPage, Alive
  <1>2. /\ stdout' \in Seq(Lines) /\ PagesIn(stdout') = PagesIn(stdout) /\ PagesFirst(stdout')
        /\ \A x : Has(stdout', x) <=> Has(stdout, x) \/ x = "progress"
        /\ UNCHANGED <<stdin, stdinOpen>>
    BY <1>1, Saying, Numbers DEF Lines
  <1>3. ~Fresh /\ result # "ok" /\ ~Has(stdout, "complete") /\ ~Has(stdout, "scanner_list")
    BY <1>1 DEF IInv, Fresh, Succeeded, Completed
  <1>4. /\ pageNum' \in 0..MaxSheets /\ pageNum' + sheets <= MaxSheets + 1 /\ sheets > 0
        /\ received + PagesIn(stdout') < pageNum'
        /\ ~lost /\ parent \in {"loop", "reading"} => received + PagesIn(stdout') + 1 = pageNum'
    <2>1. pageNum + sheets <= MaxSheets /\ sheets > 0
      BY <1>1 DEF IInv, Sheets
    <2>2. ~lost /\ parent \in {"loop", "reading"} => received + PagesIn(stdout) = pageNum
      BY <1>1 DEF IInv, Conserved
    <2>3. QED
      BY <1>1, <1>2, <2>1, <2>2, Numbers
  <1>5. TypeOK'
    BY <1>1, <1>2, <1>4 DEF IInv, TypeOK, ChildStates, Lines
  <1>6. Beginning' /\ Sheets'
    BY <1>1, <1>2, <1>3, <1>4 DEF IInv, Beginning, Sheets
  <1>7. Announced' /\ Conserved'
    BY <1>1, <1>2, <1>3, <1>4, Numbers DEF Announced, Conserved
  <1>8. Completed' /\ Succeeded'
    BY <1>1, <1>2, <1>3 DEF Completed, Succeeded
  <1>9. QED
    BY <1>5, <1>6, <1>7, <1>8 DEF IInv

(* The child sends a page that it has announced.                           *)
LEMMA SendPageKeeps ==
  ASSUME IInv, SendPage
  PROVE  IInv'
  <1> USE DEF parentVars, Busy, Gone, Early
  <1>1. /\ child = "transfer" /\ child' = "ending" /\ sheets' = sheets - 1 /\ Say("page")
        /\ UNCHANGED <<parentVars, hung, device, pageNum, lost>>
    BY DEF SendPage, Alive
  <1>2. ~Fresh /\ result # "ok" /\ ~Has(stdout, "complete") /\ ~Has(stdout, "scanner_list")
    BY <1>1 DEF IInv, Fresh, Succeeded, Completed
  <1>3. /\ stdout' \in Seq(Lines) /\ PagesIn(stdout') = PagesIn(stdout) + 1 /\ PagesFirst(stdout')
        /\ \A x : Has(stdout', x) <=> Has(stdout, x) \/ x = "page"
        /\ UNCHANGED <<stdin, stdinOpen>>
    BY <1>1, <1>2, Saying DEF Lines
  <1>4. /\ sheets' \in 0..MaxSheets /\ pageNum + sheets' <= MaxSheets
        /\ ~lost /\ parent \in {"loop", "reading"} => received + PagesIn(stdout') = pageNum
    <2>1. pageNum + sheets <= MaxSheets + 1 /\ sheets > 0
      BY <1>1 DEF IInv, Sheets
    <2>2. ~lost /\ parent \in {"loop", "reading"} => received + PagesIn(stdout) + 1 = pageNum
      BY <1>1 DEF IInv, Conserved
    <2>3. QED
      BY <1>1, <1>3, <2>1, <2>2, Numbers, SMTT(20)
  <1>5. TypeOK'
    BY <1>1, <1>3, <1>4 DEF IInv, TypeOK, ChildStates, Lines
  <1>6. Beginning' /\ Sheets'
    BY <1>1, <1>2, <1>3, <1>4 DEF IInv, Beginning, Sheets
  <1>7. Conserved'
    BY <1>1, <1>2, <1>3, <1>4 DEF Conserved
  <1>8. Completed' /\ Succeeded'
    BY <1>1, <1>2, <1>3 DEF Completed, Succeeded
  <1>9. Announced'
    BY <1>1, <1>3, Numbers DEF IInv, Announced
  <1>10. QED
    BY <1>5, <1>6, <1>7, <1>8, <1>9 DEF IInv

(* One step per action, of the parent, of the child and of what may fail.  *)
LEMMA NextIInv ==
  ASSUME IInv, [Next]_vars
  PROVE  IInv'
  <1> USE DEF childVars, pipeVars, parentVars, ParentStates, ChildStates, Busy, Alive, Gone, Early
  <1>1. Counts
    BY Counted
  <1>2. CASE SpawnFails
    BY <1>2, Retried DEF SpawnFails, IInv, TypeOK, Beginning
  <1>3. CASE StartupRejected
    BY <1>3, Retried DEF StartupRejected, Kill, IInv, TypeOK
  <1>4. CASE CleanedUp
    BY <1>4, Retried DEF CleanedUp, IInv, TypeOK, Beginning
  <1>39. CASE ReaderSpawnFails
    BY <1>39, Retried DEF ReaderSpawnFails, IInv, TypeOK
  <1>40. CASE StartupMisread
    BY <1>40, Retried DEF StartupMisread, IInv, TypeOK, Beginning
  <1>5. CASE Spawn
    <2>1. TypeOK'
      BY <1>5, EmptyPipe DEF Spawn, IInv, TypeOK
    <2>2. Beginning' /\ Sheets'
      BY <1>5, EmptyPipe DEF Spawn, IInv, Beginning, Fresh, Sheets
    <2>3. Announced' /\ Conserved'
      BY <1>5, EmptyPipe
      DEF Spawn, IInv, TypeOK, Beginning, Fresh, Sheets, Announced, Conserved, Completed,
          Succeeded
    <2>4. Completed' /\ Succeeded'
      BY <1>5, EmptyPipe DEF Spawn, IInv, Completed, Succeeded
    <2>5. QED
      BY <2>1, <2>2, <2>3, <2>4 DEF IInv
  <1>6. CASE ReadyArrives
    <2>1. stdout # <<>> /\ TakeLine
      BY <1>6 DEF ReadyArrives, Line
    <2>2. /\ Head(stdout) \in Lines /\ stdout' \in Seq(Lines) /\ PagesIn(stdout') \in Nat
          /\ PagesIn(stdout') = 0 <=> ~Has(stdout', "page")
          /\ PagesIn(stdout) = PagesIn(stdout') + (IF Head(stdout) = "page" THEN 1 ELSE 0)
          /\ \A x : Has(stdout, x) <=> Has(stdout', x) \/ x = Head(stdout)
          /\ PagesFirst(stdout')
          /\ Head(stdout) = "complete" => ~Has(stdout', "page")
          /\ UNCHANGED <<stdin, stdinOpen>>
      BY <2>1, Taking
    <2>3. TypeOK'
      BY <1>6, <2>2 DEF ReadyArrives, Line, IInv, TypeOK, Lines, Commands
    <2>4. Beginning' /\ Sheets'
      BY <1>6, <2>2 DEF ReadyArrives, Line, IInv, Beginning, Fresh, Sheets
    <2>5. Announced' /\ Conserved'
      BY <1>6, <2>2 DEF ReadyArrives, Line, IInv, Announced, Conserved
    <2>6. Completed' /\ Succeeded'
      BY <1>6, <2>2 DEF ReadyArrives, Line, IInv, Completed, Succeeded
    <2>7. QED
      BY <2>3, <2>4, <2>5, <2>6 DEF IInv
  <1>7. CASE StartupUnreadable
    <2>1. /\ parent = "awaiting_ready" /\ parent' = "cleaning" /\ retryable' \in BOOLEAN
          /\ stdinOpen' = FALSE
          /\ UNCHANGED <<job, attempt, result, flag, received, childVars, stdin>>
      BY <1>7 DEF StartupUnreadable, DropUnread
    <2>2. /\ stdout' \in Seq(Lines) /\ PagesFirst(stdout')
          /\ \A x : Has(stdout', x) => Has(stdout, x)
      <3>1. stdout \in Seq(Lines) /\ PagesFirst(stdout)
        BY DEF IInv, TypeOK, Completed, Lines
      <3>2. CASE stdout # <<>> /\ stdout' = Tail(stdout)
        BY <3>1, <3>2, Taken
      <3>3. CASE stdout' = <<>>
        BY <3>3, EmptyPipe, EmptySeq
      <3>4. CASE UNCHANGED stdout
        BY <3>1, <3>4
      <3>5. QED
        BY <1>7, <3>2, <3>3, <3>4 DEF StartupUnreadable, DropUnread, Line
    <2>3. Fresh /\ result # "ok" /\ PagesIn(stdout') = 0
      BY <2>1, <2>2, PagesInNat DEF IInv, Beginning, Succeeded, Fresh
    <2>4. TypeOK'
      <3>1. retryable' \in BOOLEAN /\ stdout' \in Seq(Lines)
        BY <2>1, <2>2
      <3>2. QED
        BY <2>1, <3>1 DEF IInv, TypeOK, Lines
    <2>5. Beginning' /\ Sheets'
      BY <2>1, <2>2 DEF IInv, Beginning, Fresh, Sheets
    <2>6. Announced' /\ Conserved'
      BY <2>1, <2>3 DEF Announced, Conserved, Fresh
    <2>7. Completed' /\ Succeeded'
      BY <2>1, <2>2, <2>3 DEF IInv, Completed, Succeeded, Fresh
    <2>8. QED
      BY <2>4, <2>5, <2>6, <2>7 DEF IInv
  <1>8. CASE SendCommand
    <2>1. Write(job) /\ job \in Commands /\ stdin = <<>>
      BY <1>8, SidecarAssumption DEF SendCommand, IInv, TypeOK, Beginning, Commands
    <2>2. /\ stdin' \in Seq(Commands) /\ ScanFirst(stdin')
          /\ \A x : Has(stdin', x) => Has(stdin, x) \/ x = job
          /\ UNCHANGED <<stdinOpen, stdout>>
      BY <2>1, Writing
    <2>3. TypeOK'
      BY <1>8, <2>2 DEF SendCommand, IInv, TypeOK, Lines, Commands
    <2>4. Beginning' /\ Sheets'
      BY <1>8, <2>2 DEF SendCommand, IInv, Beginning, Fresh, Sheets
    <2>5. Announced' /\ Conserved'
      BY <1>8, <2>2
      DEF SendCommand, IInv, TypeOK, Beginning, Fresh, Sheets, Announced, Conserved, Completed,
          Succeeded
    <2>6. Completed' /\ Succeeded'
      BY <1>8, <2>2 DEF SendCommand, IInv, Completed, Succeeded
    <2>7. QED
      BY <2>3, <2>4, <2>5, <2>6 DEF IInv
  <1>9. CASE CheckFlag
    <2>1. \/ ~flag /\ UNCHANGED pipeVars /\ parent' = "reading"
          \/ flag /\ parent' = "draining" /\ Write("cancel")
      BY <1>9 DEF CheckFlag
    <2>2. \/ ~flag /\ UNCHANGED pipeVars /\ parent' = "reading"
          \/ /\ flag /\ parent' = "draining"
             /\ stdin' \in Seq(Commands) /\ ScanFirst(stdin')
             /\ \A x : Has(stdin', x) => Has(stdin, x) \/ x = "cancel"
             /\ UNCHANGED <<stdinOpen, stdout>>
      BY <2>1, Writing DEF Commands
    <2>3. TypeOK'
      BY <1>9, <2>2 DEF CheckFlag, IInv, TypeOK, Lines, Commands
    <2>4. Beginning' /\ Sheets'
      BY <1>9, <2>2 DEF CheckFlag, IInv, Beginning, Fresh, Sheets
    <2>5. Announced' /\ Conserved'
      BY <1>9, <2>2 DEF CheckFlag, IInv, Announced, Conserved
    <2>6. Completed' /\ Succeeded'
      BY <1>9, <2>2 DEF CheckFlag, IInv, Completed, Succeeded
    <2>7. QED
      BY <2>3, <2>4, <2>5, <2>6 DEF IInv
  <1>10. CASE ReadPage
    BY <1>10, ReadPageKeeps
  <1>11. CASE PageUndecodable
    <2>1. stdout # <<>> /\ TakeLine
      BY <1>11 DEF PageUndecodable, Line, Finish
    <2>2. /\ Head(stdout) \in Lines /\ stdout' \in Seq(Lines) /\ PagesIn(stdout') \in Nat
          /\ PagesIn(stdout') = 0 <=> ~Has(stdout', "page")
          /\ PagesIn(stdout) = PagesIn(stdout') + (IF Head(stdout) = "page" THEN 1 ELSE 0)
          /\ \A x : Has(stdout, x) <=> Has(stdout', x) \/ x = Head(stdout)
          /\ PagesFirst(stdout')
          /\ Head(stdout) = "complete" => ~Has(stdout', "page")
          /\ UNCHANGED <<stdin, stdinOpen>>
      BY <2>1, Taking
    <2>3. TypeOK'
      BY <1>11, <2>2 DEF PageUndecodable, Line, Finish, IInv, TypeOK, Lines, Commands
    <2>4. Beginning' /\ Sheets'
      BY <1>11, <2>2 DEF PageUndecodable, Line, Finish, IInv, Beginning, Fresh, Sheets
    <2>5. Announced' /\ Conserved'
      BY <1>11, <2>2
      DEF PageUndecodable, Line, Finish, IInv, TypeOK, Beginning, Fresh, Sheets, Announced,
          Conserved, Completed, Succeeded
    <2>6. Completed' /\ Succeeded'
      BY <1>11, <2>2 DEF PageUndecodable, Line, Finish, IInv, Completed, Succeeded
    <2>7. QED
      BY <2>3, <2>4, <2>5, <2>6 DEF IInv
  <1>12. CASE ReadProgress
    <2>1. stdout # <<>> /\ TakeLine
      BY <1>12 DEF ReadProgress, Line
    <2>2. /\ Head(stdout) \in Lines /\ stdout' \in Seq(Lines) /\ PagesIn(stdout') \in Nat
          /\ PagesIn(stdout') = 0 <=> ~Has(stdout', "page")
          /\ PagesIn(stdout) = PagesIn(stdout') + (IF Head(stdout) = "page" THEN 1 ELSE 0)
          /\ \A x : Has(stdout, x) <=> Has(stdout', x) \/ x = Head(stdout)
          /\ PagesFirst(stdout')
          /\ Head(stdout) = "complete" => ~Has(stdout', "page")
          /\ UNCHANGED <<stdin, stdinOpen>>
      BY <2>1, Taking
    <2>3. TypeOK'
      BY <1>12, <2>2 DEF ReadProgress, Line, IInv, TypeOK, Lines, Commands
    <2>4. Beginning' /\ Sheets'
      BY <1>12, <2>2 DEF ReadProgress, Line, IInv, Beginning, Fresh, Sheets
    <2>5. Announced' /\ Conserved'
      BY <1>12, <2>2 DEF ReadProgress, Line, IInv, Announced, Conserved
    <2>6. Completed' /\ Succeeded'
      BY <1>12, <2>2 DEF ReadProgress, Line, IInv, Completed, Succeeded
    <2>7. QED
      BY <2>3, <2>4, <2>5, <2>6 DEF IInv
  <1>13. CASE ReadOutcome
    BY <1>13, ReadOutcomeKeeps
  <1>14. CASE ReadTimesOut
    <2>1. /\ stdin' = <<>> /\ stdinOpen' = FALSE /\ ScanFirst(stdin') /\ \A m : ~Has(stdin', m)
          /\ stdin' \in Seq(Commands) /\ stdout' \in Seq(Lines)
          /\ stdout' = <<>> /\ PagesFirst(stdout') /\ \A m : ~Has(stdout', m)
          /\ PagesIn(stdout') = 0
          /\ child' = "exited" /\ hung' = FALSE /\ UNCHANGED <<device, sheets, pageNum, lost>>
      BY <1>14, Killing DEF ReadTimesOut
    <2>2. TypeOK'
      BY <1>14, <2>1 DEF ReadTimesOut, IInv, TypeOK, Lines, Commands
    <2>3. Beginning' /\ Sheets'
      BY <1>14, <2>1 DEF ReadTimesOut, IInv, Beginning, Fresh, Sheets
    <2>4. Announced' /\ Conserved'
      BY <1>14, <1>1, <2>1
      DEF ReadTimesOut, IInv, TypeOK, Beginning, Fresh, Sheets, Announced, Conserved, Completed,
          Succeeded, Counts, Lines, Commands
    <2>5. Completed' /\ Succeeded'
      BY <1>14, <2>1 DEF ReadTimesOut, IInv, Completed, Succeeded
    <2>6. QED
      BY <2>2, <2>3, <2>4, <2>5 DEF IInv
  <1>15. CASE Drain
    <2>1. stdout # <<>> /\ TakeLine
      BY <1>15 DEF Drain, Line
    <2>2. /\ Head(stdout) \in Lines /\ stdout' \in Seq(Lines) /\ PagesIn(stdout') \in Nat
          /\ PagesIn(stdout') = 0 <=> ~Has(stdout', "page")
          /\ PagesIn(stdout) = PagesIn(stdout') + (IF Head(stdout) = "page" THEN 1 ELSE 0)
          /\ \A x : Has(stdout, x) <=> Has(stdout', x) \/ x = Head(stdout)
          /\ PagesFirst(stdout')
          /\ Head(stdout) = "complete" => ~Has(stdout', "page")
          /\ UNCHANGED <<stdin, stdinOpen>>
      BY <2>1, Taking
    <2>3. TypeOK'
      BY <1>15, <2>2 DEF Drain, Line, IInv, TypeOK, Lines, Commands
    <2>4. Beginning' /\ Sheets'
      BY <1>15, <2>2 DEF Drain, Line, IInv, Beginning, Fresh, Sheets
    <2>5. Announced' /\ Conserved'
      BY <1>15, <2>2
      DEF Drain, Line, IInv, TypeOK, Beginning, Fresh, Sheets, Announced, Conserved, Completed,
          Succeeded
    <2>6. Completed' /\ Succeeded'
      BY <1>15, <2>2 DEF Drain, Line, IInv, Completed, Succeeded
    <2>7. QED
      BY <2>3, <2>4, <2>5, <2>6 DEF IInv
  <1>16. CASE Drained
    <2>1. UNCHANGED pipeVars \/ (stdout # <<>> /\ TakeLine)
      BY <1>16 DEF Drained, Line, EndOfFile, Finish
    <2>2. \/ UNCHANGED pipeVars
          \/ /\ Head(stdout) \in Lines /\ stdout' \in Seq(Lines) /\ PagesIn(stdout') \in Nat
             /\ PagesIn(stdout') = 0 <=> ~Has(stdout', "page")
             /\ PagesIn(stdout) = PagesIn(stdout') + (IF Head(stdout) = "page" THEN 1 ELSE 0)
             /\ \A x : Has(stdout, x) <=> Has(stdout', x) \/ x = Head(stdout)
             /\ PagesFirst(stdout')
             /\ Head(stdout) = "complete" => ~Has(stdout', "page")
             /\ UNCHANGED <<stdin, stdinOpen>>
      BY <2>1, Taking
    <2>3. TypeOK'
      BY <1>16, <2>2 DEF Drained, Line, EndOfFile, Finish, IInv, TypeOK, Lines, Commands
    <2>4. Beginning' /\ Sheets'
      BY <1>16, <2>2 DEF Drained, Line, EndOfFile, Finish, IInv, Beginning, Fresh, Sheets
    <2>5. Announced' /\ Conserved'
      BY <1>16, <2>2 DEF Drained, Line, EndOfFile, Finish, IInv, Announced, Conserved
    <2>6. Completed' /\ Succeeded'
      BY <1>16, <2>2 DEF Drained, Line, EndOfFile, Finish, IInv, Completed, Succeeded
    <2>7. QED
      BY <2>3, <2>4, <2>5, <2>6 DEF IInv
  <1>17. CASE Shutdown
    <2>1. /\ stdin' \in Seq(Commands) /\ ScanFirst(stdin')
          /\ \A x : Has(stdin', x) => Has(stdin, x) \/ x = "shutdown"
          /\ UNCHANGED <<stdinOpen, stdout>>
      BY <1>17, Writing DEF Shutdown, Commands
    <2>2. TypeOK'
      BY <1>17, <2>1 DEF Shutdown, IInv, TypeOK, Lines, Commands
    <2>3. Beginning' /\ Sheets'
      BY <1>17, <2>1 DEF Shutdown, IInv, Beginning, Fresh, Sheets
    <2>4. Announced' /\ Conserved'
      BY <1>17, <2>1 DEF Shutdown, IInv, Announced, Conserved
    <2>5. Completed' /\ Succeeded'
      BY <1>17, <2>1 DEF Shutdown, IInv, Completed, Succeeded
    <2>6. QED
      BY <2>2, <2>3, <2>4, <2>5 DEF IInv
  <1>18. CASE ChildExited
    <2>1. TypeOK'
      BY <1>18 DEF ChildExited, IInv, TypeOK
    <2>2. Beginning' /\ Sheets'
      BY <1>18 DEF ChildExited, IInv, Beginning, Fresh, Sheets
    <2>3. Announced' /\ Conserved'
      BY <1>18 DEF ChildExited, IInv, Announced, Conserved
    <2>4. Completed' /\ Succeeded'
      BY <1>18 DEF ChildExited, IInv, Completed, Succeeded
    <2>5. QED
      BY <2>1, <2>2, <2>3, <2>4 DEF IInv
  <1>19. CASE ShutdownTimesOut
    <2>1. /\ stdin' = <<>> /\ stdinOpen' = FALSE /\ ScanFirst(stdin') /\ \A m : ~Has(stdin', m)
          /\ stdin' \in Seq(Commands) /\ stdout' \in Seq(Lines)
          /\ stdout' = <<>> /\ PagesFirst(stdout') /\ \A m : ~Has(stdout', m)
          /\ PagesIn(stdout') = 0
          /\ child' = "exited" /\ hung' = FALSE /\ UNCHANGED <<device, sheets, pageNum, lost>>
      BY <1>19, Killing DEF ShutdownTimesOut
    <2>2. TypeOK'
      BY <1>19, <2>1 DEF ShutdownTimesOut, IInv, TypeOK, Lines, Commands
    <2>3. Beginning' /\ Sheets'
      BY <1>19, <2>1 DEF ShutdownTimesOut, IInv, Beginning, Fresh, Sheets
    <2>4. Announced' /\ Conserved'
      BY <1>19, <1>1, <2>1
      DEF ShutdownTimesOut, IInv, TypeOK, Beginning, Fresh, Sheets, Announced, Conserved,
          Completed, Succeeded, Counts, Lines, Commands
    <2>5. Completed' /\ Succeeded'
      BY <1>19, <2>1 DEF ShutdownTimesOut, IInv, Completed, Succeeded
    <2>6. QED
      BY <2>2, <2>3, <2>4, <2>5 DEF IInv
  <1>20. CASE RaiseFlag
    <2>1. TypeOK'
      BY <1>20 DEF RaiseFlag, IInv, TypeOK
    <2>2. Beginning' /\ Sheets'
      BY <1>20 DEF RaiseFlag, IInv, Beginning, Fresh, Sheets
    <2>3. Announced' /\ Conserved'
      BY <1>20 DEF RaiseFlag, IInv, Announced, Conserved
    <2>4. Completed' /\ Succeeded'
      BY <1>20 DEF RaiseFlag, IInv, Completed, Succeeded
    <2>5. QED
      BY <2>1, <2>2, <2>3, <2>4 DEF IInv
  <1>21. CASE SayReady
    <2>1. /\ stdout' \in Seq(Lines)
          /\ PagesIn(stdout') = PagesIn(stdout) + 0
          /\ \A x : Has(stdout', x) <=> Has(stdout, x) \/ x = "ready"
          /\ PagesFirst(stdout')
          /\ UNCHANGED <<stdin, stdinOpen>>
      BY <1>21, <1>1, Saying DEF SayReady, Lines, Counts
    <2>2. TypeOK'
      BY <1>21, <2>1 DEF SayReady, IInv, TypeOK, Lines, Commands
    <2>3. Beginning' /\ Sheets'
      BY <1>21, <2>1 DEF SayReady, IInv, Beginning, Fresh, Sheets
    <2>4. Announced' /\ Conserved'
      BY <1>21, <1>1, <2>1 DEF SayReady, IInv, Announced, Conserved, Counts
    <2>5. Completed' /\ Succeeded'
      BY <1>21, <2>1 DEF SayReady, IInv, Completed, Succeeded
    <2>6. QED
      BY <2>2, <2>3, <2>4, <2>5 DEF IInv
  <1>22. CASE SayNoise
    <2>1. \E m \in {"error", "garbage", "binary"} :
            /\ stdout' \in Seq(Lines)
            /\ PagesIn(stdout') = PagesIn(stdout)
            /\ \A x : Has(stdout', x) <=> Has(stdout, x) \/ x = m
            /\ PagesFirst(stdout')
            /\ UNCHANGED <<stdin, stdinOpen>>
      BY <1>22, <1>1, Saying, SidecarAssumption DEF SayNoise, Lines, Counts
    <2>2. TypeOK'
      BY <1>22, <2>1 DEF SayNoise, IInv, TypeOK, Lines, Commands
    <2>3. Beginning' /\ Sheets'
      BY <1>22, <2>1 DEF SayNoise, IInv, Beginning, Fresh, Sheets
    <2>4. Announced' /\ Conserved'
      BY <1>22, <2>1 DEF SayNoise, IInv, Announced, Conserved
    <2>5. Completed' /\ Succeeded'
      BY <1>22, <2>1 DEF SayNoise, IInv, Completed, Succeeded
    <2>6. QED
      BY <2>2, <2>3, <2>4, <2>5 DEF IInv
  <1>23. CASE TakeCommand
    BY <1>23, TakeCommandKeeps
  <1>24. CASE StdinCloses
    <2>1. TypeOK'
      BY <1>24 DEF StdinCloses, IInv, TypeOK
    <2>2. Beginning' /\ Sheets'
      BY <1>24 DEF StdinCloses, IInv, Beginning, Fresh, Sheets
    <2>3. Announced' /\ Conserved'
      BY <1>24 DEF StdinCloses, IInv, Announced, Conserved
    <2>4. Completed' /\ Succeeded'
      BY <1>24 DEF StdinCloses, IInv, Completed, Succeeded
    <2>5. QED
      BY <2>1, <2>2, <2>3, <2>4 DEF IInv
  <1>25. CASE OpenFails
    <2>1. /\ stdout' \in Seq(Lines)
          /\ PagesIn(stdout') = PagesIn(stdout) + 0
          /\ \A x : Has(stdout', x) <=> Has(stdout, x) \/ x = "error"
          /\ PagesFirst(stdout')
          /\ UNCHANGED <<stdin, stdinOpen>>
      BY <1>25, <1>1, Saying DEF OpenFails, Lines, Counts
    <2>2. TypeOK'
      BY <1>25, <2>1 DEF OpenFails, IInv, TypeOK, Lines, Commands
    <2>3. Beginning' /\ Sheets'
      BY <1>25, <2>1 DEF OpenFails, IInv, Beginning, Fresh, Sheets
    <2>4. Announced' /\ Conserved'
      BY <1>25, <1>1, <2>1 DEF OpenFails, IInv, Announced, Conserved, Counts
    <2>5. Completed' /\ Succeeded'
      BY <1>25, <2>1 DEF OpenFails, IInv, Completed, Succeeded
    <2>6. QED
      BY <2>2, <2>3, <2>4, <2>5 DEF IInv
  <1>26. CASE EnableSource
    <2>1. TypeOK'
      BY <1>26 DEF EnableSource, IInv, TypeOK
    <2>2. Beginning' /\ Sheets'
      BY <1>26 DEF EnableSource, IInv, Beginning, Fresh, Sheets
    <2>3. Announced' /\ Conserved'
      BY <1>26 DEF EnableSource, IInv, Announced, Conserved
    <2>4. Completed' /\ Succeeded'
      BY <1>26 DEF EnableSource, IInv, Completed, Succeeded
    <2>5. QED
      BY <2>1, <2>2, <2>3, <2>4 DEF IInv
  <1>27. CASE PollStdin
    <2>1. TypeOK'
      BY <1>27 DEF PollStdin, IInv, TypeOK
    <2>2. Beginning' /\ Sheets'
      BY <1>27 DEF PollStdin, IInv, Beginning, Fresh, Sheets
    <2>3. Announced' /\ Conserved'
      BY <1>27 DEF PollStdin, IInv, Announced, Conserved
    <2>4. Completed' /\ Succeeded'
      BY <1>27 DEF PollStdin, IInv, Completed, Succeeded
    <2>5. QED
      BY <2>1, <2>2, <2>3, <2>4 DEF IInv
  <1>28. CASE TransferReady
    <2>1. TypeOK'
      BY <1>28 DEF TransferReady, IInv, TypeOK
    <2>2. Beginning' /\ Sheets'
      BY <1>28
      DEF TransferReady, IInv, TypeOK, Beginning, Fresh, Sheets, Announced, Conserved,
          Completed, Succeeded
    <2>3. Announced' /\ Conserved'
      BY <1>28, <1>1
      DEF TransferReady, IInv, TypeOK, Beginning, Fresh, Sheets, Announced, Conserved,
          Completed, Succeeded, Counts, Lines, Commands
    <2>4. Completed' /\ Succeeded'
      BY <1>28 DEF TransferReady, IInv, Completed, Succeeded
    <2>5. QED
      BY <2>1, <2>2, <2>3, <2>4 DEF IInv
  <1>29. CASE StartPage
    BY <1>29, StartPageKeeps
  <1>30. CASE SendPage
    BY <1>30, SendPageKeeps
  <1>31. CASE PageSetupFails
    <2>1. TypeOK'
      BY <1>31 DEF PageSetupFails, IInv, TypeOK
    <2>2. Beginning' /\ Sheets'
      BY <1>31 DEF PageSetupFails, IInv, Beginning, Fresh, Sheets
    <2>3. Announced' /\ Conserved'
      BY <1>31 DEF PageSetupFails, IInv, Announced, Conserved
    <2>4. Completed' /\ Succeeded'
      BY <1>31 DEF PageSetupFails, IInv, Completed, Succeeded
    <2>5. QED
      BY <2>1, <2>2, <2>3, <2>4 DEF IInv
  <1>32. CASE PageCompressed
    <2>1. /\ stdout' \in Seq(Lines)
          /\ PagesIn(stdout') = PagesIn(stdout) + 0
          /\ \A x : Has(stdout', x) <=> Has(stdout, x) \/ x = "error"
          /\ PagesFirst(stdout')
          /\ UNCHANGED <<stdin, stdinOpen>>
      BY <1>32, <1>1, Saying DEF PageCompressed, Lines, Counts
    <2>2. TypeOK'
      BY <1>32, <2>1 DEF PageCompressed, IInv, TypeOK, Lines, Commands
    <2>3. Beginning' /\ Sheets'
      BY <1>32, <2>1 DEF PageCompressed, IInv, Beginning, Fresh, Sheets
    <2>4. Announced' /\ Conserved'
      BY <1>32, <1>1, <2>1 DEF PageCompressed, IInv, Announced, Conserved, Counts
    <2>5. Completed' /\ Succeeded'
      BY <1>32, <2>1 DEF PageCompressed, IInv, Completed, Succeeded
    <2>6. QED
      BY <2>2, <2>3, <2>4, <2>5 DEF IInv
  <1>33. CASE EndTransfer
    <2>1. TypeOK'
      BY <1>33 DEF EndTransfer, IInv, TypeOK
    <2>2. Beginning' /\ Sheets'
      BY <1>33 DEF EndTransfer, IInv, Beginning, Fresh, Sheets
    <2>3. Announced' /\ Conserved'
      BY <1>33 DEF EndTransfer, IInv, Announced, Conserved
    <2>4. Completed' /\ Succeeded'
      BY <1>33 DEF EndTransfer, IInv, Completed, Succeeded
    <2>5. QED
      BY <2>1, <2>2, <2>3, <2>4 DEF IInv
  <1>34. CASE Cleanup
    <2>1. /\ stdout' \in Seq(Lines)
          /\ PagesIn(stdout') = PagesIn(stdout) + 0
          /\ \A x : Has(stdout', x) <=> Has(stdout, x) \/ x = "complete"
          /\ PagesFirst(stdout')
          /\ UNCHANGED <<stdin, stdinOpen>>
      BY <1>34, <1>1, Saying DEF Cleanup, Lines, Counts
    <2>2. TypeOK'
      BY <1>34, <2>1 DEF Cleanup, IInv, TypeOK, Lines, Commands
    <2>3. Beginning' /\ Sheets'
      BY <1>34, <2>1 DEF Cleanup, IInv, Beginning, Fresh, Sheets
    <2>4. Announced' /\ Conserved'
      BY <1>34, <1>1, <2>1 DEF Cleanup, IInv, Announced, Conserved, Counts
    <2>5. Completed' /\ Succeeded'
      BY <1>34, <2>1 DEF Cleanup, IInv, Completed, Succeeded
    <2>6. QED
      BY <2>2, <2>3, <2>4, <2>5 DEF IInv
  <1>35. CASE Crash
    <2>1. TypeOK'
      <3>1. /\ child' \in ChildStates /\ hung' \in BOOLEAN
            /\ UNCHANGED <<job, parent, attempt, retryable, result, flag, received, stdin,
                           stdinOpen, stdout, device, sheets, pageNum, lost>>
        BY <1>35 DEF Crash, ChildStates
      <3>2. TypeOK
        BY DEF IInv
      <3>3. QED
        BY ONLY <3>1, <3>2 DEF TypeOK
    <2>2. Beginning' /\ Sheets'
      BY <1>35 DEF Crash, IInv, Beginning, Fresh, Sheets
    <2>3. Announced' /\ Conserved'
      BY <1>35 DEF Crash, IInv, Announced, Conserved
    <2>4. Completed' /\ Succeeded'
      BY <1>35 DEF Crash, IInv, Completed, Succeeded
    <2>5. QED
      BY <2>1, <2>2, <2>3, <2>4 DEF IInv
  <1>36. CASE Hang
    <2>1. TypeOK'
      BY <1>36 DEF Hang, IInv, TypeOK
    <2>2. Beginning' /\ Sheets'
      BY <1>36 DEF Hang, IInv, Beginning, Fresh, Sheets
    <2>3. Announced' /\ Conserved'
      BY <1>36 DEF Hang, IInv, Announced, Conserved
    <2>4. Completed' /\ Succeeded'
      BY <1>36 DEF Hang, IInv, Completed, Succeeded
    <2>5. QED
      BY <2>1, <2>2, <2>3, <2>4 DEF IInv
  <1>37. CASE UNCHANGED vars
    BY <1>37
    DEF vars, IInv, TypeOK, Beginning, Fresh, Sheets, Announced, Conserved, Completed,
        Succeeded
  <1>38. QED
    BY <1>2, <1>3, <1>4, <1>5, <1>6, <1>7, <1>8, <1>9, <1>10, <1>11, <1>12, <1>13, <1>14,
       <1>15, <1>16, <1>17, <1>18, <1>19, <1>20, <1>21, <1>22, <1>23, <1>24, <1>25, <1>26,
       <1>27, <1>28, <1>29, <1>30, <1>31, <1>32, <1>33, <1>34, <1>35, <1>36, <1>37, <1>39, <1>40
    DEF Next, ParentStep, ChildStep, Faulty, Done

(* The inductive invariant, behind the three theorems below.               *)
LEMMA Invariance == Spec => []IInv
  <1>1. IInv /\ [Next]_vars => IInv'
    BY NextIInv
  <1>2. QED
    BY InitIInv, <1>1, PTL DEF Spec

(* Every variable keeps its type: in particular no page is announced or    *)
(* read beyond the sheets of the hopper.                                   *)
THEOREM TypeCorrect == Spec => []TypeOK
  <1>1. IInv => TypeOK
    BY DEF IInv
  <1>2. QED
    BY Invariance, <1>1, PTL

(* A job that succeeds has left the source closed, whatever failed before. *)
THEOREM SuccessIsClosed == Spec => []SuccessClosesScanner
  <1>1. IInv => SuccessClosesScanner
    BY DEF IInv, Succeeded, SuccessClosesScanner
  <1>2. QED
    BY Invariance, <1>1, PTL

(* A scan that succeeds has read every page the child announced, but for   *)
(* one it gave up on, and left none in the pipe.                           *)
THEOREM NoPageLeftBehind == Spec => []SuccessIsWhole
  <1>1. IInv => SuccessIsWhole
    BY DEF IInv, Succeeded, SuccessIsWhole, Has
  <1>2. QED
    BY Invariance, <1>1, PTL

(***************************************************************************)
(* No sidecar left behind.                                                 *)
(*                                                                         *)
(* What was abandoned was abandoned during its start, and only a child     *)
(* that is gone is followed by another attempt.                            *)
(***************************************************************************)
Abandoned == child \in {"starting", "noisy", "idle"} /\ stdin = <<>> /\ ~stdinOpen

Contained ==
  /\ NoStraySidecar
  /\ parent = "cleaning" => ~stdinOpen /\ (retryable => child \in Gone)

(* A child that is gone takes no step, and one that was abandoned only     *)
(* steps that lead to its end.                                             *)
LEMMA ChildSteps ==
  ASSUME ChildStep \/ SayNoise \/ OpenFails \/ PageSetupFails \/ PageCompressed \/ Crash \/ Hang
  PROVE  /\ child \notin Gone /\ UNCHANGED <<parent, retryable, stdinOpen>>
         /\ Abandoned => child' \in Gone \/ Abandoned'
  <1> USE DEF Alive, Abandoned, Gone, parentVars
  <1>1. CASE SayReady \/ SayNoise \/ Crash \/ Hang
    BY <1>1 DEF SayReady, SayNoise, Say, Crash, Hang, pipeVars
  <1>2. CASE TakeCommand \/ StdinCloses
    BY <1>2 DEF TakeCommand, StdinCloses, pipeVars
  <1>3. CASE \/ OpenFails \/ EnableSource \/ PollStdin \/ TransferReady \/ StartPage \/ SendPage
             \/ PageSetupFails \/ PageCompressed \/ EndTransfer \/ Cleanup
    BY <1>3 DEF OpenFails, EnableSource, PollStdin, TransferReady, StartPage, SendPage,
                PageSetupFails, PageCompressed, EndTransfer, Cleanup, Say, pipeVars
  <1>4. QED
    BY <1>1, <1>2, <1>3 DEF ChildStep

(* A step of the parent that goes back to spawning does so with the child  *)
(* gone, and one that returns with the child gone or abandoned.            *)
LEMMA ParentSteps ==
  ASSUME IInv, Contained, ParentStep \/ SpawnFails \/ ReaderSpawnFails \/ PageUndecodable
  PROVE  Contained'
  <1> USE DEF Contained, NoStraySidecar, Gone, childVars, pipeVars
  <1>1. CASE SpawnFails
    BY <1>1 DEF SpawnFails, RetryOrGiveUp
  <1>2. CASE ReaderSpawnFails
    BY <1>2 DEF ReaderSpawnFails, RetryOrGiveUp
  <1>3. CASE Spawn \/ ReadyArrives \/ SendCommand \/ CheckFlag
    BY <1>3 DEF Spawn, ReadyArrives, SendCommand, CheckFlag
  <1>4. CASE StartupUnreadable
    <2>1. stdout = <<>> => child = "exited"
      <3>1. stdout = <<>> => ~Line("garbage")
        BY DEF Line
      <3>2. QED
        BY <1>4, <3>1 DEF StartupUnreadable, DropUnread, EndOfFile
    <2>2. QED
      BY <1>4, <2>1 DEF StartupUnreadable, DropUnread
  <1>5. CASE StartupMisread \/ CleanedUp
    <2>1. child \in Gone \cup {"starting", "noisy", "idle"} /\ stdin = <<>>
      BY <1>5 DEF StartupMisread, CleanedUp, IInv, Beginning, Early, Fresh
    <2>2. CASE StartupMisread
      BY <2>1, <2>2 DEF StartupMisread, RetryOrGiveUp
    <2>3. CASE CleanedUp
      BY <2>1, <2>3 DEF CleanedUp, RetryOrGiveUp
    <2>4. QED
      BY <1>5, <2>2, <2>3
  <1>6. CASE StartupRejected \/ ReadTimesOut \/ ShutdownTimesOut
    <2>1. child' = "exited" /\ parent' # "cleaning"
      BY <1>6 DEF StartupRejected, ReadTimesOut, ShutdownTimesOut, Kill, RetryOrGiveUp
    <2>2. QED
      BY <2>1
  <1>7. CASE ReadPage \/ PageUndecodable \/ ReadProgress \/ ReadOutcome \/ Drained
    BY <1>7 DEF ReadPage, PageUndecodable, ReadProgress, ReadOutcome, Drained, Finish
  <1>8. CASE Drain
    BY <1>8 DEF Drain, parentVars
  <1>9. CASE Shutdown
    BY <1>9 DEF Shutdown
  <1>10. CASE ChildExited
    BY <1>10 DEF ChildExited
  <1>11. QED
    BY <1>1, <1>2, <1>3, <1>4, <1>5, <1>6, <1>7, <1>8, <1>9, <1>10 DEF ParentStep

(* The parent never spawns a second sidecar beside a live one; and when it *)
(* returns, its sidecar is gone or was dropped before it was sent any      *)
(* command, with its stdin closed.                                         *)
THEOREM SidecarContained == Spec => []NoStraySidecar
  <1>1. Init => Contained
    BY DEF Init, Contained, NoStraySidecar, Gone
  <1>2. IInv /\ Contained /\ [Next]_vars => Contained'
    <2> SUFFICES ASSUME IInv, Contained, [Next]_vars PROVE Contained'
      OBVIOUS
    <2>1. CASE ParentStep \/ SpawnFails \/ ReaderSpawnFails \/ PageUndecodable
      BY <2>1, ParentSteps
    <2>2. CASE \/ ChildStep \/ SayNoise \/ OpenFails \/ PageSetupFails \/ PageCompressed
               \/ Crash \/ Hang
      <3>1. /\ child \notin Gone /\ UNCHANGED <<parent, retryable, stdinOpen>>
            /\ Abandoned => child' \in Gone \/ Abandoned'
        BY <2>2, ChildSteps
      <3>2. QED
        BY <3>1 DEF Contained, NoStraySidecar, Abandoned
    <2>3. CASE RaiseFlag
      BY <2>3 DEF RaiseFlag, Contained, NoStraySidecar, childVars, pipeVars
    <2>4. CASE UNCHANGED vars
      BY <2>4 DEF vars, parentVars, childVars, pipeVars, Contained, NoStraySidecar
    <2>5. QED
      BY <2>1, <2>2, <2>3, <2>4 DEF Next, Faulty, Done
  <1>3. Contained => NoStraySidecar
    BY DEF Contained
  <1>4. QED
    BY Invariance, <1>1, <1>2, <1>3, PTL DEF Spec
=============================================================================
